---------------------------- MODULE ReaderProofs ----------------------------
(***************************************************************************)
(* Theorems about the readers of outside text, for texts of any length:    *)
(* Shebang and ElfProbe agree with what the kernel does of a program's     *)
(* first bytes; Settings leaves out nothing a command line or a            *)
(* configuration file says, tells where each setting came from, and reads  *)
(* back what it wrote.                                                     *)
(*                                                                         *)
(* A text has a first and a last position of each kind because < is well   *)
(* founded (Least).  From the same fact a set of positions that has 0 and  *)
(* with each position the next has them all (Induction), and that is how   *)
(* the recursive functions of Settings are reasoned about: each has a      *)
(* value at every position (Iterates), and what holds of its settings      *)
(* after k arguments or characters holds after one more.                   *)
(***************************************************************************)
EXTENDS Shebang, SettingsCases, SequenceTheorems, FiniteSetTheorems,
        WellFoundedInduction, TLAPS

CONSTANTS
    Byte,          \* what files are made of
    Word, TaskSize, HeaderLen(_), EntryLen(_), MaxTable, KernelTable, MaxInterp

Elf == INSTANCE ElfProbe

----------------------------------------------------------------------------
(* Positions.                                                              *)

(* A least position exists.                                                *)
LEMMA Least ==
  ASSUME NEW S, S \subseteq Nat, S # {}
  PROVE  \E k \in S : \A m \in S : k <= m
<1> DEFINE R == {ss \in Nat \X Nat : ss[1] < ss[2]}
<1>1. IsWellFoundedOn(R, Nat)
  BY NatLessThanWellFounded DEF OpToRel
<1> HIDE DEF R
<1>2. PICK k \in S : \A m \in S : ~ (<<m, k>> \in R)
  BY <1>1, WFMin
<1>3. \A m \in S : k <= m
  <2> SUFFICES ASSUME NEW m \in S, ~ (k <= m) PROVE FALSE
    OBVIOUS
  <2>1. <<m, k>> \in R
    BY DEF R
  <2> QED BY <2>1, <1>2
<1> QED BY <1>3

LEMMA Greatest ==
  ASSUME NEW S, NEW n \in Nat, S \subseteq 0..n, S # {}
  PROVE  \E k \in S : \A m \in S : m <= k
<1> DEFINE T == {n - k : k \in S}
<1>1. PICK t \in T : \A m \in T : t <= m
  <2>1. \A k \in S : n - k \in Nat
    OBVIOUS
  <2>2. T \subseteq Nat
    BY <2>1
  <2>3. T # {}
    OBVIOUS
  <2> HIDE DEF T
  <2> QED BY <2>2, <2>3, Least
<1>2. PICK k \in S : t = n - k
  OBVIOUS
<1>3. \A m \in S : m <= k
  <2> TAKE m \in S
  <2>1. t <= n - m
    BY <1>1
  <2> QED BY <2>1, <1>2
<1> QED BY <1>3

LEMMA SmallestIs ==
  ASSUME NEW S, S \subseteq Nat, NEW k \in S, \A m \in S : k <= m
  PROVE  Smallest(S) = k
<1>1. \A j \in S : (\A m \in S : j <= m) => j = k
  OBVIOUS
<1> QED BY <1>1 DEF Smallest

LEMMA GreatestIs ==
  ASSUME NEW S, S \subseteq Nat, NEW k \in S, \A m \in S : m <= k
  PROVE  (CHOOSE j \in S : \A m \in S : m <= j) = k
<1>1. \A j \in S : (\A m \in S : m <= j) => j = k
  OBVIOUS
<1> QED BY <1>1

(* A part of a text: its bytes, and a part of it.                          *)
LEMMA Slice ==
  ASSUME NEW S, NEW s \in Seq(S), NEW m \in 1..(Len(s) + 1), NEW n \in (m - 1)..Len(s)
  PROVE  /\ SubSeq(s, m, n) \in Seq(S)
         /\ Len(SubSeq(s, m, n)) = n - m + 1
         /\ DOMAIN SubSeq(s, m, n) = 1..(n - m + 1)
         /\ \A i \in 1..(n - m + 1) : SubSeq(s, m, n)[i] = s[m + i - 1]
<1>1. \A i \in m..n : s[i] \in S
  OBVIOUS
<1>2. m \in Int /\ n \in Int
  OBVIOUS
<1> QED BY <1>1, <1>2, SubSeqProperties

LEMMA SliceOfSlice ==
  ASSUME NEW S, NEW s \in Seq(S), NEW m \in 1..(Len(s) + 1), NEW n \in (m - 1)..Len(s),
         NEW p \in 1..(n - m + 2), NEW q \in (p - 1)..(n - m + 1)
  PROVE  SubSeq(SubSeq(s, m, n), p, q) = SubSeq(s, m + p - 1, m + q - 1)
<1> DEFINE t == SubSeq(s, m, n)
<1>1. /\ t \in Seq(S) /\ Len(t) = n - m + 1
      /\ \A i \in 1..(n - m + 1) : t[i] = s[m + i - 1]
  BY Slice
<1>2. p \in 1..(Len(t) + 1) /\ q \in (p - 1)..Len(t)
  BY <1>1
<1> HIDE DEF t
<1>3. /\ SubSeq(t, p, q) \in Seq(S) /\ Len(SubSeq(t, p, q)) = q - p + 1
      /\ \A i \in 1..(q - p + 1) : SubSeq(t, p, q)[i] = t[p + i - 1]
  BY <1>1, <1>2, Slice
<1>4. m + p - 1 \in 1..(Len(s) + 1) /\ m + q - 1 \in (m + p - 2)..Len(s)
  OBVIOUS
<1>5. /\ SubSeq(s, m + p - 1, m + q - 1) \in Seq(S)
      /\ Len(SubSeq(s, m + p - 1, m + q - 1)) = q - p + 1
      /\ \A i \in 1..(q - p + 1) : SubSeq(s, m + p - 1, m + q - 1)[i] = s[m + p - 1 + i - 1]
  <2>1. (m + q - 1) - (m + p - 1) + 1 = q - p + 1 /\ (m + p - 1) - 1 = m + p - 2
    OBVIOUS
  <2> QED BY <1>4, <2>1, Slice
<1>6. \A i \in 1..(q - p + 1) : SubSeq(t, p, q)[i] = SubSeq(s, m + p - 1, m + q - 1)[i]
  <2> TAKE i \in 1..(q - p + 1)
  <2>1. p + i - 1 \in 1..(n - m + 1) /\ m + (p + i - 1) - 1 = m + p - 1 + i - 1
    OBVIOUS
  <2>2. t[p + i - 1] = s[m + p - 1 + i - 1]
    BY <1>1, <2>1
  <2> QED BY <1>3, <1>5, <2>2
<1> QED BY <1>3, <1>5, <1>6, SeqEqual DEF t

-----------------------------------------------------------------------------
(* Blanks.                                                                 *)

SpaceIn(s, none) == First(s, IsSpace, none)

LEMMA FirstSpaceIs ==
  ASSUME NEW s \in Seq(Byte), NEW none, NEW k \in 1..(Len(s) + 1),
         k <= Len(s) => s[k] = "s", k = Len(s) + 1 => none = k,
         \A i \in 1..(k - 1) : s[i] # "s"
  PROVE  SpaceIn(s, none) = k
<1> DEFINE hits == {i \in DOMAIN s : IsSpace(s[i])}
<1>1. SpaceIn(s, none) = IF hits = {} THEN none ELSE Smallest(hits)
  BY DEF First, SpaceIn
<1>2. CASE k <= Len(s)
  <2>1. k \in hits /\ hits \subseteq Nat /\ \A m \in hits : k <= m
    BY <1>2 DEF IsSpace
  <2> QED BY <1>1, <2>1, SmallestIs
<1>3. CASE k = Len(s) + 1
  <2>1. hits = {}
    BY <1>3 DEF IsSpace
  <2> QED BY <1>1, <1>3, <2>1
<1> QED BY <1>2, <1>3

LEMMA TrimStartIs ==
  ASSUME NEW s \in Seq(Byte), NEW k \in 1..(Len(s) + 1),
         k <= Len(s) => s[k] # "s", \A i \in 1..(k - 1) : s[i] = "s"
  PROVE  TrimStart(s) = SubSeq(s, k, Len(s))
<1> DEFINE hits == {i \in DOMAIN s : NotSpace(s[i])}
<1>1. First(s, NotSpace, Len(s) + 1) = IF hits = {} THEN Len(s) + 1 ELSE Smallest(hits)
  BY DEF First
<1>2. CASE k <= Len(s)
  <2>1. k \in hits /\ hits \subseteq Nat /\ \A m \in hits : k <= m
    BY <1>2 DEF NotSpace
  <2> QED BY <1>1, <2>1, SmallestIs DEF TrimStart
<1>3. CASE k = Len(s) + 1
  <2>1. hits = {}
    BY <1>3 DEF NotSpace
  <2> QED BY <1>1, <1>3, <2>1 DEF TrimStart
<1> QED BY <1>2, <1>3

LEMMA NothingToTrim == TrimStart(<<>>) = <<>>
<1>1. SubSeq(<<>>, 1, 0) = <<>>
  BY SubSeqEmpty
<1>2. Len(<<>>) = 0 /\ DOMAIN <<>> = {}
  OBVIOUS
<1>3. First(<<>>, NotSpace, 1) = 1
  BY <1>2 DEF First
<1> QED BY <1>1, <1>2, <1>3 DEF TrimStart, First

LEMMA TrimEndIs ==
  ASSUME NEW s \in Seq(Byte), NEW k \in 0..Len(s),
         k > 0 => s[k] # "s", \A i \in (k + 1)..Len(s) : s[i] = "s"
  PROVE  TrimEnd(s) = SubSeq(s, 1, k)
<1> DEFINE kept == {i \in DOMAIN s : s[i] # "s"}
<1>1. CASE k > 0
  <2>1. k \in kept /\ kept \subseteq Nat /\ \A m \in kept : m <= k
    BY <1>1
  <2>2. (CHOOSE j \in kept : \A m \in kept : m <= j) = k
    BY <2>1, GreatestIs
  <2> QED BY <2>1, <2>2 DEF TrimEnd
<1>2. CASE k = 0
  <2>1. kept = {}
    BY <1>2
  <2> QED BY <1>2, <2>1 DEF TrimEnd
<1> QED BY <1>1, <1>2

LEMMA BlankLine ==
  ASSUME NEW buf \in Seq(Byte), NEW z \in 3..(Len(buf) + 1),
         \A k \in 3..(z - 1) : buf[k] = "s"
  PROVE  Line(SubSeq(buf, 3, z - 1)) = Fallback
<1> DEFINE raw == SubSeq(buf, 3, z - 1)
           t == TrimEnd(raw)
<1>1. raw \in Seq(Byte) /\ Len(raw) = z - 3 /\ \A i \in 1..(z - 3) : raw[i] = buf[i + 2]
  BY Slice
<1> HIDE DEF raw
<1>2. t = SubSeq(raw, 1, 0)
  <2>1. 0 \in 0..Len(raw) /\ ~ (0 > 0)
    BY <1>1
  <2>2. \A i \in (0 + 1)..Len(raw) : raw[i] = "s"
    <3> TAKE i \in (0 + 1)..Len(raw)
    <3>1. i \in 1..(z - 3) /\ i + 2 \in 3..(z - 1)
      BY <1>1
    <3> QED BY <1>1, <3>1
  <2> QED BY <1>1, <2>1, <2>2, TrimEndIs
<1>3. t = <<>>
  BY <1>2, SubSeqEmpty
<1>4. TrimStart(t) = <<>>
  BY <1>3, NothingToTrim
<1> QED BY <1>4 DEF Line, raw

(* A line with a name: from the first byte that is no blank to the last.   *)
LEMMA LineFromName ==
  ASSUME NEW buf \in Seq(Byte), NEW z \in 3..(Len(buf) + 1),
         NEW name \in 3..(z - 1), buf[name] # "s", \A k \in 3..(name - 1) : buf[k] = "s",
         NEW last \in name..(z - 1), buf[last] # "s", \A k \in (last + 1)..(z - 1) : buf[k] = "s"
  PROVE  LET rest == SubSeq(buf, name, last)
             end == SpaceIn(rest, Len(rest) + 1)
         IN  Line(SubSeq(buf, 3, z - 1)) = [interpreter |-> SubSeq(rest, 1, end - 1),
                                            argument |-> TrimStart(SubSeq(rest, end, Len(rest)))]
<1> DEFINE raw == SubSeq(buf, 3, z - 1)
           rest == TrimStart(TrimEnd(raw))
           end == SpaceIn(rest, Len(rest) + 1)
<1>1. /\ raw \in Seq(Byte) /\ Len(raw) = z - 3
      /\ \A i \in 1..(z - 3) : raw[i] = buf[i + 2]
  BY Slice
<1>2. TrimEnd(raw) = SubSeq(buf, 3, last)
  <2>1. TrimEnd(raw) = SubSeq(raw, 1, last - 2)
    <3>1. last - 2 \in 0..Len(raw) /\ raw[last - 2] # "s"
      BY <1>1
    <3>2. \A i \in (last - 2 + 1)..Len(raw) : raw[i] = "s"
      BY <1>1
    <3> HIDE DEF raw
    <3> QED BY <1>1, <3>1, <3>2, TrimEndIs
  <2>2. SubSeq(raw, 1, last - 2) = SubSeq(buf, 3 + 1 - 1, 3 + (last - 2) - 1)
    BY SliceOfSlice
  <2> QED BY <2>1, <2>2
<1>3. rest = SubSeq(buf, name, last)
  <2> DEFINE t == SubSeq(buf, 3, last)
  <2>1. /\ t \in Seq(Byte) /\ Len(t) = last - 2
        /\ \A i \in 1..(last - 2) : t[i] = buf[i + 2]
    BY Slice
  <2>2. name - 2 \in 1..(Len(t) + 1) /\ t[name - 2] # "s"
    BY <2>1
  <2>3. \A i \in 1..(name - 2 - 1) : t[i] = "s"
    BY <2>1
  <2>4. TrimStart(t) = SubSeq(t, name - 2, last - 2)
    <3> HIDE DEF t
    <3> QED BY <2>1, <2>2, <2>3, TrimStartIs
  <2>5. SubSeq(t, name - 2, last - 2) = SubSeq(buf, 3 + (name - 2) - 1, 3 + (last - 2) - 1)
    BY SliceOfSlice
  <2>6. 3 + (name - 2) - 1 = name /\ 3 + (last - 2) - 1 = last
    OBVIOUS
  <2>7. TrimStart(t) = SubSeq(buf, name, last)
    BY <2>4, <2>5, <2>6
  <2> QED BY <1>2, <2>7
<1>4. rest # <<>>
  <2>1. Len(SubSeq(buf, name, last)) = last - name + 1
    BY Slice
  <2> QED BY <1>3, <2>1
<1>5. Line(raw) = [interpreter |-> SubSeq(rest, 1, end - 1),
                   argument    |-> TrimStart(SubSeq(rest, end, Len(rest)))]
  BY <1>4 DEF Line, SpaceIn, First
<1> HIDE DEF raw, rest
<1> QED BY <1>3, <1>5 DEF raw

LEMMA NameOnly ==
  ASSUME NEW buf \in Seq(Byte), NEW z \in 3..(Len(buf) + 1),
         NEW name \in 3..(z - 1), buf[name] # "s", \A k \in 3..(name - 1) : buf[k] = "s",
         NEW last \in name..(z - 1), buf[last] # "s",
         \A k \in (last + 1)..(z - 1) : buf[k] = "s",
         \A k \in name..last : buf[k] # "s"
  PROVE  Line(SubSeq(buf, 3, z - 1))
           = [interpreter |-> SubSeq(buf, name, last), argument |-> <<>>]
<1> DEFINE rest == SubSeq(buf, name, last)
           end == SpaceIn(rest, Len(rest) + 1)
<1>1. /\ rest \in Seq(Byte) /\ Len(rest) = last - name + 1
      /\ \A i \in 1..(last - name + 1) : rest[i] = buf[name + i - 1]
  BY Slice
<1>2. Line(SubSeq(buf, 3, z - 1)) = [interpreter |-> SubSeq(rest, 1, end - 1),
                                     argument |-> TrimStart(SubSeq(rest, end, Len(rest)))]
  BY LineFromName
<1> HIDE DEF rest
<1>3. \A i \in 1..Len(rest) : rest[i] # "s"
  <2> TAKE i \in 1..Len(rest)
  <2>1. i \in 1..(last - name + 1) /\ name + i - 1 \in name..last
    BY <1>1
  <2> QED BY <1>1, <2>1
<1>4. end = Len(rest) + 1
  <2> DEFINE n == Len(rest) + 1
  <2>1. /\ n \in 1..(Len(rest) + 1) /\ ~ (n <= Len(rest))
        /\ \A i \in 1..(n - 1) : rest[i] # "s"
    BY <1>1, <1>3
  <2> HIDE DEF n
  <2>2. SpaceIn(rest, n) = n
    BY <1>1, <2>1, FirstSpaceIs
  <2> QED BY <2>2 DEF n
<1>5. SubSeq(rest, 1, end - 1) = rest
  BY <1>1, <1>4, SubSeqFull
<1>6. SubSeq(rest, end, Len(rest)) = <<>>
  BY <1>1, <1>4, SubSeqEmpty
<1> QED BY <1>2, <1>5, <1>6, NothingToTrim DEF rest

LEMMA NameAndArgument ==
  ASSUME NEW buf \in Seq(Byte), NEW z \in 3..(Len(buf) + 1),
         NEW name \in 3..(z - 1), buf[name] # "s", \A k \in 3..(name - 1) : buf[k] = "s",
         NEW last \in name..(z - 1), buf[last] # "s",
         \A k \in (last + 1)..(z - 1) : buf[k] = "s",
         NEW stop \in name..last, buf[stop] = "s", \A k \in name..(stop - 1) : buf[k] # "s",
         NEW arg \in stop..last, buf[arg] # "s", \A k \in stop..(arg - 1) : buf[k] = "s"
  PROVE  Line(SubSeq(buf, 3, z - 1))
           = [interpreter |-> SubSeq(buf, name, stop - 1), argument |-> SubSeq(buf, arg, last)]
<1> DEFINE rest == SubSeq(buf, name, last)
           end == SpaceIn(rest, Len(rest) + 1)
           e == stop - name + 1
           a == SubSeq(rest, e, Len(rest))
<1>1. /\ rest \in Seq(Byte) /\ Len(rest) = last - name + 1
      /\ \A i \in 1..(last - name + 1) : rest[i] = buf[name + i - 1]
  BY Slice
<1>2. Line(SubSeq(buf, 3, z - 1)) = [interpreter |-> SubSeq(rest, 1, end - 1),
                                     argument |-> TrimStart(SubSeq(rest, end, Len(rest)))]
  BY LineFromName
<1>3. SubSeq(rest, 1, e - 1) = SubSeq(buf, name, stop - 1)
  <2>1. SubSeq(rest, 1, e - 1) = SubSeq(buf, name + 1 - 1, name + (e - 1) - 1)
    BY SliceOfSlice
  <2>2. name + 1 - 1 = name /\ name + (e - 1) - 1 = stop - 1
    OBVIOUS
  <2> QED BY <2>1, <2>2
<1>4. a = SubSeq(buf, stop, last)
  <2>1. a = SubSeq(buf, name + e - 1, name + Len(rest) - 1)
    BY <1>1, SliceOfSlice
  <2>2. name + e - 1 = stop /\ name + Len(rest) - 1 = last
    BY <1>1
  <2> QED BY <2>1, <2>2
<1> HIDE DEF rest
<1>5. end = e
  <2>1. e \in 1..(Len(rest) + 1) /\ e # Len(rest) + 1 /\ rest[e] = "s"
    BY <1>1
  <2>2. \A i \in 1..(e - 1) : rest[i] # "s"
    <3> TAKE i \in 1..(e - 1)
    <3>1. i \in 1..(last - name + 1) /\ name + i - 1 \in name..(stop - 1)
      OBVIOUS
    <3> QED BY <1>1, <3>1
  <2> HIDE DEF e
  <2> QED BY <1>1, <2>1, <2>2, FirstSpaceIs
<1> HIDE DEF a, end
<1>6. /\ a \in Seq(Byte) /\ Len(a) = last - stop + 1
      /\ \A i \in 1..(last - stop + 1) : a[i] = buf[stop + i - 1]
  BY <1>4, Slice
<1>7. TrimStart(a) = SubSeq(a, arg - stop + 1, last - stop + 1)
  <2> DEFINE f == arg - stop + 1
  <2>1. f \in 1..(Len(a) + 1) /\ a[f] # "s"
    BY <1>6
  <2>2. \A i \in 1..(f - 1) : a[i] = "s"
    <3> TAKE i \in 1..(f - 1)
    <3>1. i \in 1..(last - stop + 1) /\ stop + i - 1 \in stop..(arg - 1)
      OBVIOUS
    <3> QED BY <1>6, <3>1
  <2> HIDE DEF f
  <2>3. TrimStart(a) = SubSeq(a, f, Len(a))
    BY <1>6, <2>1, <2>2, TrimStartIs
  <2> QED BY <1>6, <2>3 DEF f
<1>8. TrimStart(a) = SubSeq(buf, arg, last)
  <2>1. SubSeq(a, arg - stop + 1, last - stop + 1)
          = SubSeq(buf, stop + (arg - stop + 1) - 1, stop + (last - stop + 1) - 1)
    BY <1>4, SliceOfSlice
  <2>2. stop + (arg - stop + 1) - 1 = arg /\ stop + (last - stop + 1) - 1 = last
    OBVIOUS
  <2> QED BY <1>7, <2>1, <2>2
<1>9. SubSeq(rest, end, Len(rest)) = a
  BY <1>5 DEF a
<1>10. SubSeq(rest, 1, end - 1) = SubSeq(buf, name, stop - 1)
  <2> HIDE DEF e
  <2> QED BY <1>3, <1>5
<1> QED BY <1>2, <1>8, <1>9, <1>10

-----------------------------------------------------------------------------
(* The kernel's pointers.                                                  *)

LEMMA NextNonSpaceIs ==
  ASSUME NEW buf, NEW i \in Nat, NEW last \in Nat, NEW k \in i..last,
         buf[k] # "s", \A j \in i..(k - 1) : buf[j] = "s"
  PROVE  NextNonSpace(buf, i, last) = k
<1> DEFINE ks == {j \in i..last : buf[j] # "s"}
<1>1. k \in ks /\ ks \subseteq Nat /\ \A m \in ks : k <= m
  OBVIOUS
<1> QED BY <1>1, SmallestIs DEF NextNonSpace

LEMMA NextTerminatorIs ==
  ASSUME NEW buf, NEW i \in Nat, NEW last \in Nat, NEW k \in i..last,
         buf[k] \in {"s", "0"}, \A j \in i..(k - 1) : buf[j] \notin {"s", "0"}
  PROVE  NextTerminator(buf, i, last) = k
<1> DEFINE ks == {j \in i..last : buf[j] \in {"s", "0"}}
<1>1. k \in ks /\ ks \subseteq Nat /\ \A m \in ks : k <= m
  OBVIOUS
<1> QED BY <1>1, SmallestIs DEF NextTerminator

LEMMA NoTerminator ==
  ASSUME NEW buf, NEW i \in Nat, NEW last \in Nat,
         \A j \in i..last : buf[j] \notin {"s", "0"}
  PROVE  NextTerminator(buf, i, last) = 0
BY DEF NextTerminator

LEMMA WholeString ==
  ASSUME NEW buf, NEW i \in Nat, NEW last \in Int, \A j \in i..last : buf[j] # "0"
  PROVE  String(buf, i, last) = SubSeq(buf, i, last)
<1> DEFINE ks == {j \in i..last : buf[j] = "0"}
<1>1. ks = {}
  OBVIOUS
<1> QED BY <1>1 DEF String

LEMMA EndedString ==
  ASSUME NEW buf, NEW i \in Nat, NEW last \in Int, NEW n \in i..last,
         buf[n] = "0", \A j \in i..(n - 1) : buf[j] # "0"
  PROVE  String(buf, i, last) = SubSeq(buf, i, n - 1)
<1> DEFINE ks == {j \in i..last : buf[j] = "0"}
<1>1. n \in ks /\ ks \subseteq Nat /\ \A m \in ks : n <= m
  OBVIOUS
<1>2. Smallest(ks) = n /\ ks # {}
  BY <1>1, SmallestIs
<1>3. String(buf, i, last) = SubSeq(buf, i, Smallest(ks) - 1)
  BY <1>2 DEF String
<1> HIDE DEF ks
<1> QED BY <1>2, <1>3

(* A line whose first z - 1 bytes tino reads, and that ends there for the  *)
(* kernel too, or holds a NUL there.                                       *)
Ends(buf, z, limit) ==
    /\ \/ limit = z
       \/ limit > z /\ buf[z] = "0"
    /\ \A k \in 3..(z - 1) : buf[k] # "0"

(* What the kernel takes the interpreter's name and the last byte for.     *)
LEMMA InterpretedNamed ==
  ASSUME NEW buf, NEW limit \in Nat, NEW name \in 3..(limit - 1), NEW last \in name..(limit - 1),
         buf[name] # "s", \A k \in 3..(name - 1) : buf[k] = "s",
         buf[last] # "s", \A k \in (last + 1)..(limit - 1) : buf[k] = "s"
  PROVE  LET stop == NextTerminator(buf, name, last)
             arg == IF stop = 0 \/ buf[stop] = "0" THEN 0 ELSE NextNonSpace(buf, stop, last)
         IN  Interpreted(buf, limit)
               = [interpreter |-> String(buf, name, IF stop = 0 THEN last ELSE stop - 1),
                  argument    |-> IF arg = 0 THEN <<>> ELSE String(buf, arg, last)]
<1> DEFINE kept == {k \in 3..(limit - 1) : buf[k] # "s"}
           end == IF kept = {} THEN 3 ELSE 1 + CHOOSE k \in kept : \A m \in kept : m <= k
<1>1. last \in kept /\ kept \subseteq Nat /\ \A m \in kept : m <= last
  OBVIOUS
<1>2. end = 1 + last
  BY <1>1, GreatestIs
<1>3. kept # {}
  BY <1>1
<1>4. NextNonSpace(buf, 3, end) = name
  BY <1>2, NextNonSpaceIs
<1>5. name \notin {0, end} /\ end - 1 = last
  BY <1>2
<1>6. Interpreted(buf, limit) =
        LET first == NextNonSpace(buf, 3, end)
            stop == NextTerminator(buf, first, end - 1)
            arg == IF stop = 0 \/ buf[stop] = "0" THEN 0 ELSE NextNonSpace(buf, stop, end - 1)
        IN  IF kept = {} \/ first \in {0, end} THEN NoExec
            ELSE [interpreter |-> String(buf, first, IF stop = 0 THEN end - 1 ELSE stop - 1),
                  argument    |-> IF arg = 0 THEN <<>> ELSE String(buf, arg, end - 1)]
  BY DEF Interpreted
<1> HIDE DEF kept, end
<1> QED BY <1>3, <1>4, <1>5, <1>6

LEMMA NotRefused ==
  ASSUME NEW x, NEW y
  PROVE  [interpreter |-> x, argument |-> y] # NoExec
<1>1. DOMAIN [interpreter |-> x, argument |-> y] = {"interpreter", "argument"}
  OBVIOUS
<1>2. DOMAIN NoExec = {"refused"}
  BY DEF NoExec
<1> QED BY <1>1, <1>2

Agree(k, t) ==
    IF k = NoExec THEN t = Fallback
    ELSE k.interpreter # <<>> =>
           t.interpreter = k.interpreter /\ TrimEnd(t.argument) = TrimEnd(k.argument)

LEMMA AgreeOnRecords ==
  ASSUME NEW a, NEW b, NEW c, NEW d,
         a # <<>> => c = a /\ TrimEnd(d) = TrimEnd(b)
  PROVE  Agree([interpreter |-> a, argument |-> b], [interpreter |-> c, argument |-> d])
<1> DEFINE k == [interpreter |-> a, argument |-> b]
           t == [interpreter |-> c, argument |-> d]
<1>1. k.interpreter = a /\ k.argument = b /\ t.interpreter = c /\ t.argument = d
  OBVIOUS
<1>2. k # NoExec
  BY NotRefused
<1> HIDE DEF k, t
<1>3. Agree(k, t)
  BY <1>1, <1>2 DEF Agree
<1> QED BY <1>3 DEF k, t

(* Nothing but blanks.                                                     *)
LEMMA BlankAgrees ==
  ASSUME NEW buf \in Seq(Byte), NEW z \in 3..(Len(buf) + 1), NEW limit \in Nat,
         Ends(buf, z, limit), \A k \in 3..(z - 1) : buf[k] = "s"
  PROVE  Agree(Interpreted(buf, limit), Line(SubSeq(buf, 3, z - 1)))
<1>1. Line(SubSeq(buf, 3, z - 1)) = Fallback
  BY BlankLine
<1>2. CASE limit = z
  <2>1. {k \in 3..(limit - 1) : buf[k] # "s"} = {}
    BY <1>2
  <2>2. Interpreted(buf, limit) = NoExec
    BY <2>1 DEF Interpreted
  <2> QED BY <1>1, <2>2 DEF Agree
<1>3. CASE limit > z /\ buf[z] = "0"
  <2> DEFINE kept == {k \in 3..(limit - 1) : buf[k] # "s"}
  <2>1. z \in kept /\ kept \subseteq 0..limit
    BY <1>3
  <2>2. PICK last \in kept : \A m \in kept : m <= last
    BY <2>1, Greatest
  <2>3. /\ z \in 3..(limit - 1) /\ last \in z..(limit - 1)
        /\ buf[last] # "s" /\ buf[z] # "s"
    BY <1>3, <2>1, <2>2
  <2>4. \A k \in (last + 1)..(limit - 1) : buf[k] = "s"
    BY <2>2, <2>3
  <2> DEFINE stop == NextTerminator(buf, z, last)
             arg == IF stop = 0 \/ buf[stop] = "0" THEN 0 ELSE NextNonSpace(buf, stop, last)
             a == String(buf, z, IF stop = 0 THEN last ELSE stop - 1)
             b == IF arg = 0 THEN <<>> ELSE String(buf, arg, last)
  <2>5. Interpreted(buf, limit) = [interpreter |-> a, argument |-> b]
    BY <2>3, <2>4, InterpretedNamed
  <2>6. stop = z
    BY <1>3, <2>3, NextTerminatorIs
  <2>7. String(buf, z, z - 1) = SubSeq(buf, z, z - 1)
    <3>1. z - 1 \in Int /\ z \in Nat /\ \A j \in z..(z - 1) : buf[j] # "0"
      OBVIOUS
    <3> QED BY <3>1, WholeString
  <2>8. a = <<>>
    <3>1. SubSeq(buf, z, z - 1) = <<>>
      BY <2>3, SubSeqEmpty
    <3>2. z # 0
      OBVIOUS
    <3> HIDE DEF stop
    <3> QED BY <2>6, <2>7, <3>1, <3>2
  <2> HIDE DEF a, b
  <2>9. Agree([interpreter |-> a, argument |-> b], [interpreter |-> <<>>, argument |-> <<>>])
    BY <2>8, AgreeOnRecords
  <2> QED BY <1>1, <2>5, <2>9 DEF Fallback
<1> QED BY <1>2, <1>3 DEF Ends

(* A name, and no blank after it that anything follows.                    *)
LEMMA NameAgrees ==
  ASSUME NEW buf \in Seq(Byte), NEW z \in 3..(Len(buf) + 1), NEW limit \in Nat,
         Ends(buf, z, limit),
         NEW name \in 3..(z - 1), buf[name] # "s", \A k \in 3..(name - 1) : buf[k] = "s",
         NEW last \in name..(z - 1), buf[last] # "s",
         \A k \in (last + 1)..(z - 1) : buf[k] = "s",
         \A k \in name..last : buf[k] # "s"
  PROVE  Agree(Interpreted(buf, limit), Line(SubSeq(buf, 3, z - 1)))
<1>1. Line(SubSeq(buf, 3, z - 1)) = [interpreter |-> SubSeq(buf, name, last), argument |-> <<>>]
  BY NameOnly
<1>2. \A k \in name..last : buf[k] # "0" /\ buf[k] \notin {"s", "0"}
  BY DEF Ends
<1>5. String(buf, name, last) = SubSeq(buf, name, last)
  <2>1. name \in Nat /\ last \in Int /\ \A j \in name..last : buf[j] # "0"
    BY <1>2
  <2> QED BY <2>1, WholeString
<1>3. CASE limit = z
  <2>1. Interpreted(buf, limit) =
          LET stop == NextTerminator(buf, name, last)
              arg == IF stop = 0 \/ buf[stop] = "0" THEN 0 ELSE NextNonSpace(buf, stop, last)
          IN  [interpreter |-> String(buf, name, IF stop = 0 THEN last ELSE stop - 1),
               argument    |-> IF arg = 0 THEN <<>> ELSE String(buf, arg, last)]
    BY <1>3, InterpretedNamed
  <2>2. NextTerminator(buf, name, last) = 0
    BY <1>2, NoTerminator
  <2>3. String(buf, name, last) = SubSeq(buf, name, last)
    BY <1>5
  <2>4. Interpreted(buf, limit) = [interpreter |-> SubSeq(buf, name, last), argument |-> <<>>]
    BY <2>1, <2>2, <2>3
  <2> QED BY <1>1, <2>4, AgreeOnRecords
<1>4. CASE limit > z /\ buf[z] = "0"
  <2>1. PICK end \in z..(limit - 1) :
          buf[end] # "s" /\ \A k \in (end + 1)..(limit - 1) : buf[k] = "s"
    <3> DEFINE kept == {k \in 3..(limit - 1) : buf[k] # "s"}
    <3>1. z \in kept /\ kept \subseteq 0..limit
      BY <1>4
    <3>2. PICK end \in kept : \A m \in kept : m <= end
      BY <3>1, Greatest
    <3> QED BY <3>1, <3>2
  <2> DEFINE stop == NextTerminator(buf, name, end)
             arg == IF stop = 0 \/ buf[stop] = "0" THEN 0 ELSE NextNonSpace(buf, stop, end)
  <2>2. Interpreted(buf, limit) =
          [interpreter |-> String(buf, name, IF stop = 0 THEN end ELSE stop - 1),
           argument    |-> IF arg = 0 THEN <<>> ELSE String(buf, arg, end)]
    BY <1>4, <2>1, InterpretedNamed
  <2>3. stop = last + 1
    <3>1. last + 1 \in name..end /\ buf[last + 1] \in {"s", "0"}
      <4>1. CASE last + 1 = z
        BY <1>4, <2>1, <4>1
      <4>2. CASE last + 1 # z
        BY <1>4, <2>1, <4>2
      <4> QED BY <4>1, <4>2
    <3>2. \A j \in name..(last + 1 - 1) : buf[j] \notin {"s", "0"}
      BY <1>2
    <3> QED BY <3>1, <3>2, NextTerminatorIs
  <2>4. String(buf, name, last) = SubSeq(buf, name, last)
    BY <1>5
  <2>5. arg = 0 \/ arg = z
    <3>1. CASE last + 1 = z
      <4>1. stop = z
        BY <2>3, <3>1
      <4> HIDE DEF stop
      <4> QED BY <1>4, <4>1
    <3>2. CASE last + 1 # z
      <4>1. last + 1 \in 3..(z - 1) /\ buf[last + 1] = "s" /\ z \in (last + 1)..end
        BY <2>1, <3>2
      <4>2. NextNonSpace(buf, last + 1, end) = z
        BY <1>4, <2>1, <4>1, NextNonSpaceIs
      <4> HIDE DEF stop
      <4> QED BY <2>3, <4>1, <4>2
    <3> QED BY <3>1, <3>2
  <2>6. String(buf, z, end) = <<>>
    <3>1. String(buf, z, end) = SubSeq(buf, z, z - 1)
      <4>1. z \in z..end /\ \A j \in z..(z - 1) : buf[j] # "0"
        BY <2>1
      <4> QED BY <1>4, <2>1, <4>1, EndedString
    <3> QED BY <3>1, SubSeqEmpty
  <2>7. Interpreted(buf, limit) = [interpreter |-> SubSeq(buf, name, last), argument |-> <<>>]
    <3>1. last + 1 # 0 /\ last + 1 - 1 = last
      OBVIOUS
    <3>2. (IF stop = 0 THEN end ELSE stop - 1) = last
      BY <2>3, <3>1
    <3>3. (IF arg = 0 THEN <<>> ELSE String(buf, arg, end)) = <<>>
      <4> HIDE DEF arg
      <4> QED BY <2>5, <2>6
    <3> HIDE DEF stop, arg
    <3> QED BY <2>2, <2>4, <3>2, <3>3
  <2> QED BY <1>1, <2>7, AgreeOnRecords
<1> QED BY <1>3, <1>4 DEF Ends

LEMMA TrimEndOfSlice ==
  ASSUME NEW buf \in Seq(Byte), NEW from \in 1..Len(buf), NEW to \in from..Len(buf),
         NEW last \in from..to, buf[last] # "s", \A k \in (last + 1)..to : buf[k] = "s"
  PROVE  TrimEnd(SubSeq(buf, from, to)) = SubSeq(buf, from, last)
<1> DEFINE s == SubSeq(buf, from, to)
           e == last - from + 1
<1>1. /\ s \in Seq(Byte) /\ Len(s) = to - from + 1
      /\ \A i \in 1..(to - from + 1) : s[i] = buf[from + i - 1]
  BY Slice
<1>2. e \in 0..Len(s) /\ s[e] # "s"
  BY <1>1
<1>3. \A i \in (e + 1)..Len(s) : s[i] = "s"
  <2> TAKE i \in (e + 1)..Len(s)
  <2>1. i \in 1..(to - from + 1) /\ from + i - 1 \in (last + 1)..to
    BY <1>1
  <2> QED BY <1>1, <2>1
<1>4. TrimEnd(s) = SubSeq(s, 1, e)
  <2> HIDE DEF s, e
  <2> QED BY <1>1, <1>2, <1>3, TrimEndIs
<1>5. SubSeq(s, 1, e) = SubSeq(buf, from + 1 - 1, from + e - 1)
  BY SliceOfSlice
<1>6. from + 1 - 1 = from /\ from + e - 1 = last
  OBVIOUS
<1> QED BY <1>4, <1>5, <1>6

(* A name, a blank, and an argument.                                       *)
LEMMA ArgumentAgrees ==
  ASSUME NEW buf \in Seq(Byte), NEW z \in 3..Len(buf), NEW limit \in Nat,
         Ends(buf, z, limit),
         NEW name \in 3..(z - 1), buf[name] # "s", \A k \in 3..(name - 1) : buf[k] = "s",
         NEW last \in name..(z - 1), buf[last] # "s",
         \A k \in (last + 1)..(z - 1) : buf[k] = "s",
         NEW stop \in name..last, buf[stop] = "s", \A k \in name..(stop - 1) : buf[k] # "s",
         NEW arg \in stop..last, buf[arg] # "s", \A k \in stop..(arg - 1) : buf[k] = "s"
  PROVE  Agree(Interpreted(buf, limit), Line(SubSeq(buf, 3, z - 1)))
<1>1. Line(SubSeq(buf, 3, z - 1))
        = [interpreter |-> SubSeq(buf, name, stop - 1), argument |-> SubSeq(buf, arg, last)]
  <2>1. z \in 3..(Len(buf) + 1)
    OBVIOUS
  <2> QED BY <2>1, NameAndArgument
<1> DEFINE Reaches(e) ==
             /\ buf[e] # "s" /\ \A k \in (e + 1)..(limit - 1) : buf[k] = "s"
             /\ \/ limit = z /\ e = last
                \/ limit > z /\ buf[z] = "0" /\ e >= z
<1>2. PICK end \in last..(limit - 1) : Reaches(end)
  <2>1. CASE limit = z
    <3>1. last \in last..(limit - 1) /\ Reaches(last)
      BY <2>1
    <3> QED BY <3>1
  <2>2. CASE limit > z /\ buf[z] = "0"
    <3> DEFINE kept == {k \in 3..(limit - 1) : buf[k] # "s"}
    <3>1. z \in kept /\ kept \subseteq 0..limit
      BY <2>2
    <3>2. PICK end \in kept : \A m \in kept : m <= end
      BY <3>1, Greatest
    <3>3. end >= z /\ end \in last..(limit - 1) /\ buf[end] # "s"
      BY <3>1, <3>2
    <3>4. \A k \in (end + 1)..(limit - 1) : buf[k] = "s"
      <4> SUFFICES ASSUME NEW k \in (end + 1)..(limit - 1), buf[k] # "s" PROVE FALSE
        OBVIOUS
      <4>1. k \in kept
        BY <3>3
      <4> QED BY <3>2, <3>3, <4>1
    <3>5. Reaches(end)
      BY <2>2, <3>3, <3>4
    <3> QED BY <3>3, <3>5
  <2> QED BY <2>1, <2>2 DEF Ends
<1>3. Interpreted(buf, limit) =
        LET s == NextTerminator(buf, name, end)
            a == IF s = 0 \/ buf[s] = "0" THEN 0 ELSE NextNonSpace(buf, s, end)
        IN  [interpreter |-> String(buf, name, IF s = 0 THEN end ELSE s - 1),
             argument    |-> IF a = 0 THEN <<>> ELSE String(buf, a, end)]
  BY <1>2, InterpretedNamed
<1>4. NextTerminator(buf, name, end) = stop
  <2>1. stop \in name..end /\ buf[stop] \in {"s", "0"}
    BY <1>2
  <2>2. \A j \in name..(stop - 1) : buf[j] \notin {"s", "0"}
    BY DEF Ends
  <2> QED BY <1>2, <2>1, <2>2, NextTerminatorIs
<1>5. NextNonSpace(buf, stop, end) = arg
  BY <1>2, NextNonSpaceIs
<1>6. String(buf, name, stop - 1) = SubSeq(buf, name, stop - 1)
  <2>1. /\ name \in Nat /\ stop - 1 \in Int
        /\ \A j \in name..(stop - 1) : buf[j] # "0"
    BY DEF Ends
  <2> QED BY <2>1, WholeString
<1>7. Interpreted(buf, limit) = [interpreter |-> SubSeq(buf, name, stop - 1),
                                 argument |-> String(buf, arg, end)]
  <2>1. stop # 0 /\ arg # 0 /\ buf[stop] # "0"
    OBVIOUS
  <2> QED BY <1>3, <1>4, <1>5, <1>6, <2>1
<1>8. TrimEnd(SubSeq(buf, arg, last)) = SubSeq(buf, arg, last)
  <2>1. /\ arg \in 1..Len(buf) /\ last \in arg..Len(buf) /\ last \in arg..last
        /\ \A k \in (last + 1)..last : buf[k] = "s"
    OBVIOUS
  <2> QED BY <2>1, TrimEndOfSlice
<1>9. TrimEnd(String(buf, arg, end)) = SubSeq(buf, arg, last)
  <2>1. CASE limit = z /\ end = last
    <3>1. arg \in Nat /\ end \in Int /\ \A j \in arg..end : buf[j] # "0"
      BY <2>1 DEF Ends
    <3>2. String(buf, arg, end) = SubSeq(buf, arg, last)
      BY <2>1, <3>1, WholeString
    <3> QED BY <1>8, <3>2
  <2>2. CASE limit > z /\ buf[z] = "0" /\ end >= z
    <3>1. /\ arg \in Nat /\ end \in Int /\ z \in arg..end
          /\ \A j \in arg..(z - 1) : buf[j] # "0"
      BY <2>2 DEF Ends
    <3>2. String(buf, arg, end) = SubSeq(buf, arg, z - 1)
      BY <2>2, <3>1, EndedString
    <3>3. TrimEnd(SubSeq(buf, arg, z - 1)) = SubSeq(buf, arg, last)
      <4>1. arg \in 1..Len(buf) /\ z - 1 \in arg..Len(buf) /\ last \in arg..(z - 1)
        OBVIOUS
      <4> QED BY <4>1, TrimEndOfSlice
    <3> QED BY <3>2, <3>3
  <2> QED BY <1>2, <2>1, <2>2
<1> QED BY <1>1, <1>7, <1>8, <1>9, AgreeOnRecords

LEMMA LineAgrees ==
  ASSUME NEW buf \in Seq(Byte), NEW z \in 3..Len(buf), NEW limit \in Nat,
         Ends(buf, z, limit)
  PROVE  Agree(Interpreted(buf, limit), Line(SubSeq(buf, 3, z - 1)))
<1>1. CASE \A k \in 3..(z - 1) : buf[k] = "s"
  BY <1>1, BlankAgrees
<1>2. CASE \E k \in 3..(z - 1) : buf[k] # "s"
  <2> DEFINE marks == {k \in 3..(z - 1) : buf[k] # "s"}
  <2>1. marks # {} /\ marks \subseteq Nat /\ marks \subseteq 0..z
    BY <1>2
  <2>2. PICK name \in marks : \A m \in marks : name <= m
    BY <2>1, Least
  <2>3. PICK last \in marks : \A m \in marks : m <= last
    <3>1. z \in Nat
      OBVIOUS
    <3> HIDE DEF marks
    <3> QED BY <2>1, <3>1, Greatest
  <2>4. /\ name \in 3..(z - 1) /\ buf[name] # "s" /\ \A k \in 3..(name - 1) : buf[k] = "s"
        /\ last \in name..(z - 1) /\ buf[last] # "s"
        /\ \A k \in (last + 1)..(z - 1) : buf[k] = "s"
    BY <2>2, <2>3
  <2>5. CASE \A k \in name..last : buf[k] # "s"
    BY <2>4, <2>5, NameAgrees
  <2>6. CASE \E k \in name..last : buf[k] = "s"
    <3> DEFINE blanks == {k \in name..last : buf[k] = "s"}
    <3>1. blanks # {} /\ blanks \subseteq Nat
      BY <2>4, <2>6
    <3>2. PICK stop \in blanks : \A m \in blanks : stop <= m
      BY <3>1, Least
    <3>3. /\ stop \in name..last /\ buf[stop] = "s"
          /\ \A k \in name..(stop - 1) : buf[k] # "s"
      BY <2>4, <3>2
    <3> DEFINE later == {k \in stop..last : buf[k] # "s"}
    <3>4. later # {} /\ later \subseteq Nat
      BY <2>4, <3>3
    <3>5. PICK arg \in later : \A m \in later : arg <= m
      BY <3>4, Least
    <3>6. /\ arg \in stop..last /\ buf[arg] # "s"
          /\ \A k \in stop..(arg - 1) : buf[k] = "s"
      BY <2>4, <3>3, <3>5
    <3> QED BY <2>4, <3>3, <3>6, ArgumentAgrees
  <2> QED BY <2>5, <2>6
<1> QED BY <1>1, <1>2

-----------------------------------------------------------------------------
(* The buffer.                                                             *)

LEMMA BufferIs ==
  ASSUME BufSize \in Nat, "0" \in Byte, NEW bytes \in Seq(Byte)
  PROVE  /\ Buffer(bytes) \in Seq(Byte) /\ Len(Buffer(bytes)) = BufSize
         /\ DOMAIN Buffer(bytes) = 1..BufSize
         /\ \A k \in 1..BufSize :
              Buffer(bytes)[k] = IF k <= Len(bytes) THEN bytes[k] ELSE "0"
<1>1. Buffer(bytes) \in [1..BufSize -> Byte]
  <2>1. \A k \in 1..Len(bytes) : bytes[k] \in Byte
    OBVIOUS
  <2>2. \A k \in 1..BufSize : (IF k <= Len(bytes) THEN bytes[k] ELSE "0") \in Byte
    <3> TAKE k \in 1..BufSize
    <3>1. CASE k <= Len(bytes)
      <4>1. k \in 1..Len(bytes)
        BY <3>1
      <4> QED BY <2>1, <3>1, <4>1
    <3>2. CASE ~ (k <= Len(bytes))
      BY <3>2
    <3> QED BY <3>1, <3>2
  <2> QED BY <2>2, Zenon DEF Buffer
<1>2. Buffer(bytes) \in Seq(Byte)
  BY <1>1, SeqDef
<1>3. DOMAIN Buffer(bytes) = 1..BufSize
  BY <1>1
<1>4. Len(Buffer(bytes)) = BufSize
  BY <1>2, <1>3
<1> QED BY <1>2, <1>3, <1>4 DEF Buffer

(* What tino reads of the file is the beginning of the kernel's buffer.    *)
LEMMA VisibleIs ==
  ASSUME BufSize \in Nat, "0" \in Byte, NEW bytes \in Seq(Byte), NEW n, n = Lesser(Len(bytes), BufSize)
  PROVE  /\ n \in Nat /\ n <= Len(bytes) /\ n <= BufSize
         /\ n = Len(bytes) \/ n = BufSize
         /\ Visible(bytes) = SubSeq(Buffer(bytes), 1, n)
         /\ Visible(bytes) \in Seq(Byte) /\ Len(Visible(bytes)) = n
         /\ \A i \in 1..n : Visible(bytes)[i] = Buffer(bytes)[i]
<1> DEFINE buf == Buffer(bytes)
           v == Visible(bytes)
<1>1. n \in Nat /\ n <= Len(bytes) /\ n <= BufSize /\ (n = Len(bytes) \/ n = BufSize)
  BY DEF Lesser
<1>2. buf \in Seq(Byte) /\ Len(buf) = BufSize /\ \A k \in 1..n : buf[k] = bytes[k]
  BY <1>1, BufferIs
<1>3. v \in Seq(Byte) /\ Len(v) = n /\ \A i \in 1..n : v[i] = bytes[i]
  <2>1. 1 \in 1..(Len(bytes) + 1) /\ n \in (1 - 1)..Len(bytes) /\ n - 1 + 1 = n
    BY <1>1
  <2>2. v = SubSeq(bytes, 1, n)
    BY DEF Visible
  <2>3. /\ SubSeq(bytes, 1, n) \in Seq(Byte) /\ Len(SubSeq(bytes, 1, n)) = n
        /\ \A i \in 1..n : SubSeq(bytes, 1, n)[i] = bytes[1 + i - 1]
    BY <2>1, Slice
  <2>4. \A i \in 1..n : 1 + i - 1 = i
    BY <1>1
  <2> QED BY <2>2, <2>3, <2>4
<1>4. /\ SubSeq(buf, 1, n) \in Seq(Byte) /\ Len(SubSeq(buf, 1, n)) = n
      /\ \A i \in 1..n : SubSeq(buf, 1, n)[i] = buf[i]
  <2> HIDE DEF buf
  <2>1. 1 \in 1..(Len(buf) + 1) /\ n \in (1 - 1)..Len(buf) /\ n - 1 + 1 = n
    BY <1>1, <1>2
  <2>2. \A i \in 1..n : 1 + i - 1 = i
    BY <1>1
  <2>3. /\ SubSeq(buf, 1, n) \in Seq(Byte) /\ Len(SubSeq(buf, 1, n)) = n
        /\ \A i \in 1..n : SubSeq(buf, 1, n)[i] = buf[1 + i - 1]
    BY <1>2, <2>1, Slice
  <2> QED BY <2>2, <2>3
<1> HIDE DEF buf, v
<1>5. v = SubSeq(buf, 1, n)
  BY <1>2, <1>3, <1>4, SeqEqual
<1> QED BY <1>1, <1>2, <1>3, <1>5 DEF buf, v

LEMMA RawIs ==
  ASSUME NEW buf \in Seq(Byte), NEW n \in 2..Len(buf), NEW e \in 2..n
  PROVE  SubSeq(SubSeq(buf, 1, n), 3, e) = SubSeq(buf, 3, e)
<1>1. SubSeq(SubSeq(buf, 1, n), 3, e) = SubSeq(buf, 1 + 3 - 1, 1 + e - 1)
  BY SliceOfSlice
<1>2. 1 + 3 - 1 = 3 /\ 1 + e - 1 = e
  OBVIOUS
<1> QED BY <1>1, <1>2

-----------------------------------------------------------------------------
(* The three ways a first line ends: with a newline, with a NUL or the end *)
(* of a file that the buffer holds, or not before the buffer does.         *)

NulAt(buf) == First(buf, LAMBDA b : b = "0", BufSize + 1)
NewlineAt(buf) == First(SubSeq(buf, 1, NulAt(buf) - 1), LAMBDA b : b = "n", 0)
Cut(buf) ==
    LET first == NextNonSpace(buf, 3, BufSize)
    IN  NewlineAt(buf) = 0 /\ (first = 0 \/ NextTerminator(buf, first, BufSize) = 0)

LEMMA KernelIs ==
  ASSUME NEW bytes
  PROVE  LET buf == Buffer(bytes)
         IN  Kernel(bytes) =
               IF Cut(buf) THEN NoExec
               ELSE Interpreted(buf, IF NewlineAt(buf) > 0 THEN NewlineAt(buf) ELSE BufSize)
BY DEF Kernel, Cut, NewlineAt, NulAt, First

LEMMA NulIs ==
  ASSUME BufSize \in Nat, NEW buf \in Seq(Byte), Len(buf) = BufSize,
         NEW e \in 1..(BufSize + 1), e <= BufSize => buf[e] = "0",
         \A k \in 1..(e - 1) : buf[k] # "0"
  PROVE  NulAt(buf) = e
<1> DEFINE hits == {k \in DOMAIN buf : buf[k] = "0"}
<1>1. NulAt(buf) = IF hits = {} THEN BufSize + 1 ELSE Smallest(hits)
  BY DEF NulAt, First
<1>2. CASE e <= BufSize
  <2>1. e \in hits /\ hits \subseteq Nat /\ \A m \in hits : e <= m
    BY <1>2
  <2> QED BY <1>1, <2>1, SmallestIs
<1>3. CASE e = BufSize + 1
  <2>1. hits = {}
    BY <1>3
  <2> QED BY <1>1, <1>3, <2>1
<1> QED BY <1>2, <1>3

LEMMA NoNewline ==
  ASSUME NEW buf \in Seq(Byte), NEW nul \in 1..(Len(buf) + 1), NulAt(buf) = nul,
         \A k \in 1..(nul - 1) : buf[k] # "n"
  PROVE  NewlineAt(buf) = 0
<1> DEFINE s == SubSeq(buf, 1, nul - 1)
<1>1. DOMAIN s = 1..(nul - 1) /\ \A i \in 1..(nul - 1) : s[i] = buf[i]
  <2>1. 1 \in 1..(Len(buf) + 1) /\ nul - 1 \in (1 - 1)..Len(buf) /\ nul - 1 - 1 + 1 = nul - 1
    OBVIOUS
  <2>2. \A i \in 1..(nul - 1) : 1 + i - 1 = i
    OBVIOUS
  <2>3. /\ DOMAIN s = 1..(nul - 1 - 1 + 1)
        /\ \A i \in 1..(nul - 1 - 1 + 1) : s[i] = buf[1 + i - 1]
    BY <2>1, Slice
  <2> QED BY <2>1, <2>2, <2>3
<1> HIDE DEF s
<1>2. {k \in DOMAIN s : s[k] = "n"} = {}
  BY <1>1
<1> QED BY <1>2 DEF NewlineAt, First, s

LEMMA NewlineIs ==
  ASSUME NEW buf \in Seq(Byte), NEW nul \in 1..(Len(buf) + 1), NulAt(buf) = nul,
         NEW e \in 1..(nul - 1), buf[e] = "n", \A k \in 1..(e - 1) : buf[k] # "n"
  PROVE  NewlineAt(buf) = e
<1> DEFINE s == SubSeq(buf, 1, nul - 1)
           hits == {k \in DOMAIN s : s[k] = "n"}
<1>1. DOMAIN s = 1..(nul - 1) /\ \A i \in 1..(nul - 1) : s[i] = buf[i]
  <2>1. 1 \in 1..(Len(buf) + 1) /\ nul - 1 \in (1 - 1)..Len(buf) /\ nul - 1 - 1 + 1 = nul - 1
    OBVIOUS
  <2>2. \A i \in 1..(nul - 1) : 1 + i - 1 = i
    OBVIOUS
  <2>3. /\ DOMAIN s = 1..(nul - 1 - 1 + 1)
        /\ \A i \in 1..(nul - 1 - 1 + 1) : s[i] = buf[1 + i - 1]
    BY <2>1, Slice
  <2> QED BY <2>1, <2>2, <2>3
<1>2. NewlineAt(buf) = IF hits = {} THEN 0 ELSE Smallest(hits)
  BY DEF NewlineAt, First
<1> HIDE DEF s
<1>3. e \in hits /\ hits \subseteq Nat /\ \A m \in hits : e <= m
  BY <1>1
<1> QED BY <1>2, <1>3, SmallestIs

LEMMA EndedByNewline ==
  ASSUME BufSize \in Nat, NEW bytes, NEW buf \in Seq(Byte), buf = Buffer(bytes),
         Len(buf) = BufSize, NEW e \in 3..BufSize, buf[e] = "n",
         \A k \in 1..(e - 1) : buf[k] \notin {"n", "0"}
  PROVE  Kernel(bytes) = Interpreted(buf, e) /\ Ends(buf, e, e)
<1>1. PICK nul \in (e + 1)..(BufSize + 1) :
        (nul <= BufSize => buf[nul] = "0") /\ \A k \in 1..(nul - 1) : buf[k] # "0"
  <2> DEFINE nuls == {k \in 1..BufSize : buf[k] = "0"}
  <2>1. CASE nuls = {}
    <3>1. /\ BufSize + 1 \in (e + 1)..(BufSize + 1) /\ ~ (BufSize + 1 <= BufSize)
          /\ \A k \in 1..(BufSize + 1 - 1) : buf[k] # "0"
      BY <2>1
    <3> QED BY <3>1
  <2>2. CASE nuls # {}
    <3>1. nuls \subseteq Nat
      OBVIOUS
    <3>2. PICK nul \in nuls : \A m \in nuls : nul <= m
      BY <2>2, <3>1, Least
    <3>3. nul \in (e + 1)..(BufSize + 1) /\ \A k \in 1..(nul - 1) : buf[k] # "0"
      BY <3>2
    <3> QED BY <3>2, <3>3
  <2> QED BY <2>1, <2>2
<1>2. NulAt(buf) = nul
  BY <1>1, NulIs
<1>3. NewlineAt(buf) = e
  <2>1. e \in 1..(nul - 1) /\ nul \in 1..(Len(buf) + 1) /\ \A k \in 1..(e - 1) : buf[k] # "n"
    BY <1>1
  <2> QED BY <1>2, <2>1, NewlineIs
<1>4. ~ Cut(buf) /\ e > 0
  BY <1>3 DEF Cut
<1> QED BY <1>3, <1>4, KernelIs DEF Ends

LEMMA EndedByNul ==
  ASSUME BufSize \in Nat, NEW bytes, NEW buf \in Seq(Byte), buf = Buffer(bytes),
         Len(buf) = BufSize, NEW e \in 3..BufSize, buf[e] = "0",
         \A k \in 1..(e - 1) : buf[k] \notin {"n", "0"}
  PROVE  Kernel(bytes) = Interpreted(buf, BufSize) /\ Ends(buf, e, BufSize)
<1>1. NulAt(buf) = e
  BY NulIs
<1>2. NewlineAt(buf) = 0
  BY <1>1, NoNewline
<1> DEFINE ks == {k \in 3..BufSize : buf[k] # "s"}
<1>3. PICK first \in ks : \A m \in ks : first <= m
  <2>1. e \in ks /\ ks \subseteq Nat
    OBVIOUS
  <2> QED BY <2>1, Least
<1>4. /\ first \in 3..e /\ first \in 3..BufSize /\ buf[first] # "s"
      /\ \A k \in 3..(first - 1) : buf[k] = "s"
  <2>1. e \in ks
    OBVIOUS
  <2> QED BY <1>3, <2>1
<1>5. NextNonSpace(buf, 3, BufSize) = first
  BY <1>4, NextNonSpaceIs
<1>6. NextTerminator(buf, first, BufSize) # 0
  <2> DEFINE ts == {k \in first..BufSize : buf[k] \in {"s", "0"}}
  <2>1. e \in ts /\ ts \subseteq Nat /\ 0 \notin ts
    BY <1>4
  <2>2. PICK t \in ts : \A m \in ts : t <= m
    BY <2>1, Least
  <2>3. Smallest(ts) = t
    BY <2>1, <2>2, SmallestIs
  <2>4. NextTerminator(buf, first, BufSize) = t
    BY <2>1, <2>3 DEF NextTerminator
  <2> QED BY <2>1, <2>2, <2>4
<1>7. ~ Cut(buf)
  BY <1>4, <1>5, <1>6 DEF Cut
<1>8. Kernel(bytes) = Interpreted(buf, BufSize)
  <2>1. ~ (0 > 0)
    OBVIOUS
  <2> QED BY <1>2, <1>7, <2>1, KernelIs
<1> QED BY <1>8 DEF Ends

(* A line that outlasts the buffer: the kernel takes its name only when    *)
(* something ends it, and so does tino.                                    *)
LEMMA TrimBlank ==
  ASSUME NEW s \in Seq(Byte), \A i \in 1..Len(s) : s[i] = "s"
  PROVE  TrimStart(s) = <<>>
<1> DEFINE n == Len(s) + 1
<1>1. /\ n \in 1..(Len(s) + 1) /\ ~ (n <= Len(s)) /\ Len(s) < n
      /\ \A i \in 1..(n - 1) : s[i] = "s"
  OBVIOUS
<1> HIDE DEF n
<1>2. TrimStart(s) = SubSeq(s, n, Len(s))
  BY <1>1, TrimStartIs
<1>3. n \in Int /\ Len(s) \in Int
  BY <1>1
<1> QED BY <1>1, <1>2, <1>3, SubSeqEmpty

LEMMA NotEnded ==
  ASSUME BufSize \in Nat, BufSize >= 3, NEW bytes, NEW buf \in Seq(Byte), buf = Buffer(bytes),
         Len(buf) = BufSize, \A k \in 1..BufSize : buf[k] \notin {"n", "0"}
  PROVE  Kernel(bytes) = IF Terminated(buf) THEN Interpreted(buf, BufSize) ELSE NoExec
<1> DEFINE raw == SubSeq(buf, 3, BufSize)
           ks == {k \in 3..BufSize : buf[k] # "s"}
<1>1. NewlineAt(buf) = 0
  <2>1. /\ BufSize + 1 \in 1..(BufSize + 1) /\ ~ (BufSize + 1 <= BufSize)
        /\ \A k \in 1..(BufSize + 1 - 1) : buf[k] # "0" /\ buf[k] # "n"
    OBVIOUS
  <2> DEFINE nul == BufSize + 1
  <2> HIDE DEF nul
  <2>2. NulAt(buf) = nul
    BY <2>1, NulIs DEF nul
  <2> QED BY <2>1, <2>2, NoNewline DEF nul
<1>2. ~ (0 > 0)
  OBVIOUS
<1>3. /\ raw \in Seq(Byte) /\ Len(raw) = BufSize - 2
      /\ \A i \in 1..(BufSize - 2) : raw[i] = buf[i + 2]
  <2>1. 3 \in 1..(Len(buf) + 1) /\ BufSize \in (3 - 1)..Len(buf) /\ BufSize - 3 + 1 = BufSize - 2
    OBVIOUS
  <2>2. \A i \in 1..(BufSize - 2) : 3 + i - 1 = i + 2
    OBVIOUS
  <2>3. /\ raw \in Seq(Byte) /\ Len(raw) = BufSize - 3 + 1
        /\ \A i \in 1..(BufSize - 3 + 1) : raw[i] = buf[3 + i - 1]
    BY <2>1, Slice
  <2> QED BY <2>1, <2>2, <2>3
<1>4. Terminated(buf) <=>
        \E k \in DOMAIN TrimStart(raw) : TrimStart(raw)[k] \in {"s", "0"}
  BY DEF Terminated
<1>5. CASE ks = {}
  <2>1. NextNonSpace(buf, 3, BufSize) = 0
    BY <1>5 DEF NextNonSpace
  <2>2. Kernel(bytes) = NoExec
    BY <1>1, <2>1, KernelIs DEF Cut
  <2>3. \A i \in 1..Len(raw) : raw[i] = "s"
    <3> TAKE i \in 1..Len(raw)
    <3>1. i \in 1..(BufSize - 2) /\ i + 2 \in 3..BufSize
      BY <1>3
    <3> QED BY <1>3, <1>5, <3>1
  <2>4. TrimStart(raw) = <<>>
    <3> HIDE DEF raw
    <3> QED BY <1>3, <2>3, TrimBlank
  <2> QED BY <1>4, <2>2, <2>4
<1>6. CASE ks # {}
  <2>1. ks \subseteq Nat
    OBVIOUS
  <2>2. PICK first \in ks : \A m \in ks : first <= m
    BY <1>6, <2>1, Least
  <2>3. /\ first \in 3..BufSize /\ buf[first] # "s"
        /\ \A k \in 3..(first - 1) : buf[k] = "s"
    BY <2>2
  <2>4. NextNonSpace(buf, 3, BufSize) = first /\ first # 0
    BY <2>3, NextNonSpaceIs
  <2>5. /\ DOMAIN TrimStart(raw) = 1..(BufSize - first + 1)
        /\ \A k \in 1..(BufSize - first + 1) : TrimStart(raw)[k] = buf[first + k - 1]
    <3> DEFINE f == first - 2
    <3>1. f \in 1..(Len(raw) + 1) /\ raw[f] # "s"
      BY <1>3, <2>3
    <3>2. \A i \in 1..(f - 1) : raw[i] = "s"
      <4> TAKE i \in 1..(f - 1)
      <4>1. i \in 1..(BufSize - 2) /\ i + 2 \in 3..(first - 1)
        BY <2>3
      <4> QED BY <1>3, <2>3, <4>1
    <3>3. TrimStart(raw) = SubSeq(raw, f, Len(raw))
      <4> HIDE DEF f, raw
      <4> QED BY <1>3, <3>1, <3>2, TrimStartIs
    <3>4. SubSeq(raw, f, Len(raw)) = SubSeq(buf, first, BufSize)
      <4>1. SubSeq(raw, f, BufSize - 2) = SubSeq(buf, 3 + f - 1, 3 + (BufSize - 2) - 1)
        BY <2>3, SliceOfSlice
      <4>2. 3 + f - 1 = first /\ 3 + (BufSize - 2) - 1 = BufSize
        BY <2>3
      <4> QED BY <1>3, <4>1, <4>2
    <3>5. first \in 1..(Len(buf) + 1) /\ BufSize \in (first - 1)..Len(buf)
      BY <2>3
    <3>6. /\ DOMAIN SubSeq(buf, first, BufSize) = 1..(BufSize - first + 1)
          /\ \A k \in 1..(BufSize - first + 1) :
               SubSeq(buf, first, BufSize)[k] = buf[first + k - 1]
      BY <3>5, Slice
    <3> HIDE DEF f, raw
    <3> QED BY <3>3, <3>4, <3>6
  <2>6. Terminated(buf) <=> \E j \in first..BufSize : buf[j] \in {"s", "0"}
    <3>1. ASSUME NEW k \in 1..(BufSize - first + 1), buf[first + k - 1] \in {"s", "0"}
          PROVE  \E j \in first..BufSize : buf[j] \in {"s", "0"}
      <4>1. first + k - 1 \in first..BufSize
        BY <2>3
      <4> QED BY <3>1, <4>1
    <3>2. ASSUME NEW j \in first..BufSize, buf[j] \in {"s", "0"}
          PROVE  \E k \in 1..(BufSize - first + 1) : buf[first + k - 1] \in {"s", "0"}
      <4>1. j - first + 1 \in 1..(BufSize - first + 1) /\ first + (j - first + 1) - 1 = j
        BY <2>3
      <4> QED BY <3>2, <4>1
    <3> HIDE DEF raw
    <3> QED BY <1>4, <2>5, <3>1, <3>2
  <2>7. (NextTerminator(buf, first, BufSize) = 0) <=> ~ Terminated(buf)
    <3> DEFINE ts == {k \in first..BufSize : buf[k] \in {"s", "0"}}
    <3>1. CASE ts = {}
      BY <2>6, <3>1 DEF NextTerminator
    <3>2. CASE ts # {}
      <4>1. ts \subseteq Nat /\ 0 \notin ts
        BY <2>3
      <4>2. PICK t \in ts : \A m \in ts : t <= m
        BY <3>2, <4>1, Least
      <4>3. NextTerminator(buf, first, BufSize) = t
        BY <4>1, <4>2, SmallestIs DEF NextTerminator
      <4> QED BY <2>6, <4>1, <4>2, <4>3
    <3> QED BY <3>1, <3>2
  <2>8. Cut(buf) <=> ~ Terminated(buf)
    BY <1>1, <2>4, <2>7 DEF Cut
  <2> QED BY <1>1, <1>2, <2>8, KernelIs
<1> QED BY <1>5, <1>6

LEMMA ParseIs ==
  ASSUME BufSize \in Nat, BufSize >= 3, "0" \in Byte,
         NEW bytes \in Seq(Byte), Len(bytes) >= 2, NEW buf, buf = Buffer(bytes),
         NEW n, n = Lesser(Len(bytes), BufSize)
  PROVE  /\ \A e \in 3..n :
              /\ buf[e] \in {"n", "0"} /\ \A k \in 1..(e - 1) : buf[k] \notin {"n", "0"}
              => Parse(bytes) = Line(SubSeq(buf, 3, e - 1))
         /\ (\A k \in 1..n : buf[k] \notin {"n", "0"}) =>
              /\ n < BufSize => Parse(bytes) = Line(SubSeq(buf, 3, n))
              /\ n = BufSize => Parse(bytes) = IF Terminated(buf)
                                              THEN Line(SubSeq(buf, 3, BufSize - 1)) ELSE Fallback
<1> DEFINE v == Visible(bytes)
           hits == {k \in DOMAIN v : IsEnd(v[k])}
           end == IF hits = {} THEN 0 ELSE Smallest(hits)
<1>1. buf \in Seq(Byte) /\ Len(buf) = BufSize
  BY BufferIs
<1>2. /\ n \in 2..BufSize /\ n <= Len(bytes) /\ (n = Len(bytes) \/ n = BufSize)
      /\ v = SubSeq(buf, 1, n) /\ v \in Seq(Byte) /\ Len(v) = n
      /\ \A i \in 1..n : v[i] = buf[i]
  BY VisibleIs
<1>3. Parse(bytes) =
        CASE end > 0 -> Line(SubSeq(v, 3, end - 1))
          [] end = 0 /\ (Len(bytes) < BufSize \/ Terminated(v)) ->
                Line(SubSeq(v, 3, Lesser(Len(v), BufSize - 1)))
          [] OTHER -> Fallback
  BY DEF Parse, First
<1> HIDE DEF v
<1>4. \A e \in 2..n : SubSeq(v, 3, e) = SubSeq(buf, 3, e)
  <2> TAKE e \in 2..n
  <2>1. n \in 2..Len(buf)
    BY <1>1, <1>2
  <2>2. SubSeq(SubSeq(buf, 1, n), 3, e) = SubSeq(buf, 3, e)
    BY <1>1, <2>1, RawIs
  <2> QED BY <1>2, <2>2
<1>5. ASSUME NEW e \in 3..n, buf[e] \in {"n", "0"},
             \A k \in 1..(e - 1) : buf[k] \notin {"n", "0"}
      PROVE  Parse(bytes) = Line(SubSeq(buf, 3, e - 1))
  <2>1. e \in hits /\ hits \subseteq Nat /\ \A m \in hits : e <= m
    BY <1>2, <1>5 DEF IsEnd
  <2>2. end = e
    BY <2>1, SmallestIs
  <2>3. e > 0 /\ e # 0 /\ e - 1 \in 2..n
    BY <1>2
  <2> HIDE DEF end
  <2>4. Parse(bytes) = Line(SubSeq(v, 3, e - 1))
    BY <1>3, <2>2, <2>3
  <2> QED BY <1>4, <2>3, <2>4
<1>6. ASSUME \A k \in 1..n : buf[k] \notin {"n", "0"}
      PROVE  /\ n < BufSize => Parse(bytes) = Line(SubSeq(buf, 3, n))
             /\ n = BufSize => Parse(bytes) = IF Terminated(buf)
                                             THEN Line(SubSeq(buf, 3, BufSize - 1)) ELSE Fallback
  <2>1. hits = {}
    BY <1>2, <1>6 DEF IsEnd
  <2>2. end = 0 /\ ~ (end > 0)
    BY <2>1
  <2> HIDE DEF end
  <2>3. Parse(bytes) = IF Len(bytes) < BufSize \/ Terminated(v)
                       THEN Line(SubSeq(v, 3, Lesser(Len(v), BufSize - 1))) ELSE Fallback
    BY <1>3, <2>2
  <2>4. CASE n < BufSize
    <3>1. Len(bytes) < BufSize /\ Lesser(Len(v), BufSize - 1) = n /\ n \in 2..n
      BY <1>2, <2>4 DEF Lesser
    <3>2. Parse(bytes) = Line(SubSeq(v, 3, n))
      BY <2>3, <3>1
    <3>3. SubSeq(v, 3, n) = SubSeq(buf, 3, n)
      BY <1>4, <3>1
    <3>4. n # BufSize
      BY <1>2, <2>4
    <3> QED BY <3>2, <3>3, <3>4, <2>4
  <2>5. CASE n = BufSize
    <3>1. ~ (Len(bytes) < BufSize) /\ Lesser(Len(v), BufSize - 1) = BufSize - 1
      BY <1>2, <2>5 DEF Lesser
    <3>2. v = buf
      BY <1>1, <1>2, <2>5, SubSeqFull
    <3>3. SubSeq(v, 3, BufSize - 1) = SubSeq(buf, 3, BufSize - 1)
      BY <3>2
    <3> QED BY <2>3, <2>5, <3>1, <3>2, <3>3
  <2>6. n < BufSize \/ n = BufSize
    BY <1>2
  <2> QED BY <2>4, <2>5, <2>6
<1> QED BY <1>5, <1>6

(* For a script of any length and a buffer of any size, tino finds the     *)
(* interpreter and the argument that the kernel will use, and the shell    *)
(* where the kernel refuses the line (parse_shebang, parse_shebang_line).  *)
THEOREM ShebangLikeTheKernel ==
  ASSUME BufSize \in Nat, BufSize >= 3, "0" \in Byte,
         NEW bytes \in Seq(Byte), Len(bytes) >= 2, bytes[1] = "#", bytes[2] = "!"
  PROVE  SeesWhatTheKernelSees(bytes)
<1> DEFINE buf == Buffer(bytes)
           n == Lesser(Len(bytes), BufSize)
           ends == {k \in 1..BufSize : buf[k] \in {"n", "0"}}
<1>1. /\ buf \in Seq(Byte) /\ Len(buf) = BufSize
      /\ \A k \in 1..BufSize : buf[k] = IF k <= Len(bytes) THEN bytes[k] ELSE "0"
  BY BufferIs
<1>2. n \in 2..BufSize /\ n <= Len(bytes) /\ (n = Len(bytes) \/ n = BufSize)
  BY DEF Lesser
<1>3. buf[1] \notin {"n", "0"} /\ buf[2] \notin {"n", "0"}
  BY <1>1
<1> SUFFICES Agree(Kernel(bytes), Parse(bytes))
  BY DEF Agree, SeesWhatTheKernelSees
<1> HIDE DEF buf, n
<1>4. CASE ends # {}
  <2>1. PICK e \in ends : \A m \in ends : e <= m
    <3>1. ends \subseteq Nat
      OBVIOUS
    <3> QED BY <1>4, <3>1, Least
  <2>2. e \in 3..BufSize /\ buf[e] \in {"n", "0"} /\ \A k \in 1..(e - 1) : buf[k] \notin {"n", "0"}
    <3>1. e # 1 /\ e # 2
      BY <1>3, <2>1
    <3> QED BY <2>1, <3>1
  <2>3. Parse(bytes) = Line(SubSeq(buf, 3, e - 1))
    <3>1. CASE e <= n
      <4>1. e \in 3..n
        BY <1>2, <2>2, <3>1
      <4> QED BY <2>2, <4>1, ParseIs DEF buf, n
    <3>2. CASE e > n
      <4>1. n < BufSize /\ n = Len(bytes)
        BY <1>2, <2>2, <3>2
      <4>2. n + 1 \in ends
        BY <1>1, <1>2, <4>1
      <4>3. e = n + 1
        BY <1>2, <2>1, <2>2, <3>2, <4>2
      <4>4. n = e - 1 /\ \A k \in 1..n : buf[k] \notin {"n", "0"}
        BY <1>2, <2>2, <4>3
      <4> QED BY <4>1, <4>4, ParseIs DEF buf, n
    <3> QED BY <1>2, <2>2, <3>1, <3>2
  <2>4. \E limit \in Nat : Kernel(bytes) = Interpreted(buf, limit) /\ Ends(buf, e, limit)
    <3>1. CASE buf[e] = "n"
      BY <1>1, <2>2, <3>1, EndedByNewline DEF buf
    <3>2. CASE buf[e] = "0"
      BY <1>1, <2>2, <3>2, EndedByNul DEF buf
    <3> QED BY <2>2, <3>1, <3>2
  <2>5. e \in 3..Len(buf)
    BY <1>1, <2>2
  <2> QED BY <1>1, <2>3, <2>4, <2>5, LineAgrees
<1>5. CASE ends = {}
  <2>1. \A k \in 1..BufSize : buf[k] \notin {"n", "0"}
    BY <1>5
  <2>2. n = BufSize
    <3> SUFFICES ASSUME n # BufSize PROVE FALSE
      OBVIOUS
    <3>1. n + 1 \in 1..BufSize /\ ~ (n + 1 <= Len(bytes))
      BY <1>2
    <3> QED BY <1>1, <2>1, <3>1
  <2>3. Kernel(bytes) = IF Terminated(buf) THEN Interpreted(buf, BufSize) ELSE NoExec
    BY <1>1, <2>1, NotEnded DEF buf
  <2>4. Parse(bytes) = IF Terminated(buf) THEN Line(SubSeq(buf, 3, BufSize - 1)) ELSE Fallback
    <3>1. \A k \in 1..n : buf[k] \notin {"n", "0"}
      BY <2>1, <2>2
    <3>2. n = BufSize => Parse(bytes) = IF Terminated(buf)
                                       THEN Line(SubSeq(buf, 3, BufSize - 1)) ELSE Fallback
      BY <3>1, ParseIs DEF buf, n
    <3> QED BY <2>2, <3>2
  <2>5. CASE Terminated(buf)
    <3>1. /\ BufSize \in 3..Len(buf) /\ BufSize \in Nat /\ Ends(buf, BufSize, BufSize)
      BY <1>1, <2>1 DEF Ends
    <3>2. Agree(Interpreted(buf, BufSize), Line(SubSeq(buf, 3, BufSize - 1)))
      BY <1>1, <3>1, LineAgrees
    <3> QED BY <2>3, <2>4, <2>5, <3>2
  <2>6. CASE ~ Terminated(buf)
    BY <2>3, <2>4, <2>6 DEF Agree
  <2> QED BY <2>5, <2>6
<1> QED BY <1>4, <1>5

----------------------------------------------------------------------------
(* The loader of an ELF file.                                              *)

Classes == {"32", "64"}

(* What the ELF format, the kernel and tino fix.                           *)
Machine ==
    /\ Word \in Nat /\ TaskSize \in Nat /\ TaskSize <= Word
    /\ MaxTable \in Nat /\ KernelTable \in Nat /\ KernelTable <= MaxTable
    /\ MaxInterp \in Nat
    /\ \A c \in Classes : /\ HeaderLen(c) \in Nat /\ HeaderLen("32") <= HeaderLen(c)
                          /\ EntryLen(c) \in Nat \ {0}

HeaderOf ==
    [type : STRING, offset : Nat, filesz : Nat, vaddr : Nat, memsz : Nat,
     executable : BOOLEAN, bytes : Seq(Byte)]

(* A file whose table lies after its header, with the bytes of every       *)
(* segment that lies in it.                                                *)
ElfFile(f) ==
    /\ f.len \in Nat /\ f.entsize \in Nat /\ f.phoff \in Nat /\ f.entry \in Nat
    /\ f.magic \in BOOLEAN /\ f.little \in BOOLEAN /\ f.native \in BOOLEAN
    /\ f.headers \in Seq(HeaderOf)
    /\ f.class \in Classes /\ Elf!TableLen(f) > 0 /\ f.phoff + Elf!TableLen(f) <= f.len
          => HeaderLen(f.class) <= f.len
    /\ \A k \in DOMAIN f.headers :
          Elf!InFile(f.headers[k], f) => f.headers[k].filesz <= Len(f.headers[k].bytes)

(* The interpreter is the first of them.                                   *)
LEMMA FirstInterpIs ==
  ASSUME NEW f, ElfFile(f), Elf!Interps(f) # {}, NEW i, i = Elf!Smallest(Elf!Interps(f))
  PROVE  /\ i \in 1..Len(f.headers) /\ i \in Elf!Interps(f)
         /\ f.headers[i] \in HeaderOf
         /\ Elf!Named(f) = f.headers[i] /\ Elf!FirstInterp(f) = f.headers[i]
<1>1. Elf!Interps(f) \subseteq 1..Len(f.headers) /\ Len(f.headers) \in Nat
  BY DEF ElfFile, Elf!Interps
<1>2. \E k \in Elf!Interps(f) : \A m \in Elf!Interps(f) : k <= m
  <2>1. Elf!Interps(f) \subseteq Nat
    BY <1>1
  <2> QED BY <2>1, Least
<1>3. i \in Elf!Interps(f)
  BY <1>2 DEF Elf!Smallest
<1> QED BY <1>1, <1>3 DEF Elf!Named, Elf!FirstInterp, ElfFile

(* The bytes of a segment in the file.                                     *)
LEMMA ReadIs ==
  ASSUME NEW h \in HeaderOf, h.filesz <= Len(h.bytes)
  PROVE  /\ Elf!Read(h) \in Seq(Byte) /\ Len(Elf!Read(h)) = h.filesz
         /\ DOMAIN Elf!Read(h) = 1..h.filesz
         /\ h.filesz \in Nat
<1>1. h.filesz \in Nat /\ h.bytes \in Seq(Byte)
  BY DEF HeaderOf
<1>2. \A k \in 1..h.filesz : h.bytes[k] \in Byte
  BY <1>1
<1> QED BY <1>1, <1>2, SubSeqProperties DEF Elf!Read

(* A string of one byte is no name.                                        *)
LEMMA OneByteNamesNothing ==
  ASSUME NEW h \in HeaderOf, h.filesz <= Len(h.bytes), h.filesz = 1, Elf!Nuls(Elf!Read(h)) # {}
  PROVE  Elf!UpToNul(Elf!Read(h)) = <<>>
<1>1. DOMAIN Elf!Read(h) = 1..1
  BY ReadIs
<1>2. Elf!Nuls(Elf!Read(h)) = {1}
  BY <1>1 DEF Elf!Nuls
<1>3. Elf!Smallest({1}) = 1
  BY DEF Elf!Smallest
<1>4. Elf!UpToNul(Elf!Read(h)) = SubSeq(Elf!Read(h), 1, 0)
  BY <1>2, <1>3 DEF Elf!UpToNul
<1>5. \A s : SubSeq(s, 1, 0) = <<>>
  BY SubSeqEmpty
<1> QED BY <1>4, <1>5

(* The table up to a header is not longer than the table.                  *)
LEMMA PartOfTable ==
  ASSUME NEW e \in Nat, NEW a \in Nat, NEW b \in Nat, a <= b
  PROVE  e * a \in Nat /\ e * b \in Nat /\ e * a <= e * b
  OBVIOUS

(* For every file with a conventional interpreter string and table: what   *)
(* tino grants is the loader the kernel will map, a file the kernel        *)
(* refuses gets the shell, and the parser in memory agrees with the one on *)
(* the file (read_elf_interpreter_from_file, parse_elf_interpreter).       *)
THEOREM LoaderLikeTheKernel ==
  ASSUME Machine, NEW f, ElfFile(f)
  PROVE  Elf!NamesTheLoader(f)
<1> DEFINE some == Elf!Interps(f) # {}
           h == Elf!FirstInterp(f)
           bytes == Elf!Read(h)
           path == Elf!UpToNul(bytes)
<1>1. /\ f.len \in Nat /\ f.entsize \in Nat /\ f.phoff \in Nat /\ f.entry \in Nat
      /\ Len(f.headers) \in Nat /\ DOMAIN f.headers = 1..Len(f.headers)
      /\ \A k \in DOMAIN f.headers : f.headers[k] \in HeaderOf
      /\ Elf!TableLen(f) \in Nat
  BY PartOfTable DEF ElfFile, Elf!TableLen
<1>2. Elf!Interps(f) \subseteq DOMAIN f.headers /\ Elf!Loads(f) \subseteq DOMAIN f.headers
  BY DEF Elf!Interps, Elf!Loads
<1>3. some => /\ h \in HeaderOf /\ Elf!Named(f) = h
              /\ h.filesz \in Nat
              /\ Elf!InFile(h, f) => h.filesz <= Len(h.bytes) /\ DOMAIN bytes = 1..h.filesz
              /\ Elf!Smallest(Elf!Interps(f)) \in 1..Len(f.headers)
  <2>1. some => /\ h \in HeaderOf /\ Elf!Named(f) = h
                /\ Elf!Smallest(Elf!Interps(f)) \in 1..Len(f.headers)
                /\ h = f.headers[Elf!Smallest(Elf!Interps(f))]
    BY FirstInterpIs
  <2>2. some /\ Elf!InFile(h, f) => h.filesz <= Len(h.bytes)
    BY <2>1, <1>1 DEF ElfFile
  <2> QED BY <2>1, <2>2, ReadIs DEF HeaderOf
<1>4. some /\ Elf!InFile(h, f) /\ h.filesz = 1 /\ Elf!Nuls(bytes) # {} => path = <<>>
  BY <1>3, OneByteNamesNothing
<1>5. some /\ Elf!InFile(h, f) /\ h.filesz >= 1 /\ bytes[h.filesz] = "0" => Elf!Nuls(bytes) # {}
  BY <1>3 DEF Elf!Nuls
<1>6. Elf!TableLen(f) = 0 /\ f.class \in Classes /\ f.entsize = EntryLen(f.class)
        => Elf!Loads(f) = {}
  <2>1. ASSUME f.entsize * Len(f.headers) = 0, f.class \in Classes, f.entsize = EntryLen(f.class)
        PROVE  Len(f.headers) = 0
    <3>1. f.entsize \in Nat /\ f.entsize >= 1
      BY <2>1 DEF Machine
    <3> HIDE <2>1
    <3>2. \A e \in Nat, l \in Nat : e >= 1 /\ l >= 1 => e * l >= 1
      OBVIOUS
    <3> QED BY <1>1, <2>1, <3>1, <3>2
  <2> QED BY <1>1, <1>2, <2>1 DEF Elf!TableLen
<1>7. ASSUME Elf!Conventional(f)
      PROVE  some /\ Elf!InFile(h, f) /\ Elf!Nuls(bytes) # {} => bytes[h.filesz] = "0"
  BY <1>3, <1>7 DEF Elf!Conventional
<1> DEFINE unreadable == \/ ~f.magic \/ ~f.little \/ ~f.native \/ f.type \notin {"EXEC", "DYN"}
                         \/ f.class \notin {"32", "64"} \/ f.entsize # EntryLen(f.class)
                         \/ Elf!TableLen(f) \notin 1..KernelTable
                         \/ f.phoff + Elf!TableLen(f) > f.len
           Fits(k) == /\ f.headers[k].filesz <= f.headers[k].memsz
                      /\ f.headers[k].memsz <= TaskSize
                      /\ f.headers[k].vaddr + f.headers[k].memsz <= TaskSize
           entered == \E k \in Elf!Loads(f) : Elf!HoldsEntry(f.headers[k], f.entry)
<1>kernel. Elf!Kernel(f) =
        IF unreadable THEN Elf!Refused
        ELSE IF some /\ h.filesz \notin 2..MaxInterp THEN Elf!Refused
        ELSE IF some /\ ~Elf!InFile(h, f) THEN Elf!FailedLoad
        ELSE IF some /\ bytes[h.filesz] # "0" THEN Elf!Refused
        ELSE IF Elf!Loads(f) = {} \/ \E k \in Elf!Loads(f) : ~Fits(k) THEN Elf!FailedLoad
        ELSE IF some THEN Elf!Interpreter(path)
        ELSE IF entered THEN Elf!NoInterpreter ELSE Elf!FailedLoad
  BY DEF Elf!Kernel
<1>parsed. ASSUME some, Elf!Named(f) = h, Elf!InFile(h, f), Elf!Nuls(bytes) # {}, path # <<>>,
             f.magic, f.class \in {"32", "64"}, ~ (f.len < HeaderLen("32")),
             ~ (f.entsize < EntryLen(f.class)),
             ~ (f.phoff + f.entsize * Elf!Smallest(Elf!Interps(f)) > f.len)
      PROVE  Elf!Parsed(f) = Elf!Interpreter(path)
  BY <1>parsed DEF Elf!Parsed
<1> HIDE DEF h, bytes, path, some, entered
<1>8. ASSUME Elf!HeaderIsRunnable(f), Elf!TableIsReadable(f), Elf!Loads(f) # {}
      PROVE  /\ f.magic /\ f.little /\ f.native /\ f.type \in {"EXEC", "DYN"}
             /\ f.class \in Classes /\ f.entsize = EntryLen(f.class)
             /\ f.phoff + Elf!TableLen(f) <= f.len /\ Elf!TableLen(f) > 0
  BY <1>1, <1>6, <1>8 DEF Elf!HeaderIsRunnable, Elf!TableIsReadable, Classes
<1>9. Elf!Probe(f) # Elf!Invalid =>
        /\ Elf!HeaderIsRunnable(f) /\ Elf!TableIsReadable(f) /\ Elf!Loads(f) # {}
        /\ \A k \in Elf!Loads(f) : Elf!LoadIsValid(f.headers[k])
        /\ some => Elf!InterpIsValid(h, f) /\ Elf!Probe(f) = Elf!Interpreter(path)
        /\ ~ some => /\ \E k \in Elf!Loads(f) : Elf!HoldsEntry(f.headers[k], f.entry)
                     /\ Elf!Probe(f) = Elf!NoInterpreter
  BY <1>3 DEF Elf!Probe, path, bytes, some
<1>10. ASSUME Elf!Kernel(f).kind \in {"interpreter", "none"}
       PROVE  /\ f.magic /\ f.little /\ f.native /\ f.type \in {"EXEC", "DYN"}
              /\ f.class \in Classes /\ f.entsize = EntryLen(f.class)
              /\ Elf!TableLen(f) \in 1..KernelTable /\ f.phoff + Elf!TableLen(f) <= f.len
              /\ Elf!Loads(f) # {}
              /\ \A k \in Elf!Loads(f) :
                    /\ f.headers[k].filesz <= f.headers[k].memsz
                    /\ f.headers[k].vaddr + f.headers[k].memsz <= TaskSize
              /\ some => /\ h.filesz \in 2..MaxInterp /\ Elf!InFile(h, f)
                         /\ bytes[h.filesz] = "0"
                         /\ Elf!Kernel(f) = Elf!Interpreter(path)
              /\ ~ some => /\ \E k \in Elf!Loads(f) : Elf!HoldsEntry(f.headers[k], f.entry)
                           /\ Elf!Kernel(f) = Elf!NoInterpreter
  <2>1. /\ Elf!Kernel(f) # Elf!Refused /\ Elf!Kernel(f) # Elf!FailedLoad
    BY <1>10 DEF Elf!Refused, Elf!FailedLoad
  <2>2. ~ unreadable =>
          /\ f.magic /\ f.little /\ f.native /\ f.type \in {"EXEC", "DYN"}
          /\ f.class \in Classes /\ f.entsize = EntryLen(f.class)
          /\ Elf!TableLen(f) \in 1..KernelTable /\ f.phoff + Elf!TableLen(f) <= f.len
    BY <1>1 DEF Classes
  <2>3. \A k : Fits(k) => /\ f.headers[k].filesz <= f.headers[k].memsz
                          /\ f.headers[k].vaddr + f.headers[k].memsz <= TaskSize
    OBVIOUS
  <2> HIDE DEF unreadable, Fits
  <2>4. ~ unreadable
    BY <1>kernel, <2>1
  <2>5. /\ Elf!Loads(f) # {} /\ \A k \in Elf!Loads(f) : Fits(k)
        /\ some => /\ h.filesz \in 2..MaxInterp /\ Elf!InFile(h, f) /\ bytes[h.filesz] = "0"
                   /\ Elf!Kernel(f) = Elf!Interpreter(path)
        /\ ~ some => entered /\ Elf!Kernel(f) = Elf!NoInterpreter
    BY <1>kernel, <2>1, <2>4
  <2> QED BY <2>2, <2>3, <2>4, <2>5 DEF entered
<1>11. ASSUME Elf!Kernel(f).kind \in {"interpreter", "none"}
       PROVE  /\ Elf!HeaderIsRunnable(f) /\ Elf!TableIsReadable(f) /\ Elf!Loads(f) # {}
              /\ \A k \in Elf!Loads(f) : Elf!LoadIsValid(f.headers[k])
  <2>1. Elf!HeaderIsRunnable(f)
    BY <1>10, <1>11 DEF Elf!HeaderIsRunnable, ElfFile, Classes
  <2>2. Elf!TableIsReadable(f)
    BY <1>1, <1>10, <1>11 DEF Elf!TableIsReadable, Machine
  <2>3. \A k \in Elf!Loads(f) : Elf!LoadIsValid(f.headers[k])
    <3> TAKE k \in Elf!Loads(f)
    <3>1. f.headers[k].vaddr \in Nat /\ f.headers[k].memsz \in Nat
      BY <1>1, <1>2 DEF HeaderOf
    <3> QED BY <1>10, <1>11, <3>1 DEF Elf!LoadIsValid, Machine
  <2> QED BY <1>10, <1>11, <2>1, <2>2, <2>3
<1>12. ASSUME Elf!Conventional(f), Elf!Kernel(f) = Elf!Refused
       PROVE  Elf!Probe(f) = Elf!Invalid
  <2> SUFFICES ASSUME Elf!Probe(f) # Elf!Invalid PROVE FALSE
    OBVIOUS
  <2>1. Elf!TableLen(f) \in 1..KernelTable
    BY <1>1, <1>8, <1>9, <1>12 DEF Elf!Conventional, Machine
  <2>2. some /\ \/ h.filesz \notin 2..MaxInterp
                \/ Elf!InFile(h, f) /\ bytes[h.filesz] # "0"
    <3>1. ~ unreadable
      BY <1>1, <1>8, <1>9, <2>1 DEF Classes
    <3>2. /\ Elf!Refused # Elf!FailedLoad /\ Elf!Refused # Elf!NoInterpreter
          /\ Elf!Refused # Elf!Interpreter(path)
      BY DEF Elf!Refused, Elf!FailedLoad, Elf!NoInterpreter, Elf!Interpreter
    <3> HIDE DEF unreadable, Fits
    <3> QED BY <1>kernel, <1>12, <3>1, <3>2
  <2>3. /\ h.filesz \in 1..MaxInterp /\ Elf!InFile(h, f)
        /\ Elf!Nuls(bytes) # {} /\ path # <<>>
    BY <1>9, <2>2 DEF Elf!InterpIsValid, bytes, path
  <2>4. h.filesz # 1
    BY <1>4, <2>2, <2>3
  <2>5. h.filesz \in 2..MaxInterp
    BY <2>3, <2>4
  <2> QED BY <1>7, <1>12, <2>2, <2>3, <2>5
<1>13. ASSUME Elf!Kernel(f).kind = "interpreter", Elf!Kernel(f).path # <<>>
       PROVE  Elf!Probe(f) = Elf!Kernel(f)
  <2>1. some /\ Elf!Kernel(f) = Elf!Interpreter(path)
    BY <1>10, <1>13 DEF Elf!NoInterpreter
  <2>2. path # <<>>
    BY <1>13, <2>1 DEF Elf!Interpreter
  <2>3. /\ h.filesz \in 1..MaxInterp /\ h.filesz >= 1 /\ Elf!InFile(h, f)
        /\ bytes[h.filesz] = "0"
    BY <1>3, <1>10, <1>13, <2>1
  <2>4. Elf!InterpIsValid(h, f)
    BY <1>5, <2>1, <2>2, <2>3 DEF Elf!InterpIsValid, bytes, path
  <2>5. Elf!Named(f) = h
    BY <1>3, <2>1
  <2> QED BY <1>11, <1>13, <2>1, <2>4, <2>5 DEF Elf!Probe, path, bytes, some
<1>14. ASSUME Elf!Kernel(f) = Elf!NoInterpreter
       PROVE  Elf!Probe(f) = Elf!NoInterpreter
  <2>1. Elf!Kernel(f).kind \in {"interpreter", "none"} /\ ~ some
    BY <1>10, <1>14 DEF Elf!NoInterpreter, Elf!Interpreter
  <2> QED BY <1>10, <1>11, <2>1 DEF Elf!Probe, some
<1>15. ASSUME Elf!Probe(f).kind = "interpreter"
       PROVE  Elf!Parsed(f) = Elf!Probe(f)
  <2>1. Elf!Probe(f) # Elf!Invalid /\ Elf!Probe(f) # Elf!NoInterpreter
    BY <1>15 DEF Elf!Invalid, Elf!NoInterpreter
  <2>2. some /\ Elf!Probe(f) = Elf!Interpreter(path) /\ Elf!Named(f) = h
    BY <1>3, <1>9, <2>1
  <2>3. Elf!InFile(h, f) /\ Elf!Nuls(bytes) # {} /\ path # <<>>
    BY <1>9, <2>1, <2>2 DEF Elf!InterpIsValid, bytes, path
  <2>4. f.magic /\ f.class \in Classes /\ f.len >= HeaderLen("32")
    BY <1>1, <1>8, <1>9, <2>1 DEF Elf!HeaderIsRunnable, Machine, Classes
  <2>5. ~ (f.entsize < EntryLen(f.class))
    BY <1>1, <1>8, <1>9, <2>1
  <2>6. ~ (f.phoff + f.entsize * Elf!Smallest(Elf!Interps(f)) > f.len)
    <3> DEFINE i == Elf!Smallest(Elf!Interps(f))
    <3>1. i \in Nat /\ i <= Len(f.headers)
      BY <1>1, <1>3, <2>2
    <3> HIDE DEF i
    <3>2. f.entsize * i \in Nat /\ f.entsize * i <= Elf!TableLen(f)
      BY <1>1, <3>1, PartOfTable DEF Elf!TableLen
    <3>3. f.phoff + Elf!TableLen(f) <= f.len
      BY <1>8, <1>9, <2>1
    <3>4. ~ (f.phoff + f.entsize * i > f.len)
      BY <1>1, <3>2, <3>3
    <3> QED BY <3>4 DEF i
  <2>7. Elf!Parsed(f) = Elf!Interpreter(path)
    BY <1>1, <1>parsed, <2>2, <2>3, <2>4, <2>5, <2>6 DEF Classes, Machine
  <2> QED BY <2>2, <2>7
<1> QED BY <1>12, <1>13, <1>14, <1>15 DEF Elf!NamesTheLoader

----------------------------------------------------------------------------
(* The command line, the configuration file and the environment.          *)

(* What holds of 0 and of the next of each holds up to n; and a function   *)
(* that is given by what it makes of its previous value exists.            *)
LEMMA Induction ==
  ASSUME NEW n \in Nat, NEW S, 0 \in S, \A k \in 1..n : k - 1 \in S => k \in S
  PROVE  \A k \in 0..n : k \in S
<1> DEFINE T == {k \in 0..n : k \notin S}
<1> SUFFICES ASSUME T # {} PROVE FALSE
  OBVIOUS
<1>1. T \subseteq Nat
  OBVIOUS
<1>2. PICK k \in T : \A m \in T : k <= m
  <2> HIDE DEF T
  <2> QED BY <1>1, Least
<1>3. k \in 1..n /\ k - 1 \in 0..n
  OBVIOUS
<1>4. k - 1 \notin T
  BY <1>2, <1>3
<1> QED BY <1>3, <1>4

Iterable(n, R, b, g) ==
    \E f \in [0..n -> R] : f[0] = b /\ \A k \in 1..n : f[k] = g[k][f[k - 1]]

LEMMA Iterates ==
  ASSUME NEW n \in Nat, NEW R, NEW b \in R, NEW g \in [1..n -> [R -> R]]
  PROVE  Iterable(n, R, b, g)
<1> DEFINE Good(m, f) == f[0] = b /\ \A k \in 1..m : f[k] = g[k][f[k - 1]]
           S == {m \in 0..n : \E f \in [0..m -> R] : Good(m, f)}
<1>1. 0 \in S
  <2>1. [k \in 0..0 |-> b] \in [0..0 -> R] /\ Good(0, [k \in 0..0 |-> b])
    OBVIOUS
  <2>2. \E f \in [0..0 -> R] : Good(0, f)
    <3> HIDE DEF Good
    <3> QED BY <2>1
  <2> HIDE DEF Good
  <2> QED BY <2>2
<1>2. ASSUME NEW k \in 1..n, k - 1 \in S
      PROVE  k \in S
  <2>1. PICK f \in [0..(k - 1) -> R] : Good(k - 1, f)
    BY <1>2
  <2> DEFINE h == [m \in 0..k |-> IF m = k THEN g[k][f[k - 1]] ELSE f[m]]
  <2>2. f[k - 1] \in R /\ g[k][f[k - 1]] \in R
    OBVIOUS
  <2>3. h \in [0..k -> R]
    BY <2>2
  <2>4. h[0] = b
    BY <2>1
  <2>5. ASSUME NEW m \in 1..k
        PROVE  h[m] = g[m][h[m - 1]]
    <3>1. h[m - 1] = f[m - 1]
      OBVIOUS
    <3>2. CASE m = k
      BY <3>1, <3>2
    <3>3. CASE m # k
      <4>1. m \in 1..(k - 1) /\ h[m] = f[m]
        BY <3>3
      <4> QED BY <2>1, <3>1, <4>1
    <3> QED BY <3>2, <3>3
  <2>6. Good(k, h)
    BY <2>4, <2>5
  <2>7. \E f2 \in [0..k -> R] : Good(k, f2)
    <3> HIDE DEF Good, h
    <3> QED BY <2>3, <2>6
  <2> HIDE DEF Good
  <2> QED BY <2>7
<1>3. \A k \in 0..n : k \in S
  <2> HIDE DEF S
  <2> QED BY <1>1, <1>2, Induction
<1> QED BY <1>3 DEF Iterable

(* Sequences of one or two members, and one more.                          *)
LEMMA One ==
  ASSUME NEW S, NEW x \in S
  PROVE  <<x>> \in Seq(S) /\ Len(<<x>>) = 1 /\ <<x>>[1] = x
<1>1. <<x>> \in [1..1 -> S]
  OBVIOUS
<1>2. <<x>> \in Seq(S)
  BY <1>1, SeqDef
<1> QED BY <1>2

(* Settings and arguments.  The provers do not know of a literal that it is*)
(* in STRING.                                                              *)
Token == STRING \cup {"sp", "nl", "500", "no value"} \cup FlagKeys \cup ListKeys
         \cup {"pdeath", "verbosity", "grace-ms"}

SettingsType ==
    [flags : SUBSET FlagKeys, modes : SUBSET ModeFlags, pdeath : Seq(Token),
     verbosity : 0..255, grace : Seq(Token), lists : [ListKeys -> Seq(Seq(Token))],
     command : BOOLEAN]
Results == [kind : {"ok", "error"}, settings : SettingsType]

(* A change of one field.                                                  *)
LEMMA Typed ==
  ASSUME NEW s \in SettingsType
  PROVE  /\ s.flags \in SUBSET FlagKeys /\ s.modes \in SUBSET ModeFlags
         /\ s.pdeath \in Seq(Token) /\ s.verbosity \in 0..255 /\ s.grace \in Seq(Token)
         /\ s.lists \in [ListKeys -> Seq(Seq(Token))] /\ s.command \in BOOLEAN
  BY DEF SettingsType

LEMMA Flags ==
  ASSUME NEW s \in SettingsType, NEW x \in SUBSET FlagKeys
  PROVE  [s EXCEPT !.flags = x] \in SettingsType
  BY DEF SettingsType

LEMMA Modes ==
  ASSUME NEW s \in SettingsType, NEW x \in SUBSET ModeFlags
  PROVE  [s EXCEPT !.modes = x] \in SettingsType
  BY DEF SettingsType

LEMMA Commanded ==
  ASSUME NEW s \in SettingsType, NEW x \in BOOLEAN
  PROVE  [s EXCEPT !.command = x] \in SettingsType
  BY DEF SettingsType

LEMMA Values ==
  ASSUME NEW s \in SettingsType, NEW x \in Seq(Token)
  PROVE  [s EXCEPT !.pdeath = x] \in SettingsType /\ [s EXCEPT !.grace = x] \in SettingsType
<1>1. [s EXCEPT !.pdeath = x] \in SettingsType
  BY DEF SettingsType
<1>2. [s EXCEPT !.grace = x] \in SettingsType
  BY DEF SettingsType
<1> QED BY <1>1, <1>2

LEMMA Verbosity ==
  ASSUME NEW s \in SettingsType, NEW x \in 0..255
  PROVE  [s EXCEPT !.verbosity = x] \in SettingsType
  BY DEF SettingsType

Added(s, key, v) == [s EXCEPT !.lists = [s.lists EXCEPT ![key] = Append(s.lists[key], v)]]

LEMMA Lists ==
  ASSUME NEW s \in SettingsType, NEW key \in ListKeys, NEW v \in Seq(Token)
  PROVE  Added(s, key, v) \in SettingsType
<1>1. s.lists \in [ListKeys -> Seq(Seq(Token))]
  BY DEF SettingsType
<1>2. Append(s.lists[key], v) \in Seq(Seq(Token))
  BY <1>1, AppendProperties
<1> DEFINE x == [s.lists EXCEPT ![key] = Append(s.lists[key], v)]
<1>3. x \in [ListKeys -> Seq(Seq(Token))]
  BY <1>1, <1>2
<1> HIDE DEF x
<1>4. [s EXCEPT !.lists = x] \in SettingsType
  BY <1>3 DEF SettingsType
<1> QED BY <1>4 DEF x, Added

LEMMA DefaultsTyped == Defaults \in SettingsType /\ Error \in Results
<1>1. NoValue \in Seq(Token) /\ <<"500">> \in Seq(Token)
  <2>1. \A x \in Token : <<x>> \in Seq(Token)
    BY One
  <2>2. "no value" \in Token /\ "500" \in Token
    BY DEF Token
  <2>3. <<"no value">> \in Seq(Token)
    BY <2>1, <2>2
  <2>4. <<"500">> \in Seq(Token)
    BY <2>1, <2>2
  <2> QED BY <2>3, <2>4 DEF NoValue
<1>2. [key \in ListKeys |-> <<>>] \in [ListKeys -> Seq(Seq(Token))]
  BY EmptySeq
<1>3. Defaults \in SettingsType
  BY <1>1, <1>2 DEF Defaults, SettingsType
<1>4. Error \in Results
  BY <1>3 DEF Error, Results
<1> QED BY <1>3, <1>4

LEMMA FineTyped ==
  ASSUME NEW s \in SettingsType
  PROVE  Fine(s) \in Results /\ Fine(s).kind = "ok" /\ Fine(s).settings = s
  BY DEF Fine, Results

LEMMA ResultIs ==
  ASSUME NEW r \in Results
  PROVE  r.settings \in SettingsType /\ r.kind \in {"ok", "error"}
  BY DEF Results

LEMMA Signal ==
  ASSUME NEW v \in Seq(Token), Accepted("pdeath", v)
  PROVE  /\ <<SignalNames[v[1]]>> \in Seq(Token) /\ <<SignalNames[v[1]]>> # NoValue
         /\ Len(v) = 1 /\ v[1] \in DOMAIN SignalNames /\ SignalNames[v[1]] \in DOMAIN SignalNames
         /\ SignalNames[SignalNames[v[1]]] = SignalNames[v[1]]
<1>1. Len(v) = 1 /\ v[1] \in DOMAIN SignalNames
  BY DEF Accepted, PortKeys
<1>2. /\ SignalNames[v[1]] \in STRING \ Separators /\ SignalNames[v[1]] \in DOMAIN SignalNames
      /\ SignalNames[SignalNames[v[1]]] = SignalNames[v[1]]
  BY <1>1, SettingsAssumption
<1>3. SignalNames[v[1]] # "no value"
  BY <1>2 DEF Separators
<1>4. <<SignalNames[v[1]]>> # NoValue
  BY <1>3 DEF NoValue
<1>5. <<SignalNames[v[1]]>> \in Seq(Token)
  <2> DEFINE w == SignalNames[v[1]]
  <2>1. w \in Token
    BY <1>2 DEF Token
  <2> HIDE DEF w
  <2>2. <<w>> \in Seq(Token)
    BY <2>1, One
  <2> QED BY <2>2 DEF w
<1> QED BY <1>1, <1>2, <1>4, <1>5

(* What a flag does, and what a value does.                                *)
LEMMA PutFlag ==
  ASSUME NEW s \in SettingsType, NEW key \in FlagKeys, NEW v
  PROVE  /\ Put(s, key, v) = [s EXCEPT !.flags = s.flags \cup {key}]
         /\ Put(s, key, v) \in SettingsType
<1>1. key \notin ListKeys /\ key # "grace-ms" /\ key # "pdeath" /\ key \notin ModeFlags
  BY DEF ModeFlags, FlagKeys, ListKeys, PathKeys, PortKeys
<1>2. Put(s, key, v) = [s EXCEPT !.flags = s.flags \cup {key}]
  BY <1>1 DEF Put
<1>3. s.flags \cup {key} \in SUBSET FlagKeys
  BY Typed
<1> QED BY <1>2, <1>3, Flags

LEMMA PutMode ==
  ASSUME NEW s \in SettingsType, NEW key \in ModeFlags, NEW v
  PROVE  /\ Put(s, key, v) = [s EXCEPT !.modes = s.modes \cup {key}]
         /\ Put(s, key, v) \in SettingsType
<1>1. key \notin ListKeys /\ key # "grace-ms" /\ key # "pdeath" /\ key \notin FlagKeys
  BY DEF ModeFlags, FlagKeys, ListKeys, PathKeys, PortKeys
<1>2. Put(s, key, v) = [s EXCEPT !.modes = s.modes \cup {key}]
  BY <1>1 DEF Put
<1>3. s.modes \cup {key} \in SUBSET ModeFlags
  BY Typed
<1> QED BY <1>2, <1>3, Modes

LEMMA PutItem ==
  ASSUME NEW s \in SettingsType, NEW key \in ListKeys, NEW v \in Seq(Token)
  PROVE  /\ Put(s, key, v) = Added(s, key, v)
         /\ Put(s, key, v) \in SettingsType
<1>1. key \notin FlagKeys \cup ModeFlags \cup {"grace-ms", "pdeath"}
  BY DEF ModeFlags, FlagKeys, ListKeys, PathKeys, PortKeys
<1>2. Put(s, key, v) = [s EXCEPT !.lists[key] = Append(s.lists[key], v)]
  BY <1>1 DEF Put
<1>3. Put(s, key, v) = Added(s, key, v)
  BY <1>2 DEF SettingsType, Added
<1> QED BY <1>3, Lists

LEMMA PutOne ==
  ASSUME NEW s \in SettingsType, NEW v \in Seq(Token)
  PROVE  /\ Put(s, "grace-ms", v) = [s EXCEPT !.grace = v]
         /\ Put(s, "grace-ms", v) \in SettingsType
         /\ Put(s, "pdeath", v) = [s EXCEPT !.pdeath = <<SignalNames[v[1]]>>]
         /\ Accepted("pdeath", v) => Put(s, "pdeath", v) \in SettingsType
<1>1. /\ "grace-ms" \notin ListKeys \cup FlagKeys \cup ModeFlags
      /\ "pdeath" \notin ListKeys \cup FlagKeys \cup ModeFlags
  BY DEF ModeFlags, FlagKeys, ListKeys, PathKeys, PortKeys
<1>2. /\ Put(s, "grace-ms", v) = [s EXCEPT !.grace = v]
      /\ Put(s, "pdeath", v) = [s EXCEPT !.pdeath = <<SignalNames[v[1]]>>]
  BY <1>1 DEF Put
<1>3. Put(s, "grace-ms", v) \in SettingsType
  BY <1>2, Values
<1>4. ASSUME Accepted("pdeath", v)
      PROVE  Put(s, "pdeath", v) \in SettingsType
  <2>1. <<SignalNames[v[1]]>> \in Seq(Token)
    BY <1>4, Signal
  <2> QED BY <1>2, <2>1, Values
<1> QED BY <1>2, <1>3, <1>4

(* The kinds of argument.                                                  *)
LEMMA ArgumentKinds ==
  ASSUME NEW a \in Argument
  PROVE  /\ \/ a.name = "CMD" \/ a.name = "verbose" \/ a.name \in FlagKeys \/ a.name \in ModeFlags
            \/ a.name \in ListKeys \/ a.name = "grace-ms" \/ a.name = "pdeath"
         /\ a.value \in Seq(Token) /\ a.attached \in BOOLEAN
         /\ a.name \in FlagKeys \cup ModeFlags \cup {"CMD", "verbose"} => a.value = NoValue
<1>1. \/ a.name = "CMD" \/ a.name = "verbose" \/ a.name \in FlagKeys \/ a.name \in ModeFlags
      \/ a.name \in ListKeys \/ a.name = "grace-ms" \/ a.name = "pdeath"
  BY DEF Argument, ValueOptions
<1>2. a.value \in Seq(Token) /\ a.attached \in BOOLEAN
  <2>1. a.value \in Seq(STRING) \cup {NoValue} /\ a.attached \in BOOLEAN
    BY DEF Argument
  <2>2. STRING \subseteq Token
    BY DEF Token
  <2>3. a.value \in Seq(STRING) => a.value \in Seq(Token)
    BY <2>2, SeqMonotonic
  <2>4. NoValue \in Seq(Token)
    BY DefaultsTyped DEF Defaults, SettingsType
  <2> QED BY <2>1, <2>3, <2>4
<1>3. a.name \in FlagKeys \cup ModeFlags \cup {"CMD", "verbose"} => a.name \notin ValueOptions
  BY DEF FlagKeys, ModeFlags, ValueOptions, ListKeys, PathKeys, PortKeys
<1>4. a.name \notin ValueOptions => a.value = NoValue
  BY DEF Argument
<1> QED BY <1>1, <1>2, <1>3, <1>4

(* What an argument that is accepted makes of the settings.                *)
Effect(s, a, t) ==
    \/ a.name = "CMD" /\ t = [s EXCEPT !.command = TRUE]
    \/ /\ a.name = "verbose" /\ ~a.attached
       /\ t = [s EXCEPT !.verbosity = Saturated(s.verbosity)]
    \/ /\ a.name \in FlagKeys /\ ~a.attached
       /\ t = [s EXCEPT !.flags = s.flags \cup {a.name}]
    \/ /\ a.name \in ModeFlags /\ ~a.attached
       /\ t = [s EXCEPT !.modes = s.modes \cup {a.name}]
    \/ a.name \in ListKeys /\ t = Added(s, a.name, a.value)
    \/ a.name = "grace-ms" /\ t = [s EXCEPT !.grace = a.value]
    \/ a.name = "pdeath" /\ t = [s EXCEPT !.pdeath = <<SignalNames[a.value[1]]>>]

Refused(s, a) ==
    /\ a.name # "CMD"
    /\ a.name \in FlagKeys \cup ModeFlags \cup {"verbose"} => a.attached
    /\ a.name \in ValueOptions => a.value = NoValue \/ ~Accepted(a.name, a.value)

LEMMA EffectTyped ==
  ASSUME NEW s \in SettingsType, NEW a \in Argument, ~Refused(s, a), NEW t, Effect(s, a, t)
  PROVE  t \in SettingsType
<1>1. a.value \in Seq(Token)
  BY ArgumentKinds
<1>2. s.flags \in SUBSET FlagKeys /\ s.modes \in SUBSET ModeFlags /\ s.verbosity \in 0..255
  BY Typed
<1>3. Saturated(s.verbosity) \in 0..255
  BY <1>2 DEF Saturated
<1>4. CASE a.name = "CMD" /\ t = [s EXCEPT !.command = TRUE]
  BY <1>4, Commanded
<1>5. CASE a.name = "verbose" /\ t = [s EXCEPT !.verbosity = Saturated(s.verbosity)]
  BY <1>3, <1>5, Verbosity
<1>6. CASE a.name \in FlagKeys /\ t = [s EXCEPT !.flags = s.flags \cup {a.name}]
  <2>1. s.flags \cup {a.name} \in SUBSET FlagKeys
    BY <1>2, <1>6
  <2> QED BY <1>6, <2>1, Flags
<1>7. CASE a.name \in ModeFlags /\ t = [s EXCEPT !.modes = s.modes \cup {a.name}]
  <2>1. s.modes \cup {a.name} \in SUBSET ModeFlags
    BY <1>2, <1>7
  <2> QED BY <1>7, <2>1, Modes
<1>8. CASE a.name \in ListKeys /\ t = Added(s, a.name, a.value)
  BY <1>1, <1>8, Lists
<1>9. CASE a.name = "grace-ms" /\ t = [s EXCEPT !.grace = a.value]
  BY <1>1, <1>9, Values
<1>10. CASE a.name = "pdeath" /\ t = [s EXCEPT !.pdeath = <<SignalNames[a.value[1]]>>]
  <2>1. Accepted("pdeath", a.value)
    BY <1>10 DEF Refused, FlagKeys, ModeFlags, ValueOptions
  <2>2. <<SignalNames[a.value[1]]>> \in Seq(Token)
    BY <1>1, <2>1, Signal
  <2> QED BY <1>10, <2>2, Values
<1> QED BY <1>4, <1>5, <1>6, <1>7, <1>8, <1>9, <1>10 DEF Effect

LEMMA AppliedIs ==
  ASSUME NEW r \in Results, NEW a \in Argument, NEW u, u = Applied(r, a),
         NEW s, s = r.settings, NEW t, t = u.settings
  PROVE  /\ u \in Results
         /\ r.kind = "error" \/ s.command => u = r
         /\ r.kind = "ok" /\ ~s.command =>
              /\ Refused(s, a) => u = Error
              /\ ~Refused(s, a) => u = Fine(t) /\ Effect(s, a, t)
<1>1. s \in SettingsType /\ r.kind \in {"ok", "error"} /\ s.command \in BOOLEAN
  BY ResultIs, Typed
<1>2. CASE r.kind = "error" \/ s.command
  BY <1>2 DEF Applied
<1>3. CASE r.kind = "ok" /\ ~s.command
  <2>1. a.value \in Seq(Token)
    BY ArgumentKinds
  <2>2. /\ FlagKeys \cap (ModeFlags \cup ListKeys \cup {"CMD", "verbose", "grace-ms", "pdeath"}) = {}
        /\ ModeFlags \cap (ListKeys \cup {"CMD", "verbose", "grace-ms", "pdeath"}) = {}
        /\ ListKeys \cap {"CMD", "verbose", "grace-ms", "pdeath"} = {}
    BY DEF FlagKeys, ModeFlags, ListKeys, PathKeys, PortKeys
  <2> DEFINE Out == /\ Refused(s, a) => u = Error
                    /\ ~Refused(s, a) => \E w : u = Fine(w) /\ Effect(s, a, w)
  <2>8. Out
    <3>1. CASE a.name = "CMD"
      <4>1. u = Fine([s EXCEPT !.command = TRUE]) /\ ~Refused(s, a)
        BY <1>3, <2>2, <3>1 DEF Applied, Refused
      <4>2. Effect(s, a, [s EXCEPT !.command = TRUE])
        BY <3>1 DEF Effect
      <4> QED BY <4>1, <4>2
    <3>2. CASE a.name = "verbose"
      <4>1. Refused(s, a) <=> a.attached
        BY <2>2, <3>2 DEF Refused, ValueOptions
      <4>2. u = IF a.attached THEN Error ELSE Fine([s EXCEPT !.verbosity = Saturated(s.verbosity)])
        BY <1>3, <2>2, <3>2 DEF Applied
      <4>3. ~a.attached => Effect(s, a, [s EXCEPT !.verbosity = Saturated(s.verbosity)])
        BY <3>2 DEF Effect
      <4> QED BY <4>1, <4>2, <4>3
    <3>3. CASE a.name \in FlagKeys
      <4>1. Refused(s, a) <=> a.attached
        BY <2>2, <3>3 DEF Refused, ValueOptions
      <4>2. u = IF a.attached THEN Error ELSE Fine(Put(s, a.name, NoValue))
        BY <1>3, <2>2, <3>3 DEF Applied
      <4>3. ~a.attached => Effect(s, a, Put(s, a.name, NoValue))
        BY <1>1, <3>3, PutFlag DEF Effect
      <4> QED BY <4>1, <4>2, <4>3
    <3>4. CASE a.name \in ModeFlags
      <4>1. Refused(s, a) <=> a.attached
        BY <2>2, <3>4 DEF Refused, ValueOptions
      <4>2. u = IF a.attached THEN Error ELSE Fine(Put(s, a.name, NoValue))
        BY <1>3, <2>2, <3>4 DEF Applied
      <4>3. ~a.attached => Effect(s, a, Put(s, a.name, NoValue))
        BY <1>1, <3>4, PutMode DEF Effect
      <4> QED BY <4>1, <4>2, <4>3
    <3>5. CASE a.name \in ListKeys \cup {"grace-ms", "pdeath"}
      <4>1. Refused(s, a) <=> a.value = NoValue \/ ~Accepted(a.name, a.value)
        BY <2>2, <3>5 DEF Refused, ValueOptions
      <4>2. u = IF a.value = NoValue \/ ~Accepted(a.name, a.value) THEN Error
                ELSE Fine(Put(s, a.name, a.value))
        BY <1>3, <2>2, <3>5 DEF Applied
      <4>3. Effect(s, a, Put(s, a.name, a.value))
        <5>1. CASE a.name \in ListKeys
            BY <1>1, <2>1, <5>1, PutItem DEF Effect
        <5>2. CASE a.name = "grace-ms"
          BY <1>1, <2>1, <5>2, PutOne DEF Effect
        <5>3. CASE a.name = "pdeath"
          BY <1>1, <2>1, <5>3, PutOne DEF Effect
        <5> QED BY <3>5, <5>1, <5>2, <5>3
      <4> QED BY <4>1, <4>2, <4>3
    <3> HIDE DEF Out
    <3> QED BY <3>1, <3>2, <3>3, <3>4, <3>5, ArgumentKinds
  <2>9. \A w : Fine(w).settings = w
    BY DEF Fine
  <2>10. ~Refused(s, a) => u = Fine(t) /\ Effect(s, a, t)
    BY <2>8, <2>9
  <2>11. u \in Results
    <3>1. CASE Refused(s, a)
      BY <2>8, <3>1, DefaultsTyped
    <3>2. CASE ~Refused(s, a)
      BY <1>1, <2>10, <3>2, EffectTyped, FineTyped
    <3> QED BY <3>1, <3>2
  <2> QED BY <1>3, <2>8, <2>10, <2>11
<1> QED BY <1>1, <1>2, <1>3

(* The settings after each argument.                                       *)

Steps(argv, base, f) ==
    f = [k \in 0..Len(argv) |-> IF k = 0 THEN Fine(base) ELSE Applied(f[k - 1], argv[k])]

After(argv, base) == CHOOSE f : Steps(argv, base, f)

LEMMA Applies ==
  ASSUME NEW r \in Results, NEW a \in Argument
  PROVE  Applied(r, a) \in Results
BY AppliedIs

LEMMA AfterIs ==
  ASSUME NEW argv \in Seq(Argument), NEW base \in SettingsType, NEW after,
         after = After(argv, base)
  PROVE  /\ after \in [0..Len(argv) -> Results]
         /\ after[0] = Fine(base)
         /\ \A k \in 1..Len(argv) : after[k] = Applied(after[k - 1], argv[k])
         /\ ParseArgs(argv, base) = Refusing(after[Len(argv)], argv)
<1> DEFINE n == Len(argv)
           g == [k \in 1..n |-> [r \in Results |-> Applied(r, argv[k])]]
<1>1. n \in Nat /\ \A k \in 1..n : argv[k] \in Argument
  BY ElementOfSeq, LenProperties
<1>2. Fine(base) \in Results
  BY FineTyped
<1>3. g \in [1..n -> [Results -> Results]]
  BY <1>1, Applies
<1>4. \E f \in [0..n -> Results] : f[0] = Fine(base) /\ \A k \in 1..n : f[k] = g[k][f[k - 1]]
  <2> HIDE DEF n, g
  <2>1. Iterable(n, Results, Fine(base), g)
    BY <1>1, <1>2, <1>3, Iterates
  <2> QED BY <2>1 DEF Iterable
<1>5. PICK f \in [0..n -> Results] : f[0] = Fine(base) /\ \A k \in 1..n : f[k] = g[k][f[k - 1]]
  BY <1>4
<1>6. ASSUME NEW k \in 0..n
      PROVE  f[k] = IF k = 0 THEN Fine(base) ELSE Applied(f[k - 1], argv[k])
  <2>1. CASE k = 0
    BY <1>5, <2>1
  <2>2. CASE k # 0
    <3>1. k \in 1..n /\ k - 1 \in 0..n
      BY <1>1, <2>2
    <3>2. f[k - 1] \in Results /\ f[k] = g[k][f[k - 1]]
      BY <1>5, <3>1
    <3>3. g[k][f[k - 1]] = Applied(f[k - 1], argv[k])
      BY <3>1, <3>2
    <3> QED BY <2>2, <3>2, <3>3
  <2> QED BY <2>1, <2>2
<1>7. f = [k \in 0..n |-> f[k]]
  OBVIOUS
<1>8. Steps(argv, base, f)
  BY <1>6, <1>7 DEF Steps
<1>9. Steps(argv, base, after)
  BY <1>8 DEF After
<1>10. after[0] = Fine(base)
  BY <1>1, <1>9 DEF Steps
<1>11. ASSUME NEW k \in 1..n
       PROVE  after[k] = Applied(after[k - 1], argv[k])
  BY <1>1, <1>9 DEF Steps
<1>12. ParseArgs(argv, base) = Refusing(after[n], argv)
  BY DEF ParseArgs, After, Steps
<1> DEFINE S == {k \in 0..n : after[k] \in Results}
<1>13. 0 \in S
  BY <1>1, <1>2, <1>10
<1>14. ASSUME NEW k \in 1..n, k - 1 \in S
       PROVE  k \in S
  BY <1>1, <1>11, <1>14, Applies
<1>15. \A k \in 0..n : k \in S
  <2> HIDE DEF S, n
  <2> QED BY <1>1, <1>13, <1>14, Induction
<1>16. \A k \in 0..n : after[k] \in Results
  BY <1>15
<1>17. DOMAIN after = 0..n /\ after = [k \in 0..n |-> after[k]]
  BY <1>9 DEF Steps
<1>18. after \in [0..n -> Results]
  BY <1>16, <1>17
<1> QED BY <1>10, <1>11, <1>12, <1>18

(* Once one is refused so is the rest; once there is the command nothing   *)
(* changes.                                                                *)
LEMMA Forward ==
  ASSUME NEW argv \in Seq(Argument), NEW base \in SettingsType, NEW after,
         after = After(argv, base), NEW k \in 0..Len(argv)
  PROVE  /\ after[k].kind = "error" => after[Len(argv)].kind = "error"
         /\ after[k].settings.command => after[Len(argv)] = after[k]
<1> DEFINE n == Len(argv)
<1>1. n \in Nat
  BY LenProperties
<1>2. /\ after \in [0..n -> Results]
      /\ \A m \in 1..n : after[m] = Applied(after[m - 1], argv[m])
  BY AfterIs
<1>3. \A m \in 1..n : argv[m] \in Argument /\ after[m - 1] \in Results
  <2> TAKE m \in 1..n
  <2>1. argv[m] \in Argument
    BY ElementOfSeq
  <2>2. m - 1 \in 0..n
    BY <1>1
  <2> QED BY <1>2, <2>1, <2>2
<1>4. ASSUME NEW m \in 1..n, after[m - 1].kind = "error" \/ after[m - 1].settings.command
      PROVE  after[m] = after[m - 1]
  BY <1>2, <1>3, <1>4, AppliedIs
<1> DEFINE S == {m \in 0..n : m >= k => after[m] = after[k]}
<1>5. ASSUME after[k].kind = "error" \/ after[k].settings.command
      PROVE  \A m \in 0..n : m \in S
  <2>1. 0 \in S
    BY <1>1
  <2>2. ASSUME NEW m \in 1..n, m - 1 \in S
        PROVE  m \in S
    BY <1>1, <1>4, <1>5, <2>2
  <2> HIDE DEF S, n
  <2> QED BY <1>1, <2>1, <2>2, Induction
<1>6. after[k].kind = "error" \/ after[k].settings.command => after[n] = after[k]
  BY <1>1, <1>5
<1> QED BY <1>6

(* Prefixes, position by position.                                         *)
Extends(t, s) == Len(s) <= Len(t) /\ \A i \in 1..Len(s) : t[i] = s[i]

LEMMA PrefixIs ==
  ASSUME NEW S, NEW s \in Seq(S), NEW t \in Seq(S), Extends(t, s)
  PROVE  IsPrefix(s, t)
<1>1. Len(s) \in Nat /\ Len(t) \in Nat
  BY LenProperties
<1>2. /\ \A i \in 1..Len(s) : s[i] \in S
      /\ \A i \in 1..Len(s) : t[i] \in S
  BY <1>1, ElementOfSeq DEF Extends
<1> DEFINE p == SubSeq(s, 1, Len(s))
           q == SubSeq(t, 1, Len(s))
<1>3. p \in Seq(S) /\ Len(p) = Len(s) /\ \A i \in 1..Len(s) : p[i] = s[i]
  BY <1>1, <1>2, SubSeqProperties
<1>4. q \in Seq(S) /\ Len(q) = Len(s) /\ \A i \in 1..Len(s) : q[i] = t[i]
  BY <1>1, <1>2, SubSeqProperties
<1> HIDE DEF p, q
<1>5. \A i \in 1..Len(p) : p[i] = q[i]
  BY <1>3, <1>4 DEF Extends
<1>6. p = q
  BY <1>3, <1>4, <1>5, SeqEqual
<1> QED BY <1>6 DEF IsPrefix, Extends, p, q

(* What is gathered stays.                                                 *)
IsMore(s, t) ==
    /\ s.flags \subseteq t.flags /\ s.modes \subseteq t.modes
    /\ s.command => t.command
    /\ s.verbosity > 0 => t.verbosity > 0
    /\ s.pdeath # NoValue => t.pdeath # NoValue
    /\ \A key \in ListKeys : Extends(t.lists[key], s.lists[key])

LEMMA MoreThanItself ==
  ASSUME NEW s \in SettingsType
  PROVE  IsMore(s, s)
<1>1. \A key \in ListKeys : s.lists[key] \in Seq(Seq(Token))
  BY Typed
<1>2. \A key \in ListKeys : Len(s.lists[key]) \in Nat
  BY <1>1, LenProperties
<1>3. \A key \in ListKeys : Extends(s.lists[key], s.lists[key])
  BY <1>2 DEF Extends
<1> QED BY <1>3 DEF IsMore

LEMMA MoreAgain ==
  ASSUME NEW s \in SettingsType, NEW t \in SettingsType, NEW u \in SettingsType,
         IsMore(s, t), IsMore(t, u)
  PROVE  IsMore(s, u)
<1>1. \A key \in ListKeys : Len(s.lists[key]) \in Nat /\ Len(t.lists[key]) \in Nat
                            /\ Len(u.lists[key]) \in Nat
  <2>1. \A key \in ListKeys : s.lists[key] \in Seq(Seq(Token)) /\ t.lists[key] \in Seq(Seq(Token))
                              /\ u.lists[key] \in Seq(Seq(Token))
    BY Typed
  <2> QED BY <2>1, LenProperties
<1>2. ASSUME NEW key \in ListKeys
      PROVE  Extends(u.lists[key], s.lists[key])
  <2>1. Extends(t.lists[key], s.lists[key]) /\ Extends(u.lists[key], t.lists[key])
    BY DEF IsMore
  <2> QED BY <1>1, <2>1 DEF Extends
<1>3. /\ s.flags \subseteq u.flags /\ s.modes \subseteq u.modes
      /\ s.command => u.command
      /\ s.verbosity > 0 => u.verbosity > 0
      /\ s.pdeath # NoValue => u.pdeath # NoValue
  BY DEF IsMore
<1> QED BY <1>2, <1>3 DEF IsMore

LEMMA AddedIs ==
  ASSUME NEW s \in SettingsType, NEW key \in ListKeys, NEW v \in Seq(Token), NEW t,
         t = Added(s, key, v)
  PROVE  /\ t.flags = s.flags /\ t.modes = s.modes /\ t.command = s.command
         /\ t.verbosity = s.verbosity /\ t.pdeath = s.pdeath /\ t.grace = s.grace
         /\ t.lists[key] = Append(s.lists[key], v) /\ t.lists[key] # <<>>
         /\ \A k \in ListKeys : k # key => t.lists[k] = s.lists[k]
         /\ \A k \in ListKeys : Extends(t.lists[k], s.lists[k])
<1>1. s.lists \in [ListKeys -> Seq(Seq(Token))]
  BY Typed
<1> DEFINE new == [s.lists EXCEPT ![key] = Append(s.lists[key], v)]
<1>2. /\ t.flags = s.flags /\ t.modes = s.modes /\ t.command = s.command
      /\ t.verbosity = s.verbosity /\ t.pdeath = s.pdeath /\ t.grace = s.grace
      /\ t.lists = new
  <2>1. t = [s EXCEPT !.lists = new]
    BY DEF Added
  <2> HIDE DEF new
  <2> QED BY <2>1 DEF SettingsType
<1>3. new[key] = Append(s.lists[key], v) /\ \A k \in ListKeys : k # key => new[k] = s.lists[k]
  BY <1>1
<1> HIDE DEF new
<1>4. /\ s.lists[key] \in Seq(Seq(Token))
      /\ \A k \in ListKeys : Len(s.lists[k]) \in Nat
  BY <1>1, LenProperties
<1>5. /\ Len(new[key]) = Len(s.lists[key]) + 1
      /\ \A i \in 1..Len(s.lists[key]) : new[key][i] = s.lists[key][i]
  BY <1>3, <1>4, AppendProperties
<1>6. new[key] # <<>>
  BY <1>4, <1>5, EmptySeq
<1>7. ASSUME NEW k \in ListKeys
      PROVE  Extends(new[k], s.lists[k])
  <2>1. CASE k = key
    <3>1. Len(s.lists[key]) <= Len(new[key])
      BY <1>4, <1>5
    <3> QED BY <1>5, <2>1, <3>1 DEF Extends
  <2>2. CASE k # key
    <3>1. new[k] = s.lists[k]
      BY <1>3, <2>2
    <3> QED BY <1>4, <3>1 DEF Extends
  <2> QED BY <2>1, <2>2
<1> QED BY <1>2, <1>3, <1>6, <1>7

(* What is seen of an argument in the settings.                            *)
Trace(a, t) ==
    /\ a.name = "CMD" => t.command
    /\ a.name = "verbose" => t.verbosity > 0
    /\ a.name \in FlagKeys => a.name \in t.flags
    /\ a.name \in ModeFlags => a.name \in t.modes
    /\ a.name \in ListKeys => t.lists[a.name] # <<>>
    /\ a.name = "pdeath" => t.pdeath # NoValue

LEMMA EffectIsMore ==
  ASSUME NEW s \in SettingsType, NEW a \in Argument, ~Refused(s, a), NEW t, Effect(s, a, t)
  PROVE  IsMore(s, t) /\ Trace(a, t)
<1>1. IsMore(s, s)
  BY MoreThanItself
<1>2. a.value \in Seq(Token)
  BY ArgumentKinds
<1>3. s.verbosity \in 0..255
  BY Typed
<1>4. /\ FlagKeys \cap (ModeFlags \cup ListKeys \cup {"CMD", "verbose", "grace-ms", "pdeath"}) = {}
      /\ ModeFlags \cap (ListKeys \cup {"CMD", "verbose", "grace-ms", "pdeath"}) = {}
      /\ ListKeys \cap {"CMD", "verbose", "grace-ms", "pdeath"} = {}
  BY DEF FlagKeys, ModeFlags, ListKeys, PathKeys, PortKeys
<1>5. CASE a.name = "CMD" /\ t = [s EXCEPT !.command = TRUE]
  BY <1>1, <1>4, <1>5 DEF IsMore, Trace, SettingsType
<1>6. CASE a.name = "verbose" /\ t = [s EXCEPT !.verbosity = Saturated(s.verbosity)]
  <2>1. Saturated(s.verbosity) > 0
    BY <1>3 DEF Saturated
  <2> QED BY <1>1, <1>4, <1>6, <2>1 DEF IsMore, Trace, SettingsType
<1>7. CASE a.name \in FlagKeys /\ t = [s EXCEPT !.flags = s.flags \cup {a.name}]
  BY <1>1, <1>4, <1>7 DEF IsMore, Trace, SettingsType
<1>8. CASE a.name \in ModeFlags /\ t = [s EXCEPT !.modes = s.modes \cup {a.name}]
  BY <1>1, <1>4, <1>8 DEF IsMore, Trace, SettingsType
<1>9. CASE a.name \in ListKeys /\ t = Added(s, a.name, a.value)
  <2>1. /\ t.flags = s.flags /\ t.modes = s.modes /\ t.command = s.command
        /\ t.verbosity = s.verbosity /\ t.pdeath = s.pdeath /\ t.lists[a.name] # <<>>
        /\ \A k \in ListKeys : Extends(t.lists[k], s.lists[k])
    BY <1>2, <1>9, AddedIs
  <2> QED BY <1>4, <1>9, <2>1 DEF IsMore, Trace
<1>10. CASE a.name = "grace-ms" /\ t = [s EXCEPT !.grace = a.value]
  BY <1>1, <1>4, <1>10 DEF IsMore, Trace, SettingsType
<1>11. CASE a.name = "pdeath" /\ t = [s EXCEPT !.pdeath = <<SignalNames[a.value[1]]>>]
  <2>1. Accepted("pdeath", a.value)
    BY <1>11 DEF Refused, FlagKeys, ModeFlags, ValueOptions
  <2>2. <<SignalNames[a.value[1]]>> # NoValue
    BY <1>2, <2>1, Signal
  <2> DEFINE v == <<SignalNames[a.value[1]]>>
  <2> HIDE DEF v
  <2>3. t = [s EXCEPT !.pdeath = v] /\ v # NoValue
    BY <1>11, <2>2 DEF v
  <2> QED BY <1>1, <1>4, <1>11, <2>3 DEF IsMore, Trace, SettingsType
<1> QED BY <1>5, <1>6, <1>7, <1>8, <1>9, <1>10, <1>11 DEF Effect

LEMMA TraceStays ==
  ASSUME NEW a \in Argument, NEW s \in SettingsType, NEW t \in SettingsType,
         Trace(a, s), IsMore(s, t)
  PROVE  Trace(a, t)
<1>1. a.name \in ListKeys => t.lists[a.name] # <<>>
  <2> SUFFICES ASSUME a.name \in ListKeys PROVE t.lists[a.name] # <<>>
    OBVIOUS
  <2>1. s.lists[a.name] \in Seq(Seq(Token)) /\ t.lists[a.name] \in Seq(Seq(Token))
    BY Typed
  <2>2. Len(s.lists[a.name]) \in Nat \ {0}
    BY <2>1, EmptySeq DEF Trace
  <2>3. Len(s.lists[a.name]) <= Len(t.lists[a.name])
    BY DEF IsMore, Extends
  <2>4. Len(<<>>) = 0
    BY EmptySeq
  <2> QED BY <2>1, <2>2, <2>3, <2>4, LenProperties
<1> QED BY <1>1 DEF Trace, IsMore

(* Along a command line: an argument before the command that is not        *)
(* refused shows in the settings at the end.                               *)
LEMMA Grows ==
  ASSUME NEW argv \in Seq(Argument), NEW base \in SettingsType, NEW after,
         after = After(argv, base), NEW k \in 0..Len(argv), after[Len(argv)].kind = "ok"
  PROVE  /\ after[k].kind = "ok" /\ after[k].settings \in SettingsType
         /\ IsMore(after[k].settings, after[Len(argv)].settings)
<1> DEFINE n == Len(argv)
<1>1. n \in Nat
  BY LenProperties
<1>2. /\ after \in [0..n -> Results]
      /\ \A m \in 1..n : after[m] = Applied(after[m - 1], argv[m])
  BY AfterIs
<1>3. ASSUME NEW m \in 0..n
      PROVE  /\ after[m] \in Results /\ after[m].kind = "ok" /\ after[m].settings \in SettingsType
  <2>1. after[m] \in Results
    BY <1>2
  <2>2. after[m].kind # "error"
    BY Forward
  <2> QED BY <2>1, <2>2, ResultIs
<1>4. ASSUME NEW m \in 1..n
      PROVE  IsMore(after[m - 1].settings, after[m].settings)
  <2> DEFINE a == argv[m]
             r == after[m - 1]
             u == after[m]
  <2>1. a \in Argument
    BY ElementOfSeq
  <2>2. m - 1 \in 0..n /\ m \in 0..n
    BY <1>1
  <2>3. /\ r \in Results /\ r.kind = "ok" /\ r.settings \in SettingsType
        /\ u.kind = "ok" /\ u.settings \in SettingsType
    BY <1>3, <2>2
  <2>4. u = Applied(r, a)
    BY <1>2
  <2> HIDE DEF a, r, u
  <2>5. CASE r.settings.command
    <3>1. u = r
      BY <2>1, <2>3, <2>4, <2>5, AppliedIs
    <3>2. IsMore(r.settings, u.settings)
      BY <2>3, <3>1, MoreThanItself
    <3> QED BY <3>2 DEF r, u
  <2>6. CASE ~r.settings.command
    <3>1. /\ Refused(r.settings, a) => u = Error
          /\ ~Refused(r.settings, a) => Effect(r.settings, a, u.settings)
      BY <2>1, <2>3, <2>4, <2>6, AppliedIs
    <3>2. ~Refused(r.settings, a)
      BY <2>3, <3>1 DEF Error
    <3>3. IsMore(r.settings, u.settings)
      BY <2>1, <2>3, <3>1, <3>2, EffectIsMore
    <3> QED BY <3>3 DEF r, u
  <2> QED BY <2>5, <2>6
<1> DEFINE S == {m \in 0..n : m >= k => IsMore(after[k].settings, after[m].settings)}
<1>5. 0 \in S
  <2>1. 0 >= k => k = 0
    BY <1>1
  <2> QED BY <1>1, <1>3, <2>1, MoreThanItself
<1>6. ASSUME NEW m \in 1..n, m - 1 \in S
      PROVE  m \in S
  <2>1. m - 1 \in 0..n /\ m \in 0..n
    BY <1>1
  <2>2. CASE m - 1 >= k
    <3>1. IsMore(after[k].settings, after[m - 1].settings)
      BY <1>6, <2>2
    <3>2. IsMore(after[m - 1].settings, after[m].settings)
      BY <1>4
    <3>3. IsMore(after[k].settings, after[m].settings)
      BY <1>3, <2>1, <3>1, <3>2, MoreAgain
    <3> QED BY <2>1, <3>3
  <2>3. CASE ~(m - 1 >= k)
    <3>1. m >= k => m = k
      BY <1>1, <2>3
    <3> QED BY <1>3, <2>1, <3>1, MoreThanItself
  <2> QED BY <2>2, <2>3
<1>7. \A m \in 0..n : m \in S
  <2> HIDE DEF S, n
  <2> QED BY <1>1, <1>5, <1>6, Induction
<1>8. IsMore(after[k].settings, after[n].settings)
  BY <1>1, <1>7
<1> QED BY <1>3, <1>8

NoCommand(argv, k) == \A m \in 1..(k - 1) : argv[m].name # "CMD"

LEMMA NotYet ==
  ASSUME NEW argv \in Seq(Argument), NEW base \in SettingsType, ~base.command, NEW after,
         after = After(argv, base), NEW k \in 1..Len(argv), NoCommand(argv, k),
         after[Len(argv)].kind = "ok"
  PROVE  ~after[k - 1].settings.command
<1> DEFINE n == Len(argv)
           S == {m \in 0..(k - 1) : ~after[m].settings.command}
<1>1. n \in Nat
  BY LenProperties
<1>2. /\ after \in [0..n -> Results] /\ after[0] = Fine(base)
      /\ \A m \in 1..n : after[m] = Applied(after[m - 1], argv[m])
  BY AfterIs
<1>3. 0 \in S
  BY <1>1, <1>2 DEF Fine
<1>4. ASSUME NEW m \in 1..(k - 1), m - 1 \in S
      PROVE  m \in S
  <2> DEFINE a == argv[m]
             r == after[m - 1]
             u == after[m]
  <2>1. m \in 1..n /\ m \in 0..n /\ m - 1 \in 0..n /\ a.name # "CMD"
    BY <1>1 DEF NoCommand
  <2>2. a \in Argument
    BY <2>1, ElementOfSeq
  <2>3. u = Applied(r, a) /\ r \in Results /\ r.kind = "ok" /\ u.kind = "ok"
        /\ r.settings \in SettingsType /\ ~r.settings.command
    BY <1>2, <1>4, <2>1, Grows
  <2> HIDE DEF a, r, u
  <2>4. /\ Refused(r.settings, a) => u = Error
        /\ ~Refused(r.settings, a) => Effect(r.settings, a, u.settings)
    BY <2>2, <2>3, AppliedIs
  <2>5. Effect(r.settings, a, u.settings)
    BY <2>3, <2>4 DEF Error
  <2>6. a.value \in Seq(Token)
    BY <2>2, ArgumentKinds
  <2>7. u.settings.command = r.settings.command
    <3>1. CASE a.name \in ListKeys /\ u.settings = Added(r.settings, a.name, a.value)
      BY <2>3, <2>6, <3>1, AddedIs
    <3>2. CASE ~(a.name \in ListKeys /\ u.settings = Added(r.settings, a.name, a.value))
      BY <2>1, <2>3, <2>5, <3>2 DEF Effect, SettingsType, a
    <3> QED BY <3>1, <3>2
  <2>8. ~after[m].settings.command
    BY <2>3, <2>7 DEF u
  <2> QED BY <2>8
<1>5. \A m \in 0..(k - 1) : m \in S
  <2>1. k - 1 \in Nat
    BY <1>1
  <2> HIDE DEF S
  <2> QED BY <1>3, <1>4, <2>1, Induction
<1> QED BY <1>1, <1>5

LEMMA Shows ==
  ASSUME NEW argv \in Seq(Argument), NEW base \in SettingsType, ~base.command, NEW after,
         after = After(argv, base), NEW k \in 1..Len(argv), NoCommand(argv, k),
         after[Len(argv)].kind = "ok"
  PROVE  /\ Trace(argv[k], after[Len(argv)].settings)
         /\ ~Refused(base, argv[k])
<1> DEFINE n == Len(argv)
           a == argv[k]
           r == after[k - 1]
           u == after[k]
           t == after[n].settings
<1>1. n \in Nat /\ k \in 0..n /\ k - 1 \in 0..n /\ n \in 0..n
  BY LenProperties
<1>2. a \in Argument
  BY ElementOfSeq
<1>3. u = Applied(r, a) /\ r \in Results
  BY <1>1, AfterIs
<1>4. /\ r.kind = "ok" /\ u.kind = "ok" /\ r.settings \in SettingsType
      /\ u.settings \in SettingsType /\ t \in SettingsType /\ IsMore(u.settings, t)
  BY <1>1, Grows
<1>5. ~r.settings.command
  BY NotYet
<1> HIDE DEF a, r, u, t
<1>6. /\ Refused(r.settings, a) => u = Error
      /\ ~Refused(r.settings, a) => Effect(r.settings, a, u.settings)
  BY <1>2, <1>3, <1>4, <1>5, AppliedIs
<1>7. ~Refused(r.settings, a) /\ Effect(r.settings, a, u.settings)
  BY <1>4, <1>6 DEF Error
<1>8. Trace(a, u.settings)
  BY <1>2, <1>4, <1>7, EffectIsMore
<1>9. Trace(a, t)
  BY <1>2, <1>4, <1>8, TraceStays
<1>10. ~Refused(base, a)
  BY <1>7 DEF Refused
<1> QED BY <1>9, <1>10 DEF a, t

----------------------------------------------------------------------------
(* The reader of the configuration file.                                   *)

LEMMA TrimIs ==
  ASSUME NEW text \in Seq(Token)
  PROVE  Trim(text) \in Seq(Token)
<1> DEFINE kept == {k \in DOMAIN text : ~IsBlank(text[k])}
<1>1. Len(text) \in Nat /\ DOMAIN text = 1..Len(text)
  BY LenProperties
<1>2. CASE kept = {}
  BY <1>2, EmptySeq DEF Trim
<1>3. CASE kept # {}
  <2>1. kept \subseteq Nat /\ kept \subseteq 0..Len(text)
    BY <1>1
  <2> HIDE DEF kept
  <2>2. \E k \in kept : \A m \in kept : k <= m
    BY <1>3, <2>1, Least
  <2>3. \E k \in kept : \A m \in kept : m <= k
    BY <1>1, <1>3, <2>1, Greatest
  <2> DEFINE f == CHOOSE k \in kept : \A m \in kept : k <= m
             l == CHOOSE k \in kept : \A m \in kept : m <= k
  <2>4. f \in kept /\ l \in kept
    BY <2>2, <2>3
  <2>5. f \in 1..Len(text) /\ l \in 1..Len(text)
    BY <1>1, <2>4 DEF kept
  <2>6. Trim(text) = SubSeq(text, f, l)
    BY <1>3 DEF Trim, kept
  <2> HIDE DEF f, l
  <2>7. \A i \in f..l : text[i] \in Token
    BY <1>1, <2>5, ElementOfSeq
  <2>8. SubSeq(text, f, l) \in Seq(Token)
    BY <1>1, <2>5, <2>7, SubSeqProperties
  <2> QED BY <2>6, <2>8
<1> QED BY <1>2, <1>3

(* A file says nothing of the modes or of the command.                     *)
Base == {s \in SettingsType : s.modes = {} /\ ~s.command}
BaseResults == {r \in Results : r.settings \in Base}

LEMMA DefaultsAreBase == Defaults \in Base /\ Error \in BaseResults /\ Fine(Defaults) \in BaseResults
<1>1. Defaults \in Base
  BY DefaultsTyped DEF Base, Defaults
<1> QED BY <1>1, DefaultsTyped, FineTyped DEF BaseResults, Error

LEMMA ValueIs ==
  ASSUME NEW raw \in Seq(Token)
  PROVE  Trim(SubSeq(Trim(raw), 2, Len(Trim(raw)))) \in Seq(Token)
<1> DEFINE line == Trim(raw)
<1>1. line \in Seq(Token)
  BY TrimIs
<1> HIDE DEF line
<1>2. Len(line) \in Nat /\ \A i \in 2..Len(line) : line[i] \in Token
  BY <1>1, ElementOfSeq, LenProperties
<1>3. SubSeq(line, 2, Len(line)) \in Seq(Token)
  BY <1>2, SubSeqProperties
<1>4. Trim(SubSeq(line, 2, Len(line))) \in Seq(Token)
  BY <1>3, TrimIs
<1> QED BY <1>4 DEF line

LEMMA PutBase ==
  ASSUME NEW s \in Base, NEW v \in Seq(Token),
         NEW key \in FlagKeys \cup ListKeys \cup {"grace-ms", "pdeath"},
         key = "pdeath" => Accepted("pdeath", v)
  PROVE  Put(s, key, v) \in Base
<1>1. s \in SettingsType /\ s.modes = {} /\ ~s.command
  BY DEF Base
<1>2. CASE key \in FlagKeys
  <2>1. Put(s, key, v) = [s EXCEPT !.flags = s.flags \cup {key}] /\ Put(s, key, v) \in SettingsType
    BY <1>1, <1>2, PutFlag
  <2>2. Put(s, key, v).modes = s.modes /\ Put(s, key, v).command = s.command
    BY <1>1, <2>1 DEF SettingsType
  <2> QED BY <1>1, <2>1, <2>2 DEF Base
<1>3. CASE key \in ListKeys
  <2>1. Put(s, key, v) = Added(s, key, v) /\ Put(s, key, v) \in SettingsType
    BY <1>1, <1>3, PutItem
  <2> QED BY <1>1, <1>3, <2>1, AddedIs DEF Base
<1>4. CASE key = "grace-ms"
  <2>1. Put(s, key, v) = [s EXCEPT !.grace = v] /\ Put(s, key, v) \in SettingsType
    BY <1>1, <1>4, PutOne
  <2>2. Put(s, key, v).modes = s.modes /\ Put(s, key, v).command = s.command
    BY <1>1, <2>1 DEF SettingsType
  <2> QED BY <1>1, <2>1, <2>2 DEF Base
<1>5. CASE key = "pdeath"
  <2>1. /\ Put(s, key, v) = [s EXCEPT !.pdeath = <<SignalNames[v[1]]>>]
        /\ Put(s, key, v) \in SettingsType
    BY <1>1, <1>5, PutOne
  <2>2. Put(s, key, v).modes = s.modes /\ Put(s, key, v).command = s.command
    BY <1>1, <2>1 DEF SettingsType
  <2> QED BY <1>1, <2>1, <2>2 DEF Base
<1> QED BY <1>2, <1>3, <1>4, <1>5

LEMMA LineTyped ==
  ASSUME NEW r \in BaseResults, NEW raw \in Seq(Token)
  PROVE  AppliedLine(r, raw) \in BaseResults
<1> DEFINE line  == Trim(raw)
           key   == line[1]
           value == Trim(SubSeq(line, 2, Len(line)))
           s     == r.settings
           u     == AppliedLine(r, raw)
<1>1. value \in Seq(Token)
  BY ValueIs
<1>2. s \in Base
  BY DEF BaseResults
<1>3. Error \in BaseResults
  BY DefaultsAreBase
<1>4. ASSUME NEW t \in Base
      PROVE  Fine(t) \in BaseResults
  BY FineTyped DEF Base, BaseResults
<1>5. CASE r.kind = "error" \/ line = <<>> \/ line[1] = "hash"
  BY <1>5 DEF AppliedLine
<1>6. CASE ~(r.kind = "error" \/ line = <<>> \/ line[1] = "hash")
  <2>1. CASE Len(line) > 1 /\ line[2] # "sp"
    BY <1>3, <1>6, <2>1 DEF AppliedLine
  <2>2. CASE ~(Len(line) > 1 /\ line[2] # "sp") /\ key \in FlagKeys
    <3>1. u = IF value = <<>> THEN Fine(Put(s, key, NoValue)) ELSE Error
      BY <1>6, <2>2 DEF AppliedLine
    <3>2. NoValue \in Seq(Token)
      BY DefaultsTyped DEF Defaults, SettingsType
    <3>3. Put(s, key, NoValue) \in Base
      <4>1. key \in FlagKeys \cup ListKeys \cup {"grace-ms", "pdeath"} /\ key # "pdeath"
        BY <2>2 DEF FlagKeys
      <4> HIDE DEF s, key
      <4> QED BY <1>2, <3>2, <4>1, PutBase
    <3> QED BY <1>3, <1>4, <3>1, <3>3
  <2>3. CASE ~(Len(line) > 1 /\ line[2] # "sp") /\ key \notin FlagKeys
    <3>1. u = IF value = <<>> \/ HasToken(value, "nul") THEN Error
              ELSE IF key = "verbosity"
              THEN IF IsNumber(value, 3) THEN Fine([s EXCEPT !.verbosity = Numerals[value[1]]])
                                         ELSE Error
              ELSE IF key \in ListKeys \cup {"grace-ms", "pdeath"} /\ Accepted(key, value)
                   THEN Fine(Put(s, key, value)) ELSE Error
      BY <1>6, <2>3 DEF AppliedLine
    <3> HIDE DEF line, key, value, s, u
    <3>2. ASSUME IsNumber(value, 3)
          PROVE  [s EXCEPT !.verbosity = Numerals[value[1]]] \in Base
      <4>1. Numerals[value[1]] \in 0..255
        <5>1. value[1] \in DOMAIN Numerals /\ Numerals[value[1]] <= 3
          BY <3>2 DEF IsNumber
        <5>2. Numerals[value[1]] \in Nat
          BY <5>1, SettingsAssumption
        <5> DEFINE x == Numerals[value[1]]
        <5>3. x \in Nat /\ x <= 3
          BY <5>1, <5>2
        <5> HIDE DEF x
        <5>4. x \in 0..255
          BY <5>3
        <5> QED BY <5>4 DEF x
      <4>2. [s EXCEPT !.verbosity = Numerals[value[1]]] \in SettingsType
        BY <1>2, <4>1, Verbosity DEF Base
      <4> QED BY <1>2, <4>2 DEF Base, SettingsType
    <3>3. ASSUME key \in ListKeys \cup {"grace-ms", "pdeath"}, Accepted(key, value)
          PROVE  Put(s, key, value) \in Base
      BY <1>1, <1>2, <3>3, PutBase
    <3>4. u = Error \/ (\E t \in Base : u = Fine(t))
      BY <3>1, <3>2, <3>3
    <3>5. u \in BaseResults
      BY <1>3, <1>4, <3>4
    <3> QED BY <3>5 DEF u
  <2> QED BY <2>1, <2>2, <2>3
<1> QED BY <1>5, <1>6

Reads(text, f) ==
    f = [k \in 0..Len(text) |->
            IF k = 0 THEN Fine(Defaults)
            ELSE IF text[k] = "nl"
            THEN AppliedLine(f[k - 1], SubSeq(text, Start(text, k), k - 1))
            ELSE f[k - 1]]

Reading(text) == CHOOSE f : Reads(text, f)

LEMMA StartIs ==
  ASSUME NEW text \in Seq(Token), NEW k \in 1..(Len(text) + 1)
  PROVE  /\ Start(text, k) \in 1..k
         /\ SubSeq(text, Start(text, k), k - 1) \in Seq(Token)
<1> DEFINE ends == {m \in 1..(k - 1) : text[m] = "nl"}
<1>1. Len(text) \in Nat
  BY LenProperties
<1>2. Start(text, k) \in 1..k
  <2>1. CASE ends = {}
    BY <1>1, <2>1 DEF Start
  <2>2. CASE ends # {}
    <3>1. \E m \in ends : \A l \in ends : l <= m
      <4>1. ends \subseteq 0..(k - 1) /\ k - 1 \in Nat
        BY <1>1
      <4> HIDE DEF ends
      <4> QED BY <2>2, <4>1, Greatest
    <3> DEFINE e == CHOOSE m \in ends : \A l \in ends : l <= m
    <3>2. e \in ends
      BY <3>1
    <3>3. Start(text, k) = 1 + e
      BY <2>2 DEF Start
    <3> QED BY <1>1, <3>2, <3>3
  <2> QED BY <2>1, <2>2
<1> DEFINE b == Start(text, k)
<1>3. b \in 1..k
  BY <1>2
<1> HIDE DEF b
<1>4. \A i \in b..(k - 1) : text[i] \in Token
  BY <1>1, <1>3, ElementOfSeq
<1>5. SubSeq(text, b, k - 1) \in Seq(Token)
  BY <1>1, <1>3, <1>4, SubSeqProperties
<1> QED BY <1>2, <1>5 DEF b

LEMMA ReadingIs ==
  ASSUME NEW text \in Seq(Token), NEW read, read = Reading(text)
  PROVE  /\ read \in [0..Len(text) -> BaseResults]
         /\ read[0] = Fine(Defaults)
         /\ \A k \in 1..Len(text) :
              /\ text[k] = "nl" =>
                   read[k] = AppliedLine(read[k - 1], SubSeq(text, Start(text, k), k - 1))
              /\ text[k] # "nl" => read[k] = read[k - 1]
         /\ ParseText(text) = AppliedLine(read[Len(text)],
                                SubSeq(text, Start(text, Len(text) + 1), Len(text)))
         /\ ParseText(text) \in BaseResults
<1> DEFINE n == Len(text)
           Next2(k, r) == IF text[k] = "nl" THEN AppliedLine(r, SubSeq(text, Start(text, k), k - 1))
                          ELSE r
           g == [k \in 1..n |-> [r \in BaseResults |-> Next2(k, r)]]
<1>1. n \in Nat /\ Fine(Defaults) \in BaseResults
  BY LenProperties, DefaultsAreBase
<1>2. ASSUME NEW k \in 1..n, NEW r \in BaseResults
      PROVE  Next2(k, r) \in BaseResults
  <2>1. k \in 1..(n + 1)
    BY <1>1
  <2> QED BY <2>1, StartIs, LineTyped
<1> HIDE DEF Next2
<1>3. g \in [1..n -> [BaseResults -> BaseResults]]
  BY <1>2
<1>4. \E f \in [0..n -> BaseResults] :
         f[0] = Fine(Defaults) /\ \A k \in 1..n : f[k] = g[k][f[k - 1]]
  <2> HIDE DEF n, g
  <2>1. Iterable(n, BaseResults, Fine(Defaults), g)
    BY <1>1, <1>3, Iterates
  <2> QED BY <2>1 DEF Iterable
<1>5. PICK f \in [0..n -> BaseResults] :
         f[0] = Fine(Defaults) /\ \A k \in 1..n : f[k] = g[k][f[k - 1]]
  BY <1>4
<1>6. ASSUME NEW k \in 0..n
      PROVE  f[k] = IF k = 0 THEN Fine(Defaults) ELSE Next2(k, f[k - 1])
  <2>1. CASE k = 0
    BY <1>5, <2>1
  <2>2. CASE k # 0
    <3>1. k \in 1..n /\ k - 1 \in 0..n
      BY <1>1, <2>2
    <3>2. f[k - 1] \in BaseResults /\ f[k] = g[k][f[k - 1]]
      BY <1>5, <3>1
    <3>3. g[k][f[k - 1]] = Next2(k, f[k - 1])
      BY <3>1, <3>2
    <3> QED BY <2>2, <3>2, <3>3
  <2> QED BY <2>1, <2>2
<1>7. f = [k \in 0..n |-> f[k]]
  OBVIOUS
<1>8. Reads(text, f)
  BY <1>6, <1>7 DEF Reads, Next2
<1>9. Reads(text, read)
  BY <1>8 DEF Reading
<1>10. read[0] = Fine(Defaults)
  BY <1>1, <1>9 DEF Reads
<1>11. ASSUME NEW k \in 1..n
       PROVE  read[k] = Next2(k, read[k - 1])
  <2>1. k \in 0..n /\ k # 0
    BY <1>1
  <2>2. \A m \in 0..n : read[m] = IF m = 0 THEN Fine(Defaults) ELSE Next2(m, read[m - 1])
    BY <1>9 DEF Reads, Next2
  <2> QED BY <2>1, <2>2
<1>12. ParseText(text) = AppliedLine(read[n], SubSeq(text, Start(text, n + 1), n))
  BY DEF ParseText, Reading, Reads
<1> DEFINE S == {k \in 0..n : read[k] \in BaseResults}
<1>13. 0 \in S
  BY <1>1, <1>10
<1>14. ASSUME NEW k \in 1..n, k - 1 \in S
       PROVE  k \in S
  BY <1>1, <1>2, <1>11, <1>14
<1>15. \A k \in 0..n : k \in S
  <2> HIDE DEF S, n
  <2> QED BY <1>1, <1>13, <1>14, Induction
<1>16. \A k \in 0..n : read[k] \in BaseResults
  BY <1>15
<1>17. DOMAIN read = 0..n /\ read = [k \in 0..n |-> read[k]]
  BY <1>9 DEF Reads
<1>18. read \in [0..n -> BaseResults]
  BY <1>16, <1>17
<1>19. ParseText(text) \in BaseResults
  <2> DEFINE b == Start(text, n + 1)
  <2>1. n + 1 \in 1..(n + 1) /\ (n + 1) - 1 = n
    BY <1>1
  <2>2. SubSeq(text, b, n) \in Seq(Token)
    BY <2>1, StartIs
  <2> HIDE DEF b
  <2>3. read[n] \in BaseResults
    BY <1>1, <1>16
  <2>4. AppliedLine(read[n], SubSeq(text, b, n)) \in BaseResults
    BY <2>2, <2>3, LineTyped
  <2> QED BY <1>12, <2>4 DEF b
<1>20. \A k \in 1..n :
         /\ text[k] = "nl" =>
              read[k] = AppliedLine(read[k - 1], SubSeq(text, Start(text, k), k - 1))
         /\ text[k] # "nl" => read[k] = read[k - 1]
  BY <1>11 DEF Next2
<1> QED BY <1>10, <1>12, <1>18, <1>19, <1>20

(* What an argument changes of the modes, the flags and the command.       *)
LEMMA EffectModes ==
  ASSUME NEW s \in SettingsType, NEW a \in Argument, NEW t, Effect(s, a, t)
  PROVE  /\ t.modes = IF a.name \in ModeFlags THEN s.modes \cup {a.name} ELSE s.modes
         /\ t.flags = IF a.name \in FlagKeys THEN s.flags \cup {a.name} ELSE s.flags
         /\ t.command <=> a.name = "CMD" \/ s.command
<1>1. a.value \in Seq(Token)
  BY ArgumentKinds
<1>2. /\ FlagKeys \cap (ModeFlags \cup ListKeys \cup {"CMD", "verbose", "grace-ms", "pdeath"}) = {}
      /\ ModeFlags \cap (ListKeys \cup {"CMD", "verbose", "grace-ms", "pdeath"}) = {}
      /\ ListKeys \cap {"CMD", "verbose", "grace-ms", "pdeath"} = {}
  BY DEF FlagKeys, ModeFlags, ListKeys, PathKeys, PortKeys
<1>3. CASE a.name = "CMD" /\ t = [s EXCEPT !.command = TRUE]
  BY <1>2, <1>3 DEF SettingsType
<1>4. CASE a.name = "verbose" /\ t = [s EXCEPT !.verbosity = Saturated(s.verbosity)]
  BY <1>2, <1>4 DEF SettingsType
<1>5. CASE a.name \in FlagKeys /\ t = [s EXCEPT !.flags = s.flags \cup {a.name}]
  BY <1>2, <1>5 DEF SettingsType
<1>6. CASE a.name \in ModeFlags /\ t = [s EXCEPT !.modes = s.modes \cup {a.name}]
  BY <1>2, <1>6 DEF SettingsType
<1>7. CASE a.name \in ListKeys /\ t = Added(s, a.name, a.value)
  <2>1. t.flags = s.flags /\ t.modes = s.modes /\ t.command = s.command
    BY <1>1, <1>7, AddedIs
  <2> QED BY <1>2, <1>7, <2>1
<1>8. CASE a.name = "grace-ms" /\ t = [s EXCEPT !.grace = a.value]
  BY <1>2, <1>8 DEF SettingsType
<1>9. CASE a.name = "pdeath" /\ t = [s EXCEPT !.pdeath = <<SignalNames[a.value[1]]>>]
  BY <1>2, <1>9 DEF SettingsType
<1> QED BY <1>3, <1>4, <1>5, <1>6, <1>7, <1>8, <1>9 DEF Effect

(* Over different settings that have no mode and no command, the same      *)
(* arguments are refused and give the same modes.                          *)
LEMMA SameModes ==
  ASSUME NEW argv \in Seq(Argument), NEW b \in Base, NEW c \in Base,
         NEW p, p = After(argv, b), NEW q, q = After(argv, c), NEW k \in 0..Len(argv)
  PROVE  /\ p[k].kind = q[k].kind
         /\ p[k].kind = "ok" => /\ p[k].settings.modes = q[k].settings.modes
                                /\ p[k].settings.command = q[k].settings.command
<1> DEFINE n == Len(argv)
           Same(r, u) == /\ r.kind = u.kind
                         /\ r.kind = "ok" => /\ r.settings.modes = u.settings.modes
                                             /\ r.settings.command = u.settings.command
           S == {m \in 0..n : Same(p[m], q[m])}
<1>1. n \in Nat /\ b \in SettingsType /\ c \in SettingsType
  BY LenProperties DEF Base
<1>2. /\ p \in [0..n -> Results] /\ p[0] = Fine(b)
      /\ \A m \in 1..n : p[m] = Applied(p[m - 1], argv[m])
      /\ q \in [0..n -> Results] /\ q[0] = Fine(c)
      /\ \A m \in 1..n : q[m] = Applied(q[m - 1], argv[m])
  BY <1>1, AfterIs
<1>3. 0 \in S
  <2>1. b.modes = c.modes /\ b.command = c.command
    BY <1>1, Typed DEF Base
  <2>2. Same(Fine(b), Fine(c))
    BY <1>1, <2>1, FineTyped
  <2> HIDE DEF Same
  <2> QED BY <1>1, <1>2, <2>2
<1>4. ASSUME NEW m \in 1..n, m - 1 \in S
      PROVE  m \in S
  <2> DEFINE a == argv[m]
             r == p[m - 1]
             u == q[m - 1]
             v == p[m]
             w == q[m]
  <2>1. m \in 0..n /\ m - 1 \in 0..n /\ a \in Argument
    BY <1>1, ElementOfSeq
  <2>2. /\ r \in Results /\ u \in Results /\ v = Applied(r, a) /\ w = Applied(u, a) /\ Same(r, u)
    BY <1>2, <1>4, <2>1
  <2> HIDE DEF a, r, u, v, w, Same
  <2>3. Same(v, w)
    <3> DEFINE s == r.settings
               t == u.settings
    <3>1. s \in SettingsType /\ t \in SettingsType
      BY <2>2, ResultIs
    <3>2. CASE r.kind = "error" \/ s.command
      <4>1. u.kind = "error" \/ t.command
        BY <2>2, <3>2, ResultIs DEF Same
      <4>2. v = r /\ w = u
        BY <2>1, <2>2, <3>2, <4>1, AppliedIs
      <4> QED BY <2>2, <4>2
    <3>3. CASE ~(r.kind = "error" \/ s.command)
      <4>1. /\ r.kind = "ok" /\ ~s.command /\ u.kind = "ok" /\ ~t.command
            /\ s.modes = t.modes
        BY <2>2, <3>1, <3>3, ResultIs, Typed DEF Same
      <4>2. /\ Refused(s, a) => v = Error
            /\ ~Refused(s, a) => v = Fine(v.settings) /\ Effect(s, a, v.settings)
        BY <2>1, <2>2, <4>1, AppliedIs
      <4>3. /\ Refused(t, a) => w = Error
            /\ ~Refused(t, a) => w = Fine(w.settings) /\ Effect(t, a, w.settings)
        BY <2>1, <2>2, <4>1, AppliedIs
      <4>4. Refused(s, a) <=> Refused(t, a)
        BY DEF Refused
      <4>5. CASE Refused(s, a)
        BY <4>2, <4>3, <4>4, <4>5 DEF Same
      <4>6. CASE ~Refused(s, a)
        <5> DEFINE x == v.settings
                   y == w.settings
                   E(o) == IF a.name \in ModeFlags THEN o.modes \cup {a.name} ELSE o.modes
                   D(o) == a.name = "CMD" \/ o.command
        <5>1. v.kind = "ok" /\ w.kind = "ok" /\ Effect(s, a, x) /\ Effect(t, a, y)
          BY <4>2, <4>3, <4>4, <4>6 DEF Fine
        <5>2. x.modes = E(s) /\ (x.command <=> D(s))
          <6> HIDE DEF s, t, x, y
          <6> QED BY <2>1, <3>1, <5>1, EffectModes
        <5>3. y.modes = E(t) /\ (y.command <=> D(t))
          <6> HIDE DEF s, t, x, y
          <6> QED BY <2>1, <3>1, <5>1, EffectModes
        <5>4. x.command \in BOOLEAN /\ y.command \in BOOLEAN
          <6>1. x \in SettingsType /\ y \in SettingsType
            BY <2>1, <3>1, <4>4, <4>6, <5>1, EffectTyped
          <6> QED BY <6>1, Typed
        <5>5. x.modes = y.modes /\ x.command = y.command
          BY <4>1, <5>2, <5>3, <5>4
        <5> QED BY <5>1, <5>5 DEF Same
      <4> QED BY <4>5, <4>6
    <3> QED BY <3>2, <3>3
  <2> QED BY <2>1, <2>3 DEF v, w
<1>5. \A m \in 0..n : m \in S
  <2> HIDE DEF S, n
  <2> QED BY <1>1, <1>3, <1>4, Induction
<1>6. Same(p[k], q[k])
  BY <1>5
<1> QED BY <1>6

----------------------------------------------------------------------------
(* The control modes and what they come to.                                *)

LEMMA RunsIs ==
  ASSUME NEW s, NEW e, NEW file, NEW o, o = Runs(s, e, file)
  PROVE  /\ o.kind = IF "explain" \in s.modes THEN "explained" ELSE "run"
         /\ o.settings = e.settings /\ o.file = file
         /\ o.subreaper = SubreaperSource(s, e) /\ o.pgroup = PgroupSource(s, e)
         /\ o.verbosity = VerbositySource(s, e)
  BY DEF Runs, Outcome

LEMMA CheckIs ==
  ASSUME NEW file
  PROVE  CheckConfig(file).kind \in {"checked", "error"}
  BY DEF CheckConfig, CheckResult, Failure, Outcome

(* The kinds of outcome, in the order the code decides them.               *)
LEMMA Performed ==
  ASSUME NEW s, NEW file, NEW env, NEW o, o = Perform(s, file, env)
  PROVE  /\ o.kind = "checked" => /\ ModeIsClear(s) /\ "check-config" \in s.modes
                                  /\ o = CheckConfig(file)
         /\ o.kind = "written" => "write-config" \in s.modes
         /\ o.kind \in {"run", "explained"} =>
              /\ ModeIsClear(s) /\ PolicyIsSound(s)
              /\ s.modes \cap {"check-config", "write-config", "print-config"} = {}
              /\ s.command \/ "explain" \in s.modes
              /\ o = Runs(s, WithEnv(s, env), file)
<1>1. CASE ~ModeIsClear(s)
  BY <1>1 DEF Perform, Failure, Outcome
<1>2. CASE ModeIsClear(s) /\ "check-config" \in s.modes
  BY <1>2, CheckIs DEF Perform
<1>3. CASE ModeIsClear(s) /\ "check-config" \notin s.modes /\ ~PolicyIsSound(s)
  BY <1>3 DEF Perform, Failure, Outcome
<1>4. CASE /\ ModeIsClear(s) /\ "check-config" \notin s.modes /\ PolicyIsSound(s)
           /\ s.modes \cap {"write-config", "print-config"} # {}
  <2>1. o = IF ~IsWritable(s) THEN Failure(file)
            ELSE IF "write-config" \in s.modes THEN Written(s, TextFile(ConfigText(s)))
            ELSE Outcome("printed", s, TextFile(ConfigText(s)))
    BY <1>4 DEF Perform
  <2>2. Written(s, TextFile(ConfigText(s))).kind \in {"error", "written"}
    BY DEF Written, Failure, Outcome
  <2>3. Failure(file).kind = "error"
    BY DEF Failure, Outcome
  <2>4. Outcome("printed", s, TextFile(ConfigText(s))).kind = "printed"
    BY DEF Outcome
  <2> QED BY <2>1, <2>2, <2>3, <2>4
<1>5. CASE /\ ModeIsClear(s) /\ "check-config" \notin s.modes /\ PolicyIsSound(s)
           /\ s.modes \cap {"write-config", "print-config"} = {}
  <2>1. o = IF s.command \/ "explain" \in s.modes THEN Runs(s, WithEnv(s, env), file)
            ELSE Failure(file)
    BY <1>5 DEF Perform
  <2>2. Runs(s, WithEnv(s, env), file).kind \in {"explained", "run"}
    BY RunsIs
  <2>3. Failure(file).kind = "error"
    BY DEF Failure, Outcome
  <2> QED BY <1>5, <2>1, <2>2, <2>3
<1> QED BY <1>1, <1>2, <1>3, <1>4, <1>5

LEMMA Attempted ==
  ASSUME NEW parsed, NEW file, NEW env, Attempt(parsed, file, env).kind # "error"
  PROVE  /\ parsed.kind # "error"
         /\ Attempt(parsed, file, env) = Perform(parsed.settings, file, env)
  BY DEF Attempt, Failure, Outcome

LEMMA FileRead ==
  ASSUME NEW f \in Files
  PROVE  f.text \in Seq(Token)
<1>1. f.text \in Seq(STRING)
  BY DEF Files
<1>2. STRING \subseteq Token
  BY DEF Token
<1> QED BY <1>1, <1>2, SeqMonotonic

LEMMA LoadedIs ==
  ASSUME NEW opened, opened.text \in Seq(Token), NEW inspected, NEW required
  PROVE  LoadConfig(opened, inspected, required) \in BaseResults
<1>1. CASE opened.is = "text"
  <2>4. ParseText(opened.text) \in BaseResults
    BY ReadingIs
  <2>5. LoadConfig(opened, inspected, required) = ParseText(opened.text)
    BY <1>1 DEF LoadConfig
  <2> QED BY <2>4, <2>5
<1>2. CASE opened.is # "text"
  BY <1>2, DefaultsAreBase DEF LoadConfig
<1> QED BY <1>1, <1>2

(* What the whole of the parsing gives is the parse over one base.         *)
Stops == {"no-config", "print-config", "write-config", "check-config"}

ParsedOver(argv, r, loaded, base) ==
    /\ After(argv, base)[Len(argv)].kind = "ok" /\ r.settings = After(argv, base)[Len(argv)].settings
    /\ "check-config" \in r.settings.modes => ~GraceWithCheck(argv)
    /\ \/ base = Defaults /\ r.settings.modes \cap Stops # {}
       \/ loaded = Fine(base) /\ r.settings.modes \cap Stops = {}

LEMMA ParsedIs ==
  ASSUME NEW argv \in Seq(Argument), NEW opened, opened.text \in Seq(Token), NEW inspected,
         NEW r, r = ParseAll(argv, opened, inspected), r.kind = "ok"
  PROVE  \E base \in Base : ParsedOver(argv, r, LoadConfig(opened, inspected, FALSE), base)
<1> DEFINE n == Len(argv)
           only == ParseArgs(argv, Defaults)
           loaded == LoadConfig(opened, inspected, FALSE)
<1>1. ASSUME NEW base \in Base, ParseArgs(argv, base).kind = "ok"
      PROVE  /\ ParseArgs(argv, base) = After(argv, base)[n]
             /\ "check-config" \in After(argv, base)[n].settings.modes => ~GraceWithCheck(argv)
  <2>1. ParseArgs(argv, base) = Refusing(After(argv, base)[n], argv)
    BY AfterIs DEF Base
  <2> QED BY <1>1, <2>1 DEF Refusing, Error
<1>2. CASE only.kind = "error" \/ only.settings.modes \cap Stops # {}
  <2>1. r = only
    BY <1>2 DEF ParseAll, OverFile, Stops
  <2>2. Defaults \in Base
    BY DefaultsAreBase
  <2>3. r.settings.modes \cap Stops # {}
    BY <1>2, <2>1
  <2>4. ParsedOver(argv, r, loaded, Defaults)
    BY <1>1, <2>1, <2>2, <2>3 DEF ParsedOver
  <2> QED BY <2>2, <2>4
<1>3. CASE ~(only.kind = "error" \/ only.settings.modes \cap Stops # {})
  <2>1. r = IF loaded.kind = "error" THEN Error ELSE ParseArgs(argv, loaded.settings)
    BY <1>3 DEF ParseAll, OverFile, Stops
  <2>2. loaded \in BaseResults
    BY LoadedIs
  <2>3. loaded.kind = "ok" /\ r = ParseArgs(argv, loaded.settings)
    <3>1. loaded.kind \in {"ok", "error"}
      BY <2>2, ResultIs DEF BaseResults
    <3>2. Error.kind = "error"
      BY DEF Error
    <3> QED BY <2>1, <3>1, <3>2
  <2>4. loaded.settings \in Base /\ loaded = Fine(loaded.settings)
    BY <2>2, <2>3 DEF BaseResults, Results, Fine
  <2> DEFINE base == loaded.settings
             d == Defaults
  <2>5. base \in Base /\ r = ParseArgs(argv, base) /\ loaded = Fine(base) /\ d \in Base
    BY <2>3, <2>4, DefaultsAreBase
  <2> HIDE DEF base, loaded, d
  <2>6. r = After(argv, base)[n] /\ ("check-config" \in r.settings.modes => ~GraceWithCheck(argv))
    BY <1>1, <2>5
  <2>7. n \in 0..Len(argv)
    BY LenProperties
  <2>8. /\ After(argv, base)[n].kind = After(argv, d)[n].kind
        /\ After(argv, base)[n].settings.modes = After(argv, d)[n].settings.modes
    BY <2>5, <2>6, <2>7, SameModes
  <2>9. only = Refusing(After(argv, d)[n], argv)
    <3>1. ParseArgs(argv, d) = Refusing(After(argv, d)[n], argv)
      BY <2>5, AfterIs DEF Base
    <3> QED BY <3>1 DEF d
  <2>10. only = After(argv, d)[n]
    BY <1>3, <2>9 DEF Refusing, Error
  <2>11. r.settings.modes \cap Stops = {}
    BY <1>3, <2>6, <2>8, <2>10
  <2>12. loaded = Fine(base)
    BY <2>5
  <2>13. ParsedOver(argv, r, loaded, base)
    BY <2>6, <2>11, <2>12 DEF ParsedOver
  <2> QED BY <2>5, <2>13 DEF loaded
<1> QED BY <1>2, <1>3

LEMMA ParseAllTyped ==
  ASSUME NEW argv \in Seq(Argument), NEW opened, opened.text \in Seq(Token), NEW inspected
  PROVE  ParseAll(argv, opened, inspected) \in Results
<1> DEFINE n == Len(argv)
<1>1. Error \in Results /\ Defaults \in Base /\ LoadConfig(opened, inspected, FALSE) \in BaseResults
  BY DefaultsAreBase, LoadedIs DEF BaseResults
<1>2. ASSUME NEW base \in Base
      PROVE  ParseArgs(argv, base) \in Results
  <2>1. /\ After(argv, base) \in [0..n -> Results]
        /\ ParseArgs(argv, base) = Refusing(After(argv, base)[n], argv)
    BY AfterIs DEF Base
  <2>2. n \in 0..n
    BY LenProperties
  <2> QED BY <1>1, <2>1, <2>2 DEF Refusing
<1>3. LoadConfig(opened, inspected, FALSE).settings \in Base
  BY <1>1 DEF BaseResults
<1> QED BY <1>1, <1>2, <1>3 DEF ParseAll, OverFile

(* "config OK" is said of the file alone: any option that would change     *)
(* anything is seen in the settings, and a grace period in the arguments.  *)
LEMMA TwoThings ==
  ASSUME NEW a, NEW b, a # b
  PROVE  Cardinality({a, b}) = 2
<1> DEFINE S == {a}
           T == S \cup {b}
<1>1. Cardinality(S) = 1 /\ IsFiniteSet(S)
  BY FS_Singleton
<1>2. b \notin S /\ T = {a, b}
  OBVIOUS
<1> HIDE DEF S
<1>3. Cardinality(T) = Cardinality(S) + 1
  BY <1>1, <1>2, FS_AddElement
<1> HIDE DEF T
<1> QED BY <1>1, <1>2, <1>3

(* One mode is selected, and no other.                                     *)
LEMMA OnlyMode ==
  ASSUME NEW s \in SettingsType, ModeIsClear(s), NEW m \in s.modes, m # "no-config"
  PROVE  s.modes \ {"no-config"} = {m}
<1> DEFINE selected == s.modes \ {"no-config"}
<1>1. Cardinality(selected) <= 1
  BY DEF ModeIsClear
<1>2. IsFiniteSet(selected)
  <2>1. selected \subseteq ModeFlags
    BY Typed
  <2>2. IsFiniteSet(ModeFlags)
    <3>1. ModeFlags = {"explain"} \cup {"print-config"} \cup {"write-config"}
                      \cup {"check-config"} \cup {"no-config"}
      BY DEF ModeFlags
    <3> QED BY <3>1, FS_Singleton, FS_Union
  <2> QED BY <2>1, <2>2, FS_Subset
<1>3. ASSUME NEW x \in selected
      PROVE  x = m
  <2> SUFFICES ASSUME x # m PROVE FALSE
    OBVIOUS
  <2>1. Cardinality({x, m}) = 2
    BY TwoThings
  <2>2. {x, m} \subseteq selected
    OBVIOUS
  <2>3. 2 <= Cardinality(selected) /\ Cardinality(selected) \in Nat
    <3> HIDE DEF selected
    <3> QED BY <1>2, <2>1, <2>2, FS_Subset, FS_CardinalityType
  <2> QED BY <1>1, <2>3
<1> QED BY <1>3

LEMMA CheckAlone ==
  ASSUME NEW argv \in Seq(Argument), NEW file, file.text \in Seq(Token), NEW env
  PROVE  CheckJudgesTheFile(argv, file, env)
<1> DEFINE parsed == ParseAll(argv, file, file)
           n == Len(argv)
<1> SUFFICES ASSUME Invoke(argv, file, file, env).kind = "checked", NEW k \in DOMAIN argv
             PROVE  argv[k] = Flag("check-config")
  BY DEF CheckJudgesTheFile
<1>1. parsed.kind # "error" /\ Perform(parsed.settings, file, env).kind = "checked"
  BY Attempted DEF Invoke
<1>2. parsed \in Results
  BY ParseAllTyped
<1>3. parsed.kind = "ok"
  BY <1>1, <1>2, ResultIs
<1> DEFINE s == parsed.settings
<1>4. ModeIsClear(s) /\ "check-config" \in s.modes
  BY <1>1, Performed
<1>5. /\ s = After(argv, Defaults)[n].settings /\ After(argv, Defaults)[n].kind = "ok"
      /\ ~GraceWithCheck(argv)
  <2> HIDE DEF parsed
  <2>1. parsed = ParseAll(argv, file, file)
    BY DEF parsed
  <2>2. PICK base \in Base : ParsedOver(argv, parsed, LoadConfig(file, file, FALSE), base)
    BY <1>3, <2>1, ParsedIs
  <2> QED BY <1>4, <2>2 DEF ParsedOver, Stops
<1>6. s \in SettingsType
  BY <1>2, ResultIs
<1> HIDE DEF parsed, s
<1>7. /\ s.modes = {"check-config"} /\ ~s.command
      /\ s.flags = {} /\ s.verbosity = 0 /\ s.pdeath = NoValue
      /\ \A key \in ListKeys : s.lists[key] = <<>>
  <2> DEFINE selected == s.modes \ {"no-config"}
  <2>1. /\ Cardinality(selected) <= 1 /\ "check-config" \in selected
        /\ [s EXCEPT !.modes = {"check-config"}, !.command = FALSE]
           = [Defaults EXCEPT !.modes = {"check-config"}]
        /\ "no-config" \notin s.modes /\ ~s.command
    BY <1>4 DEF ModeIsClear
  <2>2. s.modes = {"check-config"}
    <3>1. selected = {"check-config"}
      BY <1>4, <1>6, OnlyMode
    <3> QED BY <2>1, <3>1
  <2>3. /\ s.flags = {} /\ s.verbosity = 0 /\ s.pdeath = NoValue
        /\ s.lists = [key \in ListKeys |-> <<>>]
    <3> DEFINE x == [s EXCEPT !.modes = {"check-config"}, !.command = FALSE]
    <3>1. /\ x.flags = s.flags /\ x.verbosity = s.verbosity /\ x.pdeath = s.pdeath
          /\ x.lists = s.lists
      BY <1>6 DEF SettingsType
    <3>2. x = [Defaults EXCEPT !.modes = {"check-config"}]
      BY <2>1
    <3> HIDE DEF x
    <3> QED BY <3>1, <3>2 DEF Defaults
  <2> QED BY <2>1, <2>2, <2>3
<1> DEFINE after == After(argv, Defaults)
           a == argv[k]
<1>8. n \in Nat /\ \A m \in 1..n : argv[m] \in Argument
  <2>1. \A m \in 1..n : argv[m] \in Argument
    BY ElementOfSeq
  <2> QED BY <2>1, LenProperties
<1>9. k \in 1..n
  BY LenProperties
<1>10. ~Defaults.command /\ Defaults \in SettingsType
  BY DefaultsTyped DEF Defaults
<1>11. NoCommand(argv, n + 1)
  <2> DEFINE C == {m \in 1..n : argv[m].name = "CMD"}
  <2> SUFFICES ASSUME C # {} PROVE FALSE
    BY <1>8 DEF NoCommand
  <2>1. C \subseteq Nat
    OBVIOUS
  <2>2. PICK m \in C : \A l \in C : m <= l
    <3> HIDE DEF C
    <3> QED BY <2>1, Least
  <2>3. NoCommand(argv, m)
    BY <1>8, <2>2 DEF NoCommand
  <2>4. Trace(argv[m], s)
    BY <1>5, <1>10, <2>3, Shows
  <2> QED BY <1>7, <2>4 DEF Trace
<1>12. ASSUME NEW m \in 1..n
       PROVE  NoCommand(argv, m)
  BY <1>8, <1>11 DEF NoCommand
<1>13. Trace(a, s) /\ ~Refused(Defaults, a)
  BY <1>5, <1>9, <1>10, <1>12, Shows
<1>14. a.name # "grace-ms"
  BY <1>5, <1>9, <1>12, LenProperties DEF GraceWithCheck, NoCommand
<1>15. a \in Argument
  BY <1>8, <1>9
<1> HIDE DEF a
<1>16. a.name = "check-config"
  <2>1. \/ a.name = "CMD" \/ a.name = "verbose" \/ a.name \in FlagKeys \/ a.name \in ModeFlags
        \/ a.name \in ListKeys \/ a.name = "grace-ms" \/ a.name = "pdeath"
    BY <1>15, ArgumentKinds
  <2> QED BY <1>7, <1>13, <1>14, <2>1 DEF Trace
<1>17. ~a.attached /\ a.value = NoValue
  <2>1. "check-config" \in ModeFlags
    BY DEF ModeFlags
  <2>2. a.attached \in BOOLEAN /\ a.value = NoValue
    BY <1>15, <1>16, <2>1, ArgumentKinds
  <2>3. a.name # "CMD" /\ a.name \notin ValueOptions
    BY <1>16 DEF ValueOptions, ListKeys, PathKeys, PortKeys
  <2> QED BY <1>13, <1>16, <2>1, <2>2, <2>3 DEF Refused
<1>18. a = [name |-> a.name, attached |-> a.attached, value |-> a.value]
  BY <1>15 DEF Argument
<1>19. a.attached = FALSE
  <2>1. a.attached \in BOOLEAN
    BY <1>15, ArgumentKinds
  <2> QED BY <1>17, <2>1
<1> QED BY <1>16, <1>17, <1>18, <1>19 DEF Flag, a

(* A run goes on only with all that the file asks for, or where there is   *)
(* none.                                                                   *)
LEMMA WithEnvIs ==
  ASSUME NEW s \in SettingsType, NEW env, NEW e, e = WithEnv(s, env)
  PROVE  /\ s.flags \subseteq e.settings.flags /\ e.settings.modes = s.modes
         /\ e.settings.lists = s.lists
         /\ e.settings.grace = s.grace /\ e.settings.pdeath = s.pdeath
         /\ e.settings.verbosity \in Nat /\ e.settings.verbosity >= s.verbosity
<1> DEFINE set == s.flags \cup ({f \in {"subreaper"} : e.subreaper # 0 /\ env.subreaper[e.subreaper] \in Yes}
                \cup {f \in {"pgroup-kill"} : e.pgroup # 0 /\ env.pgroup[e.pgroup] \in Yes})
           verb == IF e.verbosity = 0 THEN s.verbosity ELSE Resolved(Numerals[env.verbosity[e.verbosity]])
<1>1. /\ e.settings = [s EXCEPT !.flags = IF e.warn THEN set \cup {"subreaper"} ELSE set,
                                !.verbosity = verb]
      /\ e.verbosity = Decides(env.verbosity, s.verbosity # 0, Levels)
  BY DEF WithEnv
<1>2. verb \in Nat /\ verb >= s.verbosity
  <2>1. s.verbosity \in 0..255
    BY Typed
  <2>2. CASE e.verbosity = 0
    BY <2>1, <2>2
  <2>3. CASE e.verbosity # 0
    <3>1. s.verbosity = 0 /\ env.verbosity[e.verbosity] \in DOMAIN Numerals
      BY <1>1, <2>3 DEF Decides, Levels
    <3>2. Numerals[env.verbosity[e.verbosity]] \in Nat
      BY <3>1, SettingsAssumption
    <3> QED BY <2>3, <3>1, <3>2 DEF Resolved
  <2> QED BY <2>2, <2>3
<1> HIDE DEF verb
<1>3. s.flags \subseteq set
  OBVIOUS
<1> HIDE DEF set
<1> QED BY <1>1, <1>2, <1>3 DEF SettingsType

(* A verbosity only grows, and the grace period and the parent-death       *)
(* signal change with their own option.                                    *)
Stays(argv, s, t) ==
    /\ t.verbosity >= s.verbosity
    /\ t.grace = s.grace \/ Supplied(argv, "grace-ms")
    /\ t.pdeath = s.pdeath \/ Supplied(argv, "pdeath")

(* Levels of verbosity are ordered.                                        *)
LEMMA LevelIs ==
  ASSUME NEW s \in SettingsType
  PROVE  s.verbosity \in Nat /\ s.verbosity >= s.verbosity
<1>1. s.verbosity \in 0..255
  BY Typed
<1> QED BY <1>1

LEMMA LevelOrder ==
  ASSUME NEW v \in Nat, NEW w \in Nat, NEW x \in Nat, v >= w, w >= x
  PROVE  v >= x
  OBVIOUS

(* One argument keeps all but what it is there to change.                  *)
LEMMA EffectKeeps ==
  ASSUME NEW s \in SettingsType, NEW a \in Argument, NEW t, Effect(s, a, t)
  PROVE  /\ t.verbosity >= s.verbosity
         /\ a.name # "grace-ms" => t.grace = s.grace
         /\ a.name # "pdeath" => t.pdeath = s.pdeath
<1>1. a.value \in Seq(Token)
  BY ArgumentKinds
<1>2. s.verbosity \in 0..255
  BY Typed
<1>3. CASE t = [s EXCEPT !.command = TRUE]
  <2>1. t.verbosity = s.verbosity /\ t.grace = s.grace /\ t.pdeath = s.pdeath
    BY <1>3 DEF SettingsType
  <2> QED BY <1>2, <2>1
<1>4. CASE t = [s EXCEPT !.verbosity = Saturated(s.verbosity)]
  <2>1. Saturated(s.verbosity) >= s.verbosity
    BY <1>2 DEF Saturated
  <2>2. /\ t.verbosity = Saturated(s.verbosity)
        /\ t.grace = s.grace /\ t.pdeath = s.pdeath
    BY <1>4 DEF SettingsType
  <2> QED BY <2>1, <2>2
<1>5. CASE t = [s EXCEPT !.flags = s.flags \cup {a.name}]
  <2>1. t.verbosity = s.verbosity /\ t.grace = s.grace /\ t.pdeath = s.pdeath
    BY <1>5 DEF SettingsType
  <2> QED BY <1>2, <2>1
<1>6. CASE t = [s EXCEPT !.modes = s.modes \cup {a.name}]
  <2>1. t.verbosity = s.verbosity /\ t.grace = s.grace /\ t.pdeath = s.pdeath
    BY <1>6 DEF SettingsType
  <2> QED BY <1>2, <2>1
<1>7. CASE a.name \in ListKeys /\ t = Added(s, a.name, a.value)
  <2>1. t.verbosity = s.verbosity /\ t.grace = s.grace /\ t.pdeath = s.pdeath
    BY <1>1, <1>7, AddedIs
  <2> QED BY <1>2, <2>1
<1>8. CASE a.name = "grace-ms" /\ t = [s EXCEPT !.grace = a.value]
  <2>1. t.verbosity = s.verbosity /\ t.pdeath = s.pdeath
    BY <1>8 DEF SettingsType
  <2> QED BY <1>2, <1>8, <2>1
<1>9. CASE a.name = "pdeath" /\ t = [s EXCEPT !.pdeath = <<SignalNames[a.value[1]]>>]
  <2>1. t.verbosity = s.verbosity /\ t.grace = s.grace
    BY <1>9 DEF SettingsType
  <2> QED BY <1>2, <1>9, <2>1
<1> QED BY <1>3, <1>4, <1>5, <1>6, <1>7, <1>8, <1>9 DEF Effect

(* It does along a whole command line.                                     *)
LEMMA KeptAlong ==
  ASSUME NEW argv \in Seq(Argument), NEW base \in SettingsType, NEW after,
         after = After(argv, base), after[Len(argv)].kind = "ok"
  PROVE  Stays(argv, base, after[Len(argv)].settings)
<1> DEFINE n == Len(argv)
           S == {m \in 0..n : /\ Stays(argv, base, after[m].settings)
                              /\ ~after[m].settings.command => NoCommand(argv, m + 1)}
<1>1. n \in Nat
  BY LenProperties
<1>2. /\ after[0] = Fine(base)
      /\ \A m \in 1..n : after[m] = Applied(after[m - 1], argv[m])
  BY AfterIs
<1>3. 0 \in S
  <2>1. after[0].settings = base
    BY <1>2 DEF Fine
  <2>2. NoCommand(argv, 0 + 1)
    BY DEF NoCommand
  <2>3. Stays(argv, base, base)
    <3>1. base.verbosity >= base.verbosity
      BY LevelIs
    <3> QED BY <3>1 DEF Stays
  <2> QED BY <1>1, <2>1, <2>2, <2>3
<1>4. ASSUME NEW m \in 1..n, m - 1 \in S
      PROVE  m \in S
  <2> DEFINE a == argv[m]
             r == after[m - 1]
             u == after[m]
  <2>1. m \in 0..n /\ m - 1 \in 0..n /\ m \in DOMAIN argv /\ a \in Argument
    BY <1>1, ElementOfSeq, LenProperties
  <2>2. /\ u = Applied(r, a) /\ u.kind = "ok" /\ u.settings \in SettingsType
        /\ r \in Results /\ r.kind = "ok" /\ r.settings \in SettingsType
    BY <1>2, <2>1, AfterIs, Grows
  <2>3. /\ Stays(argv, base, r.settings)
        /\ ~r.settings.command => NoCommand(argv, m)
    BY <1>4
  <2>4. NoCommand(argv, m) => Supplied(argv, a.name)
    BY <2>1 DEF NoCommand, Supplied
  <2>5. NoCommand(argv, m) /\ a.name # "CMD" => NoCommand(argv, m + 1)
    BY DEF NoCommand
  <2> HIDE DEF a, r, u
  <2>6. /\ Stays(argv, base, u.settings)
        /\ ~u.settings.command => NoCommand(argv, m + 1)
    <3>1. CASE r.settings.command
      BY <2>1, <2>2, <2>3, <3>1, AppliedIs
    <3>2. CASE ~r.settings.command
      <4> DEFINE s == r.settings
                 t == u.settings
      <4>1. Effect(s, a, t)
        BY <2>1, <2>2, <3>2, AppliedIs DEF Error
      <4> HIDE DEF s, t
      <4>2. s \in SettingsType /\ t \in SettingsType
        BY <2>2 DEF s, t
      <4>3. /\ t.verbosity >= s.verbosity
            /\ a.name # "grace-ms" => t.grace = s.grace
            /\ a.name # "pdeath" => t.pdeath = s.pdeath
        BY <2>1, <4>1, <4>2, EffectKeeps
      <4>4. /\ s.verbosity >= base.verbosity
            /\ s.grace = base.grace \/ Supplied(argv, "grace-ms")
            /\ s.pdeath = base.pdeath \/ Supplied(argv, "pdeath")
        BY <2>3 DEF Stays, s
      <4>5. t.verbosity >= base.verbosity
        BY <4>2, <4>3, <4>4, LevelIs, LevelOrder
      <4>6. Supplied(argv, a.name)
        BY <2>3, <2>4, <3>2
      <4>7. Stays(argv, base, t)
        BY <4>3, <4>4, <4>5, <4>6 DEF Stays
      <4>8. t.command <=> a.name = "CMD" \/ s.command
        BY <2>1, <4>1, <4>2, EffectModes
      <4> QED BY <2>3, <2>5, <3>2, <4>7, <4>8 DEF s, t
    <3> QED BY <3>1, <3>2
  <2> QED BY <2>1, <2>6 DEF u
<1>5. \A m \in 0..n : m \in S
  <2> HIDE DEF S, n
  <2> QED BY <1>1, <1>3, <1>4, Induction
<1> QED BY <1>1, <1>5

LEMMA AllInForce ==
  ASSUME NEW argv \in Seq(Argument), NEW opened \in Files, NEW inspected \in Files, NEW env
  PROVE  NothingDiscarded(argv, opened, inspected, env)
<1> DEFINE parsed == ParseAll(argv, opened, inspected)
           n == Len(argv)
           o == Invoke(argv, opened, inspected, env)
           f == ParseText(opened.text).settings
           s == parsed.settings
<1> SUFFICES ASSUME o.kind \in {"run", "explained"}, "no-config" \notin o.settings.modes
             PROVE  \/ inspected = Absent /\ opened.is \in {"absent", "dangling"}
                    \/ /\ opened.is = "text"
                       /\ f.flags \subseteq o.settings.flags
                       /\ \A key \in ListKeys : IsPrefix(f.lists[key], o.settings.lists[key])
                       /\ Stays(argv, f, o.settings)
  BY DEF NothingDiscarded, Stays
<1>0. opened.text \in Seq(Token)
  BY FileRead
<1>1. parsed.kind # "error" /\ o = Perform(s, inspected, env)
  BY Attempted DEF Invoke
<1>2. parsed \in Results
  BY <1>0, ParseAllTyped
<1>3. parsed.kind = "ok" /\ s \in SettingsType
  BY <1>1, <1>2, ResultIs
<1>4. /\ s.modes \cap {"check-config", "write-config", "print-config"} = {}
      /\ o = Runs(s, WithEnv(s, env), inspected)
  BY <1>1, Performed
<1>5. o.settings = WithEnv(s, env).settings
  BY <1>4, RunsIs
<1>6. /\ s.flags \subseteq o.settings.flags /\ o.settings.modes = s.modes
      /\ o.settings.lists = s.lists
      /\ o.settings.grace = s.grace /\ o.settings.pdeath = s.pdeath
      /\ o.settings.verbosity \in Nat /\ o.settings.verbosity >= s.verbosity
  BY <1>3, <1>5, WithEnvIs
<1>7. s.modes \cap Stops = {}
  BY <1>4, <1>6 DEF Stops
<1> DEFINE loaded == LoadConfig(opened, inspected, FALSE)
<1>8. PICK base \in Base : ParsedOver(argv, parsed, loaded, base)
  <2> HIDE DEF parsed
  <2>1. parsed = ParseAll(argv, opened, inspected)
    BY DEF parsed
  <2> QED BY <1>0, <1>3, <2>1, ParsedIs
<1> HIDE DEF o, f
<1>9. loaded = Fine(base) /\ After(argv, base)[n].kind = "ok" /\ s = After(argv, base)[n].settings
  BY <1>7, <1>8 DEF ParsedOver
<1>10. CASE opened.is = "text"
  <2>1. f = base
    BY <1>9, <1>10 DEF f, LoadConfig, Fine
  <2>2. base \in SettingsType
    BY DEF Base
  <2>3. IsMore(base, s)
    <3>1. After(argv, base)[0] = Fine(base) /\ 0 \in 0..n
      BY <2>2, AfterIs, LenProperties
    <3>2. IsMore(After(argv, base)[0].settings, After(argv, base)[n].settings)
      BY <1>9, <2>2, <3>1, Grows
    <3> QED BY <1>9, <3>1, <3>2, FineTyped, <2>2
  <2>4. ASSUME NEW key \in ListKeys
        PROVE  IsPrefix(f.lists[key], o.settings.lists[key])
    <3>1. base.lists[key] \in Seq(Seq(Token)) /\ s.lists[key] \in Seq(Seq(Token))
      BY <1>3, <2>2, Typed
    <3>2. Extends(s.lists[key], base.lists[key])
      BY <2>3 DEF IsMore
    <3>3. IsPrefix(base.lists[key], s.lists[key])
      BY <3>1, <3>2, PrefixIs
    <3> QED BY <1>6, <2>1, <3>3
  <2>5. f.flags \subseteq o.settings.flags
    BY <1>6, <2>1, <2>3 DEF IsMore
  <2>6. Stays(argv, f, o.settings)
    <3>1. Stays(argv, base, s)
      BY <1>9, <2>2, KeptAlong
    <3>2. o.settings.verbosity >= base.verbosity
      BY <1>3, <1>6, <2>2, <3>1, LevelIs, LevelOrder DEF Stays
    <3> QED BY <1>6, <2>1, <3>1, <3>2 DEF Stays
  <2> QED BY <1>10, <2>4, <2>5, <2>6
<1>11. CASE opened.is # "text"
  <2>1. loaded # Error
    <3> HIDE DEF loaded, s
    <3>1. Fine(base).kind = "ok" /\ Error.kind = "error"
      BY DEF Fine, Error
    <3> QED BY <1>9, <3>1
  <2>2. opened.is \notin {"irregular", "unreadable"} /\ ~IsThere(inspected)
    BY <1>11, <2>1 DEF LoadConfig
  <2>3. opened.is \in {"absent", "dangling"}
    BY <1>11, <2>2 DEF Files
  <2>4. inspected.is = "absent" /\ inspected.text = <<>>
    BY <2>2 DEF IsThere, Files
  <2>5. inspected = [is |-> inspected.is, text |-> inspected.text]
    BY DEF Files
  <2> QED BY <2>3, <2>4, <2>5 DEF Absent
<1> QED BY <1>10, <1>11

----------------------------------------------------------------------------
(* The sources that --explain names.                                       *)

(* Where there is no file the options alone decide.                        *)
LEMMA NoFile ==
  ASSUME NEW argv \in Seq(Argument), NEW env, NEW r, r = ParseArgs(argv, Defaults)
  PROVE  /\ Invoke(argv, Absent, Absent, env) = Attempt(r, Absent, env)
         /\ r \in Results
<1>1. LoadConfig(Absent, Absent, FALSE) = Fine(Defaults)
  BY DEF LoadConfig, Absent, IsThere
<1>2. ParseAll(argv, Absent, Absent) = r
  <2>1. Fine(Defaults).kind # "error" /\ Fine(Defaults).settings = Defaults
    BY DEF Fine
  <2> QED BY <1>1, <2>1 DEF ParseAll, OverFile
<1>3. r \in Results
  <2> DEFINE n == Len(argv)
  <2>1. /\ After(argv, Defaults) \in [0..n -> Results]
        /\ r = Refusing(After(argv, Defaults)[n], argv)
    BY AfterIs, DefaultsTyped
  <2>2. n \in 0..n
    BY LenProperties
  <2> QED BY <2>1, <2>2, DefaultsTyped DEF Refusing
<1> QED BY <1>2, <1>3 DEF Invoke

(* A flag of the settings in the end is an argument before the command.    *)
LEMMA FlagFrom ==
  ASSUME NEW argv \in Seq(Argument), NEW after, after = After(argv, Defaults),
         NEW f, f \in after[Len(argv)].settings.flags
  PROVE  \E k \in 1..Len(argv) : argv[k].name = f /\ NoCommand(argv, k)
<1> DEFINE n == Len(argv)
           Early(m) == {argv[k].name : k \in {l \in 1..m : NoCommand(argv, l)}}
           S == {m \in 0..n :
                   /\ after[m].settings.flags \subseteq Early(m)
                   /\ after[m].kind = "ok" /\ ~after[m].settings.command => NoCommand(argv, m + 1)}
<1>1. n \in Nat
  BY LenProperties
<1>2. /\ after \in [0..n -> Results] /\ after[0] = Fine(Defaults)
      /\ \A m \in 1..n : after[m] = Applied(after[m - 1], argv[m])
  BY DefaultsTyped, AfterIs
<1>3. 0 \in S
  <2>1. after[0].settings.flags = {}
    BY <1>2 DEF Fine, Defaults
  <2>2. NoCommand(argv, 0 + 1)
    BY DEF NoCommand
  <2> QED BY <1>1, <2>1, <2>2
<1>4. ASSUME NEW m \in 1..n, m - 1 \in S
      PROVE  m \in S
  <2> DEFINE a == argv[m]
             r == after[m - 1]
             u == after[m]
  <2>1. m \in 0..n /\ m - 1 \in 0..n /\ a \in Argument
    BY <1>1, ElementOfSeq
  <2>2. r \in Results /\ u = Applied(r, a)
    BY <1>2, <2>1
  <2>3. Early(m - 1) \subseteq Early(m)
    <3>1. 1..(m - 1) \subseteq 1..m
      OBVIOUS
    <3> QED BY <3>1
  <2>4. /\ r.settings.flags \subseteq Early(m)
        /\ r.kind = "ok" /\ ~r.settings.command => NoCommand(argv, m)
    BY <1>4, <2>3
  <2>5. NoCommand(argv, m) => a.name \in Early(m)
    OBVIOUS
  <2>6. NoCommand(argv, m) /\ a.name # "CMD" => NoCommand(argv, m + 1)
    BY DEF NoCommand
  <2> HIDE DEF Early, a, r, u
  <2>7. /\ u.settings.flags \subseteq Early(m)
        /\ u.kind = "ok" /\ ~u.settings.command => NoCommand(argv, m + 1)
    <3>1. CASE r.kind = "error" \/ r.settings.command
      BY <2>1, <2>2, <2>4, <3>1, AppliedIs
    <3>2. CASE ~(r.kind = "error" \/ r.settings.command)
      <4>1. r.settings \in SettingsType /\ r.kind = "ok" /\ ~r.settings.command
        BY <2>2, <3>2, ResultIs
      <4>2. /\ Refused(r.settings, a) => u = Error
            /\ ~Refused(r.settings, a) => Effect(r.settings, a, u.settings)
        BY <2>1, <2>2, <4>1, AppliedIs
      <4>3. CASE Refused(r.settings, a)
        BY <4>2, <4>3 DEF Error, Defaults
      <4>4. CASE ~Refused(r.settings, a)
        <5>1. /\ u.settings.flags \subseteq r.settings.flags \cup {a.name}
              /\ u.settings.command <=> a.name = "CMD" \/ r.settings.command
          <6> DEFINE x == r.settings
                     y == u.settings
          <6>1. x \in SettingsType /\ Effect(x, a, y)
            BY <4>1, <4>2, <4>4
          <6> HIDE DEF x, y
          <6>2. /\ y.flags = IF a.name \in FlagKeys THEN x.flags \cup {a.name} ELSE x.flags
                /\ y.command <=> a.name = "CMD" \/ x.command
            BY <2>1, <6>1, EffectModes
          <6>3. y.flags \subseteq x.flags \cup {a.name}
            BY <6>2
          <6> QED BY <6>2, <6>3 DEF x, y
        <5> QED BY <2>4, <2>5, <2>6, <4>1, <5>1
      <4> QED BY <4>3, <4>4
    <3> QED BY <3>1, <3>2
  <2> QED BY <2>1, <2>7 DEF u
<1>5. \A m \in 0..n : m \in S
  <2> HIDE DEF S, n
  <2> QED BY <1>1, <1>3, <1>4, Induction
<1>6. f \in Early(n)
  BY <1>1, <1>5
<1> QED BY <1>6

(* The same command line without an option.                                *)
Keeps(argv, name, f) ==
    f = [k \in 0..Len(argv) |->
            IF k = 0 THEN <<>>
            ELSE IF argv[k].name = name THEN f[k - 1] ELSE Append(f[k - 1], argv[k])]

Kept(argv, name) == CHOOSE f : Keeps(argv, name, f)

LEMMA KeptIs ==
  ASSUME NEW argv \in Seq(Argument), NEW name, NEW kept, kept = Kept(argv, name)
  PROVE  /\ kept \in [0..Len(argv) -> Seq(Argument)]
         /\ kept[0] = <<>>
         /\ \A k \in 1..Len(argv) :
              kept[k] = IF argv[k].name = name THEN kept[k - 1] ELSE Append(kept[k - 1], argv[k])
         /\ Without(argv, name) = kept[Len(argv)]
<1> DEFINE n == Len(argv)
           R == Seq(Argument)
           Next2(k, r) == IF argv[k].name = name THEN r ELSE Append(r, argv[k])
           g == [k \in 1..n |-> [r \in R |-> Next2(k, r)]]
<1>1. n \in Nat /\ <<>> \in R
  BY LenProperties, EmptySeq
<1>2. ASSUME NEW k \in 1..n, NEW r \in R
      PROVE  Next2(k, r) \in R
  <2>1. argv[k] \in Argument
    BY ElementOfSeq
  <2>2. Append(r, argv[k]) \in R
    BY <2>1, AppendProperties
  <2> QED BY <2>2
<1> HIDE DEF Next2, R
<1>3. g \in [1..n -> [R -> R]]
  BY <1>2
<1>4. \E f \in [0..n -> R] : f[0] = <<>> /\ \A k \in 1..n : f[k] = g[k][f[k - 1]]
  <2> HIDE DEF n, g
  <2>1. Iterable(n, R, <<>>, g)
    BY <1>1, <1>3, Iterates
  <2> QED BY <2>1 DEF Iterable
<1>5. PICK f \in [0..n -> R] : f[0] = <<>> /\ \A k \in 1..n : f[k] = g[k][f[k - 1]]
  BY <1>4
<1>6. ASSUME NEW k \in 0..n
      PROVE  f[k] = IF k = 0 THEN <<>> ELSE Next2(k, f[k - 1])
  <2>1. CASE k = 0
    BY <1>5, <2>1
  <2>2. CASE k # 0
    <3>1. k \in 1..n /\ k - 1 \in 0..n
      BY <1>1, <2>2
    <3>2. f[k - 1] \in R /\ f[k] = g[k][f[k - 1]]
      BY <1>5, <3>1
    <3>3. g[k][f[k - 1]] = Next2(k, f[k - 1])
      BY <3>1, <3>2
    <3> QED BY <2>2, <3>2, <3>3
  <2> QED BY <2>1, <2>2
<1>7. f = [k \in 0..n |-> f[k]]
  OBVIOUS
<1>8. Keeps(argv, name, f)
  BY <1>6, <1>7 DEF Keeps, Next2
<1>9. Keeps(argv, name, kept)
  BY <1>8 DEF Kept
<1>10. kept[0] = <<>>
  BY <1>1, <1>9 DEF Keeps
<1>11. ASSUME NEW k \in 1..n
       PROVE  kept[k] = Next2(k, kept[k - 1])
  <2>1. k \in 0..n /\ k # 0
    BY <1>1
  <2>2. \A m \in 0..n : kept[m] = IF m = 0 THEN <<>> ELSE Next2(m, kept[m - 1])
    BY <1>9 DEF Keeps, Next2
  <2> QED BY <2>1, <2>2
<1>12. Without(argv, name) = kept[n]
  BY DEF Without, Kept, Keeps
<1> DEFINE S == {k \in 0..n : kept[k] \in R}
<1>13. 0 \in S
  BY <1>1, <1>10
<1>14. ASSUME NEW k \in 1..n, k - 1 \in S
       PROVE  k \in S
  BY <1>1, <1>2, <1>11, <1>14
<1>15. \A k \in 0..n : k \in S
  <2> HIDE DEF S, n
  <2> QED BY <1>1, <1>13, <1>14, Induction
<1>16. \A k \in 0..n : kept[k] \in R
  BY <1>15
<1>17. DOMAIN kept = 0..n /\ kept = [k \in 0..n |-> kept[k]]
  BY <1>9 DEF Keeps
<1>18. kept \in [0..n -> R]
  BY <1>16, <1>17
<1>19. \A k \in 1..n :
         kept[k] = IF argv[k].name = name THEN kept[k - 1] ELSE Append(kept[k - 1], argv[k])
  BY <1>11 DEF Next2
<1> QED BY <1>10, <1>12, <1>18, <1>19 DEF R

(* What is left is what was there, before the command as before.           *)
HasCommand(argv, k) == \E m \in 1..k : argv[m].name = "CMD"
KeptOf(argv, name, k, rest) ==
    /\ \A i \in 1..Len(rest) : rest[i].name # name
    /\ HasCommand(argv, k) => HasCommand(rest, Len(rest))
    /\ \A i \in 1..Len(rest) : NoCommand(rest, i) =>
          \E j \in 1..k : argv[j].name = rest[i].name /\ NoCommand(argv, j)

LEMMA KeptNext ==
  ASSUME NEW argv \in Seq(Argument), NEW name, name # "CMD", NEW k \in 1..Len(argv),
         NEW rest \in Seq(Argument), KeptOf(argv, name, k - 1, rest), NEW next,
         next = IF argv[k].name = name THEN rest ELSE Append(rest, argv[k])
  PROVE  KeptOf(argv, name, k, next)
<1> DEFINE a == argv[k]
           n == Len(rest)
<1>1. Len(argv) \in Nat /\ n \in Nat /\ a \in Argument
  BY LenProperties, ElementOfSeq
<1>2. HasCommand(argv, k) => HasCommand(argv, k - 1) \/ a.name = "CMD"
  BY <1>1 DEF HasCommand
<1>3. CASE a.name = name
  <2>1. next = rest
    BY <1>3
  <2>2. HasCommand(argv, k) => HasCommand(rest, n)
    BY <1>2, <1>3 DEF KeptOf
  <2>3. ASSUME NEW i \in 1..n, NoCommand(rest, i)
        PROVE  \E j \in 1..k : argv[j].name = rest[i].name /\ NoCommand(argv, j)
    <3>1. PICK j \in 1..(k - 1) : argv[j].name = rest[i].name /\ NoCommand(argv, j)
      BY <2>3 DEF KeptOf
    <3>2. j \in 1..k
      BY <1>1
    <3> QED BY <3>1, <3>2
  <2> QED BY <2>1, <2>2, <2>3 DEF KeptOf
<1>4. CASE a.name # name
  <2>1. next = Append(rest, a)
    BY <1>4
  <2>2. /\ Len(next) = n + 1 /\ next[n + 1] = a
        /\ \A i \in 1..n : next[i] = rest[i]
    BY <1>1, <2>1, AppendProperties
  <2> HIDE DEF a, n
  <2>3. ASSUME NEW i \in 1..Len(next)
        PROVE  next[i].name # name
    <3>1. CASE i = n + 1
      BY <1>4, <2>2, <3>1
    <3>2. CASE i # n + 1
      <4>1. i \in 1..n
        BY <1>1, <2>2, <3>2
      <4> QED BY <2>2, <4>1 DEF KeptOf, n
    <3> QED BY <3>1, <3>2
  <2>4. HasCommand(argv, k) => HasCommand(next, Len(next))
    <3>1. CASE a.name = "CMD"
      <4>1. n + 1 \in 1..Len(next) /\ next[n + 1].name = "CMD"
        BY <1>1, <2>2, <3>1
      <4> QED BY <4>1 DEF HasCommand
    <3>2. CASE HasCommand(argv, k - 1)
      <4>1. PICK m \in 1..n : rest[m].name = "CMD"
        BY <3>2 DEF KeptOf, HasCommand, n
      <4>2. m \in 1..Len(next) /\ next[m].name = "CMD"
        BY <1>1, <2>2, <4>1
      <4> QED BY <4>2 DEF HasCommand
    <3> QED BY <1>2, <3>1, <3>2
  <2>5. ASSUME NEW i \in 1..Len(next), NoCommand(next, i)
        PROVE  \E j \in 1..k : argv[j].name = next[i].name /\ NoCommand(argv, j)
    <3>1. CASE i = n + 1
      <4>1. ~HasCommand(rest, n)
        <5>1. \A m \in 1..n : next[m].name # "CMD"
          BY <1>1, <2>5, <3>1 DEF NoCommand
        <5> QED BY <2>2, <5>1 DEF HasCommand
      <4>2. ~HasCommand(argv, k - 1)
        BY <4>1 DEF KeptOf, n
      <4>3. NoCommand(argv, k)
        BY <4>2 DEF HasCommand, NoCommand
      <4>4. k \in 1..k /\ argv[k].name = next[i].name
        BY <2>2, <3>1 DEF a
      <4> QED BY <4>3, <4>4
    <3>2. CASE i # n + 1
      <4>1. i \in 1..n
        BY <1>1, <2>2, <3>2
      <4>2. NoCommand(rest, i)
        <5>1. ASSUME NEW m \in 1..(i - 1)
              PROVE  rest[m].name # "CMD"
          <6>1. m \in 1..n
            BY <1>1, <4>1
          <6> QED BY <2>2, <2>5, <6>1 DEF NoCommand
        <5> QED BY <5>1 DEF NoCommand
      <4>3. PICK j \in 1..(k - 1) : argv[j].name = rest[i].name /\ NoCommand(argv, j)
        BY <4>1, <4>2 DEF KeptOf, n
      <4>4. j \in 1..k /\ argv[j].name = next[i].name
        BY <1>1, <2>2, <4>1, <4>3
      <4> QED BY <4>3, <4>4
    <3> QED BY <3>1, <3>2
  <2> QED BY <2>3, <2>4, <2>5 DEF KeptOf
<1> QED BY <1>3, <1>4

LEMMA WithoutIs ==
  ASSUME NEW argv \in Seq(Argument), NEW name, name # "CMD", NEW rest, rest = Without(argv, name)
  PROVE  rest \in Seq(Argument) /\ KeptOf(argv, name, Len(argv), rest)
<1> DEFINE n == Len(argv)
           kept == Kept(argv, name)
           S == {k \in 0..n : KeptOf(argv, name, k, kept[k])}
<1>1. n \in Nat
  BY LenProperties
<1> HIDE DEF kept
<1>2. /\ kept \in [0..n -> Seq(Argument)] /\ kept[0] = <<>>
      /\ \A k \in 1..n :
           kept[k] = IF argv[k].name = name THEN kept[k - 1] ELSE Append(kept[k - 1], argv[k])
      /\ rest = kept[n]
  BY KeptIs DEF kept
<1>3. 0 \in S
  <2>1. KeptOf(argv, name, 0, <<>>)
    BY EmptySeq DEF KeptOf, HasCommand
  <2> QED BY <1>1, <1>2, <2>1
<1>4. ASSUME NEW k \in 1..n, k - 1 \in S
      PROVE  k \in S
  <2>1. k \in 0..n /\ k - 1 \in 0..n
    BY <1>1
  <2>2. kept[k - 1] \in Seq(Argument) /\ KeptOf(argv, name, k - 1, kept[k - 1])
    BY <1>2, <1>4, <2>1
  <2>3. KeptOf(argv, name, k, kept[k])
    BY <1>2, <2>2, KeptNext
  <2> QED BY <2>1, <2>3
<1>5. \A k \in 0..n : k \in S
  <2> HIDE DEF S, n
  <2> QED BY <1>1, <1>3, <1>4, Induction
<1> QED BY <1>1, <1>2, <1>5

LEMMA ExplainIs ==
  ASSUME NEW m \in ModeFlags
  PROVE  Flag(m) \in Argument /\ Flag(m).name = m /\ m \notin FlagKeys
<1>1. m \notin ValueOptions /\ m \notin FlagKeys
  BY DEF ModeFlags, FlagKeys, ValueOptions, ListKeys, PathKeys, PortKeys
<1> QED BY <1>1 DEF Flag, Argument

(* What is in force comes from the options or, for these two, the          *)
(* environment.                                                            *)
BySub(s, env) == Decides(env.subreaper, "subreaper" \in s.flags, Yes \cup No)
ByGroup(s, env) == Decides(env.pgroup, "pgroup-kill" \in s.flags, Yes \cup No)
ByLevel(s, env) == Decides(env.verbosity, s.verbosity # 0, Levels)
FromEnv(s, env) ==
    {f \in {"subreaper"} : BySub(s, env) # 0 /\ env.subreaper[BySub(s, env)] \in Yes}
    \cup {f \in {"pgroup-kill"} : ByGroup(s, env) # 0 /\ env.pgroup[ByGroup(s, env)] \in Yes}
FlagsOf(s, env) == s.flags \cup FromEnv(s, env)

LEMMA EnvIs ==
  ASSUME NEW s \in SettingsType, NEW env
  PROVE  /\ WithEnv(s, env).subreaper = BySub(s, env)
         /\ WithEnv(s, env).pgroup = ByGroup(s, env)
         /\ WithEnv(s, env).verbosity = ByLevel(s, env)
         /\ WithEnv(s, env).warn
            <=> "warn-on-reap" \in FlagsOf(s, env) /\ "subreaper" \notin FlagsOf(s, env)
         /\ WithEnv(s, env).settings.flags =
               IF WithEnv(s, env).warn THEN FlagsOf(s, env) \cup {"subreaper"} ELSE FlagsOf(s, env)
         /\ WithEnv(s, env).verbosity = 0 => WithEnv(s, env).settings.verbosity = s.verbosity
<1> DEFINE e == WithEnv(s, env)
           verb == IF e.verbosity = 0 THEN s.verbosity
                   ELSE Resolved(Numerals[env.verbosity[e.verbosity]])
<1>1. /\ e.subreaper = BySub(s, env)
      /\ e.pgroup = ByGroup(s, env)
      /\ e.verbosity = ByLevel(s, env)
  BY DEF WithEnv, BySub, ByGroup, ByLevel
<1> USE DEF FlagsOf
<1>2. e.warn <=> "warn-on-reap" \in FlagsOf(s, env) /\ "subreaper" \notin FlagsOf(s, env)
  BY DEF WithEnv, FromEnv, BySub, ByGroup, ByLevel
<1>3. e.settings = [s EXCEPT !.flags = IF e.warn THEN FlagsOf(s, env) \cup {"subreaper"} ELSE FlagsOf(s, env),
                             !.verbosity = verb]
  BY DEF WithEnv, FromEnv, BySub, ByGroup, ByLevel
<1> HIDE DEF verb, FlagsOf
<1>4. /\ e.settings.flags = IF e.warn THEN FlagsOf(s, env) \cup {"subreaper"} ELSE FlagsOf(s, env)
      /\ e.settings.verbosity = verb /\ e.settings.modes = s.modes
  BY <1>3 DEF SettingsType
<1> QED BY <1>1, <1>2, <1>4 DEF verb

LEMMA DecidesIs ==
  ASSUME NEW pair, NEW isSet, NEW good, NEW d, d = Decides(pair, isSet, good)
  PROVE  /\ d \in {0, 1, 2} /\ isSet => d = 0
         /\ d # 0 => pair[d] \in good
  BY DEF Decides, Given

LEMMA Decided ==
  ASSUME NEW s \in SettingsType, NEW env, NEW e, e = WithEnv(s, env)
  PROVE  /\ e.subreaper \in {0, 1, 2} /\ e.pgroup \in {0, 1, 2} /\ e.verbosity \in {0, 1, 2}
         /\ s.verbosity # 0 => e.verbosity = 0
<1>1. /\ e.subreaper = BySub(s, env)
      /\ e.pgroup = ByGroup(s, env)
      /\ e.verbosity = ByLevel(s, env)
  BY EnvIs
<1>2. e.subreaper \in {0, 1, 2}
  BY <1>1 DEF Decides, Given, BySub, ByGroup, ByLevel
<1>3. e.pgroup \in {0, 1, 2}
  BY <1>1 DEF Decides, Given, BySub, ByGroup, ByLevel
<1>4. e.verbosity \in {0, 1, 2} /\ (s.verbosity # 0 => e.verbosity = 0)
  BY <1>1 DEF Decides, Given, BySub, ByGroup, ByLevel
<1> QED BY <1>2, <1>3, <1>4

(* Options that do not ask for the subreaper, nor for the warnings that    *)
(* need it, do not get it unless the environment asks.                     *)
LEMMA NotAsked ==
  ASSUME NEW s \in SettingsType, NEW t \in SettingsType, NEW env,
         "subreaper" \notin s.flags, "subreaper" \notin s.flags \cup FromEnv(s, env),
         "subreaper" \notin t.flags, "warn-on-reap" \notin t.flags
  PROVE  "subreaper" \notin WithEnv(t, env).settings.flags
<1> DEFINE set == FlagsOf(t, env)
<1>1. "subreaper" \notin FromEnv(t, env) /\ "warn-on-reap" \notin FromEnv(t, env)
  <2>1. ("subreaper" \in s.flags) = ("subreaper" \in t.flags)
    OBVIOUS
  <2>2. "subreaper" \notin FromEnv(t, env)
    BY <2>1 DEF FromEnv, BySub
  <2>3. "warn-on-reap" \notin FromEnv(t, env)
    BY DEF FromEnv
  <2> QED BY <2>2, <2>3
<1>2. "subreaper" \notin set /\ "warn-on-reap" \notin set
  BY <1>1 DEF FlagsOf
<1> HIDE DEF set
<1> DEFINE e == WithEnv(t, env)
<1>3. /\ e.warn <=> "warn-on-reap" \in set /\ "subreaper" \notin set
      /\ e.settings.flags = IF e.warn THEN set \cup {"subreaper"} ELSE set
  BY EnvIs DEF set
<1> QED BY <1>2, <1>3

(* Whatever comes of an invocation without a file, it has no flag that the *)
(* options and the environment do not give.                                *)
LEMMA FlagsOnlySo ==
  ASSUME NEW r \in Results, NEW env, NEW f,
         f \in Attempt(r, Absent, env).settings.flags
  PROVE  f \in r.settings.flags \/ f \in WithEnv(r.settings, env).settings.flags
<1> DEFINE s == r.settings
<1>1. Failure(Absent).settings.flags = {}
  BY DEF Failure, Outcome, Defaults
<1>2. ASSUME NEW kind2, NEW file
      PROVE  Outcome(kind2, s, file).settings = s
  BY DEF Outcome
<1>3. CheckConfig(Absent) = Failure(Absent)
  <2>1. LoadConfig(Absent, Absent, TRUE) = Error
    BY DEF LoadConfig, Absent
  <2>2. Error.kind = "error"
    BY DEF Error
  <2> QED BY <2>1, <2>2 DEF CheckConfig, CheckResult
<1>4. ASSUME NEW text
      PROVE  Written(s, text).settings = s \/ Written(s, text).settings.flags = {}
  BY <1>2 DEF Written, Failure, Outcome, Defaults
<1>5. Runs(s, WithEnv(s, env), Absent).settings = WithEnv(s, env).settings
  BY RunsIs
<1> DEFINE o == Attempt(r, Absent, env)
<1>6. \/ o = Failure(Absent) \/ o = CheckConfig(Absent)
      \/ \E text : o = Written(s, text) \/ o = Outcome("printed", s, text)
      \/ o = Runs(s, WithEnv(s, env), Absent)
  BY DEF Attempt, Perform
<1> HIDE DEF o
<1>7. f \in o.settings.flags
  BY DEF o
<1> QED BY <1>1, <1>2, <1>3, <1>4, <1>5, <1>6, <1>7

LEMMA Warned ==
  ASSUME NEW argv \in Seq(Argument), NEW name, name # "CMD", NEW env,
         NEW p, p = ParseArgs(Append(argv, Flag("explain")), Defaults), p.kind = "ok",
         NEW r, r = ParseArgs(Append(Without(argv, name), Flag("explain")), Defaults),
         NEW f \in FlagKeys, f \in r.settings.flags
  PROVE  f \in p.settings.flags /\ f # name
<1> DEFINE x == Flag("explain")
           rest == Without(argv, name)
           A == Append(argv, x)
           B == Append(rest, x)
<1>1. x \in Argument /\ x.name = "explain" /\ "explain" \notin FlagKeys
  BY ExplainIs DEF ModeFlags
<1>2. rest \in Seq(Argument) /\ KeptOf(argv, name, Len(argv), rest)
  BY WithoutIs
<1> HIDE DEF x, rest
<1>3. /\ A \in Seq(Argument) /\ Len(A) = Len(argv) + 1
      /\ \A i \in 1..Len(argv) : A[i] = argv[i]
  BY <1>1, AppendProperties
<1>4. /\ B \in Seq(Argument) /\ Len(B) = Len(rest) + 1 /\ B[Len(rest) + 1] = x
      /\ \A i \in 1..Len(rest) : B[i] = rest[i]
  BY <1>1, <1>2, AppendProperties
<1>5. p = ParseArgs(A, Defaults) /\ r = ParseArgs(B, Defaults)
  BY DEF x, rest
<1> HIDE DEF A, B
<1>6. Defaults \in SettingsType /\ ~Defaults.command /\ Defaults.flags = {}
  BY DefaultsTyped DEF Defaults
<1>7. Len(argv) \in Nat /\ Len(rest) \in Nat
  BY <1>2, LenProperties
<1>8. f \in After(B, Defaults)[Len(B)].settings.flags
  <2>1. r = Refusing(After(B, Defaults)[Len(B)], B)
    BY <1>4, <1>5, <1>6, AfterIs
  <2>2. Error.settings.flags = {}
    BY <1>6 DEF Error
  <2> QED BY <2>1, <2>2 DEF Refusing
<1>9. PICK i \in 1..Len(B) : B[i].name = f /\ NoCommand(B, i)
  BY <1>4, <1>8, FlagFrom
<1>10. i \in 1..Len(rest)
  BY <1>1, <1>4, <1>7, <1>9
<1>11. B[i] = rest[i] /\ NoCommand(rest, i)
  <2>1. ASSUME NEW m \in 1..(i - 1)
        PROVE  rest[m].name # "CMD"
    <3>1. m \in 1..Len(rest)
      BY <1>7, <1>10
    <3> QED BY <1>4, <1>9, <3>1 DEF NoCommand
  <2> QED BY <1>4, <1>10, <2>1 DEF NoCommand
<1>12. f # name
  BY <1>2, <1>9, <1>10, <1>11 DEF KeptOf
<1>13. PICK j \in 1..Len(argv) : argv[j].name = f /\ NoCommand(argv, j)
  BY <1>2, <1>9, <1>10, <1>11 DEF KeptOf
<1>14. j \in 1..Len(A) /\ A[j].name = f /\ NoCommand(A, j)
  <2>1. ASSUME NEW m \in 1..(j - 1)
        PROVE  A[m].name # "CMD"
    <3>1. m \in 1..Len(argv)
      BY <1>7, <1>13
    <3> QED BY <1>3, <1>13, <3>1 DEF NoCommand
  <2> QED BY <1>3, <1>7, <1>13, <2>1 DEF NoCommand
<1>15. p = After(A, Defaults)[Len(A)]
  <2>1. p = Refusing(After(A, Defaults)[Len(A)], A)
    BY <1>3, <1>5, <1>6, AfterIs
  <2> QED BY <2>1 DEF Refusing, Error
<1>16. Trace(A[j], p.settings)
  BY <1>3, <1>6, <1>14, <1>15, Shows
<1> QED BY <1>12, <1>14, <1>16 DEF Trace

LEMMA NotPositive ==
  ASSUME NEW n \in 0..255, ~(n > 0)
  PROVE  n = 0
  OBVIOUS

LEMMA SourcesRight ==
  ASSUME NEW argv \in Seq(Argument), NEW env
  PROVE  SourcesAccount(argv, env)
<1> DEFINE x == Flag("explain")
           Explained(a, e) == Invoke(Append(a, x), Absent, Absent, e)
           On(a, e, flag) == flag \in Explained(a, e).settings.flags
           Accounts(source, flag, pair) ==
             CASE source = "configured" -> On(argv, Silent, flag)
               [] source = "--warn-on-reap" ->
                     On(argv, env, flag) /\ ~On(Without(argv, "warn-on-reap"), env, flag)
               [] source = "TINO" -> On(argv, env, flag) = (pair[1] \in Yes)
               [] source = "TINI" -> On(argv, env, flag) = (pair[2] \in Yes)
               [] source = "default" -> ~On(argv, env, flag)
           o == Explained(argv, env)
           p == ParseArgs(Append(argv, x), Defaults)
           s == p.settings
           W(e) == WithEnv(s, e)
<1> SUFFICES ASSUME o.kind = "explained"
             PROVE  /\ Accounts(o.subreaper, "subreaper", env.subreaper)
                    /\ Accounts(o.pgroup, "pgroup-kill", env.pgroup)
                    /\ o.verbosity = "configured" =>
                          o.settings.verbosity = Explained(argv, Silent).settings.verbosity
                    /\ o.verbosity = "default" => o.settings.verbosity = 0
  BY DEF SourcesAccount
<1>1. x \in Argument
  BY ExplainIs DEF ModeFlags
<1>2. ASSUME NEW a \in Seq(Argument), NEW e
      PROVE  /\ Explained(a, e) = Attempt(ParseArgs(Append(a, x), Defaults), Absent, e)
             /\ ParseArgs(Append(a, x), Defaults) \in Results
  <2>1. Append(a, x) \in Seq(Argument)
    BY <1>1, AppendProperties
  <2> QED BY <2>1, NoFile
<1>3. o = Attempt(p, Absent, env) /\ p \in Results
  BY <1>2
<1>4. p.kind = "ok" /\ s \in SettingsType /\ o = Perform(s, Absent, env)
  BY <1>3, Attempted, ResultIs
<1>5. /\ ModeIsClear(s) /\ PolicyIsSound(s)
      /\ s.modes \cap {"check-config", "write-config", "print-config"} = {}
      /\ s.command \/ "explain" \in s.modes
      /\ o = Runs(s, W(env), Absent)
  BY <1>4, Performed
<1>6. ASSUME NEW e
      PROVE  Explained(argv, e) = Runs(s, W(e), Absent)
  <2>1. Explained(argv, e) = Attempt(p, Absent, e)
    BY <1>2
  <2>2. Attempt(p, Absent, e) = Perform(s, Absent, e)
    BY <1>4 DEF Attempt
  <2>3. Perform(s, Absent, e) = Runs(s, W(e), Absent)
    BY <1>5 DEF Perform
  <2> QED BY <2>1, <2>2, <2>3
<1>7. ASSUME NEW e
      PROVE  Explained(argv, e).settings = W(e).settings
  BY <1>6, RunsIs
<1>8. /\ o.subreaper = SubreaperSource(s, W(env)) /\ o.pgroup = PgroupSource(s, W(env))
      /\ o.verbosity = VerbositySource(s, W(env)) /\ o.settings = W(env).settings
  BY <1>5, RunsIs
<1>9. ASSUME NEW flag \in s.flags, NEW e
      PROVE  On(argv, e, flag)
  <2>1. s.flags \subseteq W(e).settings.flags
    BY <1>4, WithEnvIs
  <2> QED BY <1>7, <2>1
<1> HIDE DEF x, p, s
<1> DEFINE set == FlagsOf(s, env)
           w == W(env)
<1>10. /\ w.subreaper = BySub(s, env)
       /\ w.pgroup = ByGroup(s, env)
       /\ w.verbosity = ByLevel(s, env)
       /\ w.warn <=> "warn-on-reap" \in set /\ "subreaper" \notin set
       /\ w.settings.flags = IF w.warn THEN set \cup {"subreaper"} ELSE set
       /\ w.verbosity = 0 => w.settings.verbosity = s.verbosity
  BY <1>4, EnvIs
<1> HIDE DEF w
<1>11. /\ "subreaper" \in set <=> \/ "subreaper" \in s.flags
                                  \/ w.subreaper # 0 /\ env.subreaper[w.subreaper] \in Yes
       /\ "pgroup-kill" \in set <=> \/ "pgroup-kill" \in s.flags
                                    \/ w.pgroup # 0 /\ env.pgroup[w.pgroup] \in Yes
  <2>1. FromEnv(s, env) = {f \in {"subreaper"} : w.subreaper # 0 /\ env.subreaper[w.subreaper] \in Yes}
                         \cup {f \in {"pgroup-kill"} : w.pgroup # 0 /\ env.pgroup[w.pgroup] \in Yes}
    BY <1>10 DEF FromEnv
  <2> QED BY <2>1 DEF FlagsOf
<1>12. /\ w.subreaper \in {0, 1, 2} /\ w.pgroup \in {0, 1, 2} /\ w.verbosity \in {0, 1, 2}
  BY <1>4, Decided DEF w
<1>13. \A flag : On(argv, env, flag) <=> flag \in w.settings.flags
  BY <1>7 DEF w
<1>20. o.settings = w.settings
  BY <1>8 DEF w
<1> HIDE DEF Explained, W, set, w, p, s, o
<1>14. Accounts(o.subreaper, "subreaper", env.subreaper)
  <2>1. CASE "subreaper" \in s.flags
    <3>1. o.subreaper = "configured"
      BY <1>8, <2>1 DEF SubreaperSource, w
    <3>2. On(argv, Silent, "subreaper")
      BY <1>9, <2>1
    <3> HIDE DEF On
    <3> QED BY <3>1, <3>2
  <2>2. CASE "subreaper" \notin s.flags /\ w.warn
    <3>1. o.subreaper = "--warn-on-reap"
      BY <1>8, <2>2 DEF SubreaperSource, w
    <3>2. On(argv, env, "subreaper")
      BY <1>10, <1>13, <2>2
    <3>3. ~On(Without(argv, "warn-on-reap"), env, "subreaper")
      <4> DEFINE rest == Without(argv, "warn-on-reap")
                 r == ParseArgs(Append(rest, x), Defaults)
                 t == r.settings
      <4>1. rest \in Seq(Argument)
        BY WithoutIs
      <4>2. Explained(rest, env) = Attempt(r, Absent, env) /\ r \in Results
        BY <1>2, <4>1
      <4>3. t \in SettingsType
        BY <4>2, ResultIs
      <4>4. "subreaper" \notin t.flags /\ "warn-on-reap" \notin t.flags
        <5>1. ASSUME NEW f \in FlagKeys, f \in t.flags
              PROVE  f \in s.flags /\ f # "warn-on-reap"
          BY <1>4, <5>1, Warned DEF s, p, x
        <5>2. "subreaper" \in FlagKeys /\ "warn-on-reap" \in FlagKeys
          BY DEF FlagKeys
        <5> QED BY <2>2, <5>1, <5>2
      <4>5. "subreaper" \notin s.flags \cup FromEnv(s, env)
        BY <1>10, <2>2 DEF set, FlagsOf
      <4> HIDE DEF rest, r, t
      <4>6. "subreaper" \notin WithEnv(t, env).settings.flags
        BY <1>4, <2>2, <4>3, <4>4, <4>5, NotAsked
      <4>7. "subreaper" \notin Explained(rest, env).settings.flags
        BY <4>2, <4>4, <4>6, FlagsOnlySo DEF t
      <4> QED BY <4>7 DEF rest
    <3> HIDE DEF On
    <3> QED BY <3>1, <3>2, <3>3
  <2>3. CASE "subreaper" \notin s.flags /\ ~w.warn
    <3>1. o.subreaper = Named(w.subreaper)
      BY <1>8, <2>3 DEF SubreaperSource, w
    <3>2. On(argv, env, "subreaper") <=> "subreaper" \in set
      BY <1>10, <1>13, <2>3
    <3>3. CASE w.subreaper = 0
      <4>1. o.subreaper = "default" /\ ~On(argv, env, "subreaper")
        BY <1>11, <2>3, <3>1, <3>2, <3>3 DEF Named
      <4> HIDE DEF On
      <4> QED BY <4>1
    <3>4. CASE w.subreaper = 1
      <4>1. o.subreaper = "TINO" /\ (On(argv, env, "subreaper") <=> env.subreaper[1] \in Yes)
        BY <1>11, <2>3, <3>1, <3>2, <3>4 DEF Named
      <4>2. On(argv, env, "subreaper") = (env.subreaper[1] \in Yes)
        BY <4>1
      <4> HIDE DEF On
      <4> QED BY <4>1, <4>2
    <3>5. CASE w.subreaper = 2
      <4>1. o.subreaper = "TINI" /\ (On(argv, env, "subreaper") <=> env.subreaper[2] \in Yes)
        BY <1>11, <2>3, <3>1, <3>2, <3>5 DEF Named
      <4>2. On(argv, env, "subreaper") = (env.subreaper[2] \in Yes)
        BY <4>1
      <4> HIDE DEF On
      <4> QED BY <4>1, <4>2
    <3> QED BY <1>12, <3>3, <3>4, <3>5
  <2> QED BY <2>1, <2>2, <2>3
<1>15. Accounts(o.pgroup, "pgroup-kill", env.pgroup)
  <2>1. CASE "pgroup-kill" \in s.flags
    <3>1. o.pgroup = "configured"
      BY <1>8, <2>1 DEF PgroupSource, w
    <3>2. On(argv, Silent, "pgroup-kill")
      BY <1>9, <2>1
    <3> HIDE DEF On
    <3> QED BY <3>1, <3>2
  <2>2. CASE "pgroup-kill" \notin s.flags
    <3>1. o.pgroup = Named(w.pgroup)
      BY <1>8, <2>2 DEF PgroupSource, w
    <3>2. On(argv, env, "pgroup-kill") <=> "pgroup-kill" \in set
      <4>1. "pgroup-kill" \in w.settings.flags <=> "pgroup-kill" \in set
        BY <1>10
      <4> QED BY <1>13, <4>1
    <3>3. CASE w.pgroup = 0
      <4>1. o.pgroup = "default" /\ ~On(argv, env, "pgroup-kill")
        BY <1>11, <2>2, <3>1, <3>2, <3>3 DEF Named
      <4> HIDE DEF On
      <4> QED BY <4>1
    <3>4. CASE w.pgroup = 1
      <4>1. o.pgroup = "TINO" /\ (On(argv, env, "pgroup-kill") <=> env.pgroup[1] \in Yes)
        BY <1>11, <2>2, <3>1, <3>2, <3>4 DEF Named
      <4>2. On(argv, env, "pgroup-kill") = (env.pgroup[1] \in Yes)
        BY <4>1
      <4> HIDE DEF On
      <4> QED BY <4>1, <4>2
    <3>5. CASE w.pgroup = 2
      <4>1. o.pgroup = "TINI" /\ (On(argv, env, "pgroup-kill") <=> env.pgroup[2] \in Yes)
        BY <1>11, <2>2, <3>1, <3>2, <3>5 DEF Named
      <4>2. On(argv, env, "pgroup-kill") = (env.pgroup[2] \in Yes)
        BY <4>1
      <4> HIDE DEF On
      <4> QED BY <4>1, <4>2
    <3> QED BY <1>12, <3>3, <3>4, <3>5
  <2> QED BY <2>1, <2>2
<1>16. ASSUME o.verbosity = "configured"
       PROVE  o.settings.verbosity = Explained(argv, Silent).settings.verbosity
  <2>1. s.verbosity > 0
    <3>1. o.verbosity = IF s.verbosity > 0 THEN "configured" ELSE Named(w.verbosity)
      BY <1>8 DEF VerbositySource, w
    <3>3. Named(w.verbosity) # "configured"
      BY <1>12 DEF Named
    <3> QED BY <1>16, <3>1, <3>3
  <2>2. ASSUME NEW e
        PROVE  W(e).settings.verbosity = s.verbosity
    <3> DEFINE v == W(e)
    <3>1. v.verbosity = 0
      BY <1>4, <2>1, Decided DEF W
    <3>2. v.verbosity = 0 => v.settings.verbosity = s.verbosity
      <4>1. v = WithEnv(s, e)
        BY DEF W
      <4> HIDE DEF v
      <4> QED BY <1>4, <4>1, EnvIs
    <3> QED BY <3>1, <3>2
  <2> QED BY <1>7, <1>8, <2>2
<1>17. ASSUME o.verbosity = "default"
       PROVE  o.settings.verbosity = 0
  <2>1. o.verbosity = IF s.verbosity > 0 THEN "configured" ELSE Named(w.verbosity)
    BY <1>8 DEF VerbositySource, w
  <2>2. ~(s.verbosity > 0) /\ Named(w.verbosity) = "default"
    <3>1. ~(s.verbosity > 0)
      BY <1>17, <2>1
    <3> QED BY <1>17, <2>1, <3>1
  <2>3. s.verbosity \in 0..255
    <3>1. s \in SettingsType
      BY <1>4
    <3> QED BY <3>1, Typed
  <2>5. w.verbosity = 0
    BY <1>12, <2>2 DEF Named
  <2>6. w.settings.verbosity = s.verbosity
    BY <1>10, <2>5
  <2>7. s.verbosity = 0
    <3>1. s.verbosity \in 0..255
      BY <2>3
    <3>2. ~(s.verbosity > 0)
      BY <2>2
    <3> QED BY <3>1, <3>2, NotPositive
  <2> QED BY <1>20, <2>6, <2>7
<1> QED BY <1>14, <1>15, <1>16, <1>17

(* Whatever the command line, the file at each look and the environment, a *)
(* run leaves out nothing the file says and a check judges nothing but the *)
(* file (cli.rs, load_config; platform/mod.rs, check_config_inline_option).*)
THEOREM FileAlwaysDecides ==
  ASSUME IsCase
  PROVE  FileDecides
<1>1. ASSUME kind = "lookup"
      PROVE  NothingDiscarded(input.argv, input.opened, input.inspected, input.env)
  BY <1>1, AllInForce DEF IsCase
<1>2. ASSUME kind = "options"
      PROVE  CheckJudgesTheFile(Append(input.argv, Flag("check-config")),
                                TextFile(<<"subreaper", "nl">>), input.env)
  <2> DEFINE x == Flag("check-config")
             argv == Append(input.argv, x)
             file == TextFile(<<"subreaper", "nl">>)
  <2>1. x \in Argument
    BY ExplainIs DEF ModeFlags
  <2>2. input.argv \in Seq(Argument)
    BY <1>2 DEF IsCase
  <2>3. argv \in Seq(Argument)
    <3> HIDE DEF x
    <3> QED BY <2>1, <2>2, AppendProperties
  <2>4. file.text \in Seq(Token)
    <3>1. "subreaper" \in Token /\ "nl" \in Token
      BY DEF Token, FlagKeys
    <3>2. <<"subreaper", "nl">> \in Seq(Token)
      BY <3>1
    <3> QED BY <3>2 DEF TextFile
  <2> HIDE DEF argv, file
  <2>5. CheckJudgesTheFile(argv, file, input.env)
    BY <2>3, <2>4, CheckAlone
  <2> QED BY <2>5 DEF argv, file
<1> QED BY <1>1, <1>2 DEF FileDecides

(* Whatever the command line and the environment, the source --explain     *)
(* names for a setting accounts for it (platform/mod.rs, subreaper_source, *)
(* pgroup_kill_source, verbosity_source).                                  *)
THEOREM SourceAlwaysDecides ==
  ASSUME IsCase
  PROVE  SourceDecides
BY SourcesRight DEF IsCase, SourceDecides

----------------------------------------------------------------------------
(* What is written is read back.                                           *)
(*                                                                         *)
(* A text that is put together of parts: SoFar(seqs)[i] is that of the     *)
(* first i parts.                                                          *)
Flattens(seqs, f) ==
    f = [i \in 1..Len(seqs) |-> IF i = 1 THEN seqs[i] ELSE f[i - 1] \o seqs[i]]
SoFar(seqs) ==
    [k \in 0..Len(seqs) |-> IF k = 0 THEN <<>> ELSE (CHOOSE f : Flattens(seqs, f))[k]]
Parts(seqs, S, h) ==
    /\ h \in [0..Len(seqs) -> Seq(S)] /\ h[0] = <<>>
    /\ \A k \in 1..Len(seqs) : h[k] = h[k - 1] \o seqs[k]
    /\ FlattenSeq(seqs) = h[Len(seqs)]

SeqsOf(S) == Seq(Seq(S))

LEMMA SeqsAre ==
  ASSUME NEW S, NEW seqs \in SeqsOf(S)
  PROVE  /\ Len(seqs) \in Nat /\ DOMAIN seqs = 1..Len(seqs)
         /\ \A i \in 1..Len(seqs) : seqs[i] \in Seq(S)
         /\ Len(seqs) = 0 => seqs = <<>>
<1> DEFINE R == Seq(S)
<1>1. seqs \in Seq(R)
  BY DEF SeqsOf
<1> HIDE DEF R
<1>2. Len(seqs) \in Nat /\ DOMAIN seqs = 1..Len(seqs)
  BY <1>1, LenProperties
<1>3. \A i \in 1..Len(seqs) : seqs[i] \in R
  BY <1>1, ElementOfSeq
<1>4. Len(seqs) = 0 => seqs = <<>>
  BY <1>1, EmptySeq
<1> QED BY <1>2, <1>3, <1>4 DEF R

LEMMA FlattenIs ==
  ASSUME NEW S, NEW seqs \in SeqsOf(S)
  PROVE  Parts(seqs, S, SoFar(seqs))
<1> DEFINE n == Len(seqs)
           R == Seq(S)
           g == [k \in 1..n |-> [r \in R |-> r \o seqs[k]]]
           h == SoFar(seqs)
           flat == CHOOSE f : Flattens(seqs, f)
<1>1. n \in Nat /\ <<>> \in R
  BY SeqsAre, EmptySeq
<1>2. ASSUME NEW k \in 1..n, NEW r \in R
      PROVE  r \o seqs[k] \in R
  <2>1. seqs[k] \in R
    BY SeqsAre
  <2> QED BY <2>1, ConcatProperties
<1> HIDE DEF R
<1>3. g \in [1..n -> [R -> R]]
  BY <1>2
<1>4. \E f \in [0..n -> R] : f[0] = <<>> /\ \A k \in 1..n : f[k] = g[k][f[k - 1]]
  <2> HIDE DEF n, g
  <2>1. Iterable(n, R, <<>>, g)
    BY <1>1, <1>3, Iterates
  <2> QED BY <2>1 DEF Iterable
<1>5. PICK f \in [0..n -> R] : f[0] = <<>> /\ \A k \in 1..n : f[k] = g[k][f[k - 1]]
  BY <1>4
<1>6. ASSUME NEW k \in 1..n
      PROVE  f[k] = f[k - 1] \o seqs[k]
  <2>1. k - 1 \in 0..n /\ f[k - 1] \in R
    BY <1>1
  <2> QED BY <1>5, <2>1
<1> DEFINE e == [i \in 1..n |-> f[i]]
<1>7. Flattens(seqs, e)
  <2>1. ASSUME NEW i \in 1..n
        PROVE  e[i] = IF i = 1 THEN seqs[i] ELSE e[i - 1] \o seqs[i]
    <3>1. CASE i = 1
      <4>1. seqs[1] \in R
        BY <3>1, SeqsAre DEF R
      <4>2. <<>> \o seqs[1] = seqs[1]
        BY <4>1, ConcatEmptySeq DEF R
      <4>3. f[1] = f[0] \o seqs[1]
        <5>1. f[i] = f[i - 1] \o seqs[i]
          BY <1>6
        <5>2. i - 1 = 0
          BY <3>1
        <5> HIDE DEF n
        <5> QED BY <3>1, <5>1, <5>2
      <4> QED BY <1>5, <3>1, <4>2, <4>3
    <3>2. CASE i # 1
      <4>1. i - 1 \in 1..n
        BY <1>1, <3>2
      <4> QED BY <1>6, <3>2, <4>1
    <3> QED BY <3>1, <3>2
  <2>2. e = [i \in 1..n |-> IF i = 1 THEN seqs[i] ELSE e[i - 1] \o seqs[i]]
    BY <2>1
  <2> QED BY <2>2 DEF Flattens
<1> HIDE DEF e
<1>8. Flattens(seqs, flat)
  BY <1>7
<1> HIDE DEF flat
<1>9. \A i \in 1..n : flat[i] = IF i = 1 THEN seqs[i] ELSE flat[i - 1] \o seqs[i]
  BY <1>8 DEF Flattens
<1>10. h = [k \in 0..n |-> IF k = 0 THEN <<>> ELSE flat[k]]
  BY DEF SoFar, flat
<1> HIDE DEF h
<1>11. h[0] = <<>>
  BY <1>1, <1>10
<1>12. ASSUME NEW k \in 1..n
       PROVE  h[k] = h[k - 1] \o seqs[k]
  <2>1. h[k] = flat[k] /\ k - 1 \in 0..n
    BY <1>1, <1>10
  <2>2. CASE k = 1
    <3>1. seqs[1] \in R
      BY <2>2, SeqsAre DEF R
    <3>2. <<>> \o seqs[1] = seqs[1]
      BY <3>1, ConcatEmptySeq DEF R
    <3>3. flat[1] = seqs[1]
      BY <1>9, <2>2
    <3> QED BY <1>11, <2>1, <2>2, <3>2, <3>3
  <2>3. CASE k # 1
    <3>1. flat[k] = flat[k - 1] \o seqs[k]
      BY <1>9, <2>3
    <3>2. h[k - 1] = flat[k - 1]
      BY <1>10, <2>1, <2>3
    <3> QED BY <2>1, <3>1, <3>2
  <2> QED BY <2>2, <2>3
<1> DEFINE T == {k \in 0..n : h[k] \in R}
<1>13. \A k \in 0..n : k \in T
  <2>1. 0 \in T
    BY <1>1, <1>11
  <2>2. ASSUME NEW k \in 1..n, k - 1 \in T
        PROVE  k \in T
    <3>1. h[k - 1] \in R
      BY <2>2
    <3>2. h[k - 1] \o seqs[k] \in R
      BY <1>2, <3>1
    <3>3. h[k] \in R
      BY <1>12, <3>2
    <3> QED BY <3>3
  <2> HIDE DEF T, n
  <2> QED BY <1>1, <2>1, <2>2, Induction
<1>14. h \in [0..n -> R]
  <2>1. \A k \in 0..n : h[k] \in R
    BY <1>13
  <2> QED BY <1>10, <2>1
<1>15. FlattenSeq(seqs) = h[n]
  <2>1. CASE n = 0
    <3>1. seqs = <<>>
      BY <2>1, SeqsAre
    <3> QED BY <1>11, <2>1, <3>1 DEF FlattenSeq
  <2>2. CASE n # 0
    <3>1. FlattenSeq(seqs) = flat[n]
      BY <2>2 DEF FlattenSeq, flat, Flattens
    <3> QED BY <1>1, <1>10, <2>2, <3>1
  <2> QED BY <2>1, <2>2
<1> QED BY <1>11, <1>12, <1>14, <1>15 DEF Parts, R

(* Where a part lies in the text of the first j, and that every place of   *)
(* the text is in a part.                                                  *)
Lies(seqs, h, i, j) ==
    /\ Len(h[i - 1]) \in Nat /\ Len(seqs[i]) \in Nat /\ Len(h[j]) \in Nat
    /\ Len(h[i]) = Len(h[i - 1]) + Len(seqs[i])
    /\ Len(h[i]) <= Len(h[j])
    /\ \A p \in 1..Len(seqs[i]) : h[j][Len(h[i - 1]) + p] = seqs[i][p]

LEMMA PartLies ==
  ASSUME NEW S, NEW seqs \in SeqsOf(S), NEW h, Parts(seqs, S, h),
         NEW i \in 1..Len(seqs), NEW j \in i..Len(seqs)
  PROVE  Lies(seqs, h, i, j)
<1> DEFINE n == Len(seqs)
           a == Len(h[i - 1])
           b == Len(seqs[i])
<1>1. n \in Nat
  BY SeqsAre
<1>2. ASSUME NEW k \in 0..n
      PROVE  h[k] \in Seq(S) /\ Len(h[k]) \in Nat
  <2>1. h[k] \in Seq(S)
    BY DEF Parts
  <2> QED BY <2>1, LenProperties
<1>3. ASSUME NEW k \in 1..n
      PROVE  /\ seqs[k] \in Seq(S) /\ Len(seqs[k]) \in Nat /\ k - 1 \in 0..n
             /\ Len(h[k]) = Len(h[k - 1]) + Len(seqs[k])
             /\ \A p \in 1..(Len(h[k - 1]) + Len(seqs[k])) :
                  h[k][p] = IF p <= Len(h[k - 1]) THEN h[k - 1][p] ELSE seqs[k][p - Len(h[k - 1])]
  <2>1. seqs[k] \in Seq(S)
    BY SeqsAre
  <2>2. k - 1 \in 0..n
    BY <1>1
  <2>3. h[k - 1] \in Seq(S) /\ h[k] = h[k - 1] \o seqs[k]
    BY <1>2, <2>2 DEF Parts
  <2> DEFINE x == h[k - 1]
             y == seqs[k]
             z == h[k]
  <2>4. x \in Seq(S) /\ y \in Seq(S) /\ z = x \o y
    BY <2>1, <2>3
  <2> HIDE DEF x, y, z
  <2>5. /\ Len(y) \in Nat /\ Len(z) = Len(x) + Len(y)
        /\ \A p \in 1..(Len(x) + Len(y)) : z[p] = IF p <= Len(x) THEN x[p] ELSE y[p - Len(x)]
    BY <2>4, ConcatProperties, LenProperties
  <2> QED BY <2>1, <2>2, <2>5 DEF x, y, z
<1> DEFINE Holds(k) == a + b <= Len(h[k]) /\ \A p \in 1..b : h[k][a + p] = seqs[i][p]
           T == {m \in 0..(n - i) : Holds(i + m)}
<1>4. i \in 1..n /\ n - i \in Nat /\ a \in Nat /\ b \in Nat
  <2>1. i - 1 \in 0..n
    BY <1>1
  <2> QED BY <1>1, <1>2, <1>3, <2>1
<1>5. 0 \in T
  <2>1. Len(h[i]) = a + b
    BY <1>3
  <2>2. ASSUME NEW p \in 1..b
        PROVE  h[i][a + p] = seqs[i][p]
    <3> HIDE DEF a, b
    <3>1. a + p \in 1..(a + b) /\ ~(a + p <= a) /\ a + p - a = p
      BY <1>4
    <3>2. \A r \in 1..(a + b) : h[i][r] = IF r <= a THEN h[i - 1][r] ELSE seqs[i][r - a]
      BY <1>3 DEF a, b
    <3> DEFINE r == a + p
    <3>3. r \in 1..(a + b) /\ ~(r <= a) /\ r - a = p
      BY <1>4
    <3> HIDE DEF r
    <3>4. h[i][r] = seqs[i][r - a]
      BY <3>2, <3>3
    <3> QED BY <3>3, <3>4 DEF r
  <2>3. i + 0 = i /\ 0 \in 0..(n - i) /\ a + b <= Len(h[i])
    BY <1>4, <2>1
  <2> HIDE DEF a, b
  <2> QED BY <2>2, <2>3
<1>6. ASSUME NEW m \in 1..(n - i), m - 1 \in T
      PROVE  m \in T
  <2> DEFINE k == i + m
  <2>1. k \in 1..n /\ k - 1 = i + (m - 1)
    BY <1>1, <1>4
  <2>2. Holds(k - 1)
    BY <1>6, <2>1
  <2> HIDE DEF k
  <2>3. /\ Len(h[k]) = Len(h[k - 1]) + Len(seqs[k]) /\ Len(seqs[k]) \in Nat
        /\ Len(h[k - 1]) \in Nat
    BY <1>2, <1>3, <2>1
  <2>4. ASSUME NEW p \in 1..b
        PROVE  h[k][a + p] = seqs[i][p]
    <3> HIDE DEF a, b
    <3>1. a + p \in 1..(Len(h[k - 1]) + Len(seqs[k])) /\ a + p <= Len(h[k - 1])
      <4> DEFINE x == Len(h[k - 1])
                 y == Len(seqs[k])
      <4>1. x \in Nat /\ y \in Nat /\ a + b <= x
        BY <2>2, <2>3
      <4> HIDE DEF x, y
      <4>2. a + p \in 1..(x + y) /\ a + p <= x
        BY <1>4, <4>1
      <4> QED BY <4>2 DEF x, y
    <3>2. h[k][a + p] = h[k - 1][a + p]
      BY <1>3, <2>1, <3>1
    <3> QED BY <2>2, <3>2
  <2>5. Holds(k)
    <3> DEFINE x == Len(h[k - 1])
               y == Len(seqs[k])
               z == Len(h[k])
    <3>1. x \in Nat /\ y \in Nat /\ z = x + y /\ a + b <= x
      BY <2>2, <2>3
    <3> HIDE DEF a, b
    <3>2. a + b <= z
      <4> HIDE DEF x, y, z
      <4> QED BY <1>4, <3>1
    <3> QED BY <2>4, <3>2
  <2> HIDE DEF Holds
  <2> QED BY <2>5 DEF k
<1>7. \A m \in 0..(n - i) : m \in T
  <2> HIDE DEF T, n
  <2> QED BY <1>4, <1>5, <1>6, Induction
<1>8. j - i \in 0..(n - i) /\ i + (j - i) = j /\ j \in 0..n
  BY <1>1, <1>4
<1>9. Holds(j)
  <2> HIDE DEF Holds
  <2> QED BY <1>7, <1>8
<1> QED BY <1>2, <1>3, <1>4, <1>8, <1>9 DEF Lies

IsOfPart(seqs, h, p) ==
    \E i \in 1..Len(seqs) :
      \E q \in 1..Len(seqs[i]) : p = Len(h[i - 1]) + q /\ h[Len(seqs)][p] = seqs[i][q]

LEMMA PartOf ==
  ASSUME NEW S, NEW seqs \in SeqsOf(S), NEW h, Parts(seqs, S, h),
         NEW p \in 1..Len(h[Len(seqs)])
  PROVE  IsOfPart(seqs, h, p)
<1> DEFINE n == Len(seqs)
           T == {k \in 0..n : p <= Len(h[k])}
<1>1. n \in Nat
  BY SeqsAre
<1>2. ASSUME NEW k \in 0..n
      PROVE  Len(h[k]) \in Nat
  <2>1. h[k] \in Seq(S)
    BY DEF Parts
  <2> QED BY <2>1, LenProperties
<1>3. n \in T
  <2>1. n \in 0..n
    BY <1>1
  <2> QED BY <1>1, <1>2, <2>1
<1>4. PICK i \in T : \A m \in T : i <= m
  <2>1. T \subseteq Nat
    BY <1>1
  <2> HIDE DEF T
  <2> QED BY <1>3, <2>1, Least
<1>5. i \in 0..n /\ p <= Len(h[i])
  OBVIOUS
<1>6. i # 0
  <2>1. Len(h[0]) = 0
    BY EmptySeq DEF Parts
  <2> QED BY <1>5, <2>1
<1>7. i \in 1..n /\ i - 1 \in 0..n
  BY <1>1, <1>5, <1>6
<1>8. ~(p <= Len(h[i - 1]))
  <2>1. ~(i <= i - 1)
    BY <1>7
  <2>2. i - 1 \notin T
    BY <1>4, <2>1
  <2> QED BY <1>7, <2>2
<1> DEFINE a == Len(h[i - 1])
           q == p - a
<1>9. /\ a \in Nat /\ Len(seqs[i]) \in Nat /\ Len(h[i]) = a + Len(seqs[i])
      /\ \A r \in 1..Len(seqs[i]) : h[n][a + r] = seqs[i][r]
  <2>1. n \in i..n
    BY <1>1, <1>7
  <2>2. Lies(seqs, h, i, n)
    BY <1>7, <2>1, PartLies
  <2> HIDE DEF n
  <2> QED BY <2>2 DEF Lies
<1>10. q \in 1..Len(seqs[i]) /\ p = a + q
  <2> DEFINE b == Len(seqs[i])
             z == Len(h[i])
  <2>1. a \in Nat /\ b \in Nat /\ z = a + b /\ p <= z /\ ~(p <= a) /\ p \in Nat
    <3>1. p \in Nat
      BY <1>1, <1>2
    <3> QED BY <1>5, <1>8, <1>9, <3>1
  <2> HIDE DEF a, b, z
  <2>2. q \in 1..b /\ p = a + q
    BY <2>1
  <2> QED BY <2>2 DEF b
<1>11. h[n][p] = seqs[i][q]
  <2> HIDE DEF q, a
  <2> QED BY <1>9, <1>10
<1>12. p = Len(h[i - 1]) + q
  BY <1>10
<1> HIDE DEF q
<1> QED BY <1>7, <1>10, <1>11, <1>12 DEF IsOfPart

(* Reading a line that ends at k is to apply it to what was read before it.*)
StartsAfter(text, a, k) == SubSeq(text, Start(text, k), k - 1) = SubSeq(text, a + 1, k - 1)

LEMMA StartAfter ==
  ASSUME NEW text \in Seq(Token), NEW a \in Nat, NEW k \in (a + 1)..(Len(text) + 1),
         a = 0 \/ text[a] = "nl", \A m \in (a + 1)..(k - 1) : text[m] # "nl"
  PROVE  StartsAfter(text, a, k)
<1> DEFINE ends == {m \in 1..(k - 1) : text[m] = "nl"}
<1>1. Len(text) \in Nat
  BY LenProperties
<1>2. k \in Nat /\ a < k
  BY <1>1
<1>3. \A m \in ends : m <= a
  BY <1>2
<1>4. ends \subseteq Nat
  BY <1>2
<1>5. Start(text, k) = IF ends = {} THEN 1 ELSE 1 + CHOOSE m \in ends : \A l \in ends : l <= m
  BY DEF Start
<1>6. CASE a = 0
  <2>1. ends = {}
    BY <1>2, <1>3, <1>6
  <2> HIDE DEF ends
  <2>2. Start(text, k) = a + 1
    BY <1>5, <1>6, <2>1
  <2> QED BY <2>2 DEF StartsAfter
<1>7. CASE a # 0
  <2>1. a \in ends
    BY <1>2, <1>7
  <2> HIDE DEF ends
  <2>2. (CHOOSE m \in ends : \A l \in ends : l <= m) = a
    BY <1>3, <1>4, <2>1, GreatestIs
  <2>3. Start(text, k) = 1 + a
    BY <1>5, <2>1, <2>2
  <2>4. 1 + a = a + 1
    OBVIOUS
  <2> QED BY <2>3, <2>4 DEF StartsAfter
<1> QED BY <1>6, <1>7

EndsAt(text, body, a) ==
    /\ a + Len(body) + 1 <= Len(text) /\ text[a + Len(body) + 1] = "nl"
    /\ \A p \in 1..Len(body) : text[a + p] = body[p] /\ body[p] # "nl"

LEMMA LineAt ==
  ASSUME NEW text \in Seq(Token), NEW body \in Seq(Token), NEW a \in Nat,
         EndsAt(text, body, a), a = 0 \/ text[a] = "nl"
  PROVE  Reading(text)[a + Len(body) + 1] = AppliedLine(Reading(text)[a], body)
<1> DEFINE read == Reading(text)
           b == Len(body)
<1>0. /\ a + b + 1 <= Len(text) /\ text[a + b + 1] = "nl"
      /\ \A p \in 1..b : text[a + p] = body[p] /\ body[p] # "nl"
  BY DEF EndsAt
<1>1. Len(text) \in Nat /\ b \in Nat
  BY LenProperties
<1>2. \A m \in 1..Len(text) :
        /\ text[m] = "nl" =>
             read[m] = AppliedLine(read[m - 1], SubSeq(text, Start(text, m), m - 1))
        /\ text[m] # "nl" => read[m] = read[m - 1]
  BY ReadingIs
<1>30. b = Len(body)
  OBVIOUS
<1> HIDE DEF read, b
<1> DEFINE k == a + b + 1
           T == {m \in 0..b : read[a + m] = read[a]}
<1>3. 0 \in T
  BY <1>1
<1>4. ASSUME NEW m \in 1..b, m - 1 \in T
      PROVE  m \in T
  <2> DEFINE j == a + m
  <2>1. j \in 1..Len(text) /\ j - 1 = a + (m - 1)
    BY <1>0, <1>1
  <2>2. text[j] # "nl" /\ read[j - 1] = read[a]
    BY <1>0, <1>4, <2>1
  <2> HIDE DEF j
  <2>3. read[j] = read[a]
    BY <1>2, <2>1, <2>2
  <2> QED BY <2>3 DEF j
<1>5. \A m \in 0..b : m \in T
  <2> HIDE DEF T
  <2> QED BY <1>1, <1>3, <1>4, Induction
<1>6. read[k - 1] = read[a]
  <2>1. b \in T /\ k - 1 = a + b
    BY <1>1, <1>5
  <2> QED BY <2>1
<1>7. k \in 1..Len(text) /\ k \in (a + 1)..(Len(text) + 1) /\ text[k] = "nl"
  BY <1>0, <1>1
<1>8. \A m \in (a + 1)..(k - 1) : text[m] # "nl" /\ text[m] = body[m - a]
  <2> TAKE m \in (a + 1)..(k - 1)
  <2>1. m - a \in 1..b /\ a + (m - a) = m
    BY <1>1
  <2> QED BY <1>0, <2>1
<1> HIDE DEF k
<1>9. read[k] = AppliedLine(read[a], SubSeq(text, Start(text, k), k - 1))
  BY <1>2, <1>6, <1>7
<1>10. SubSeq(text, Start(text, k), k - 1) = SubSeq(text, a + 1, k - 1)
  BY <1>7, <1>8, StartAfter DEF StartsAfter
<1>11. SubSeq(text, a + 1, k - 1) = body
  <2> DEFINE part == SubSeq(text, a + 1, k - 1)
  <2>1. k - 1 = a + b /\ k - 1 \in Int /\ a + 1 \in Int
    BY <1>1 DEF k
  <2>2. \A m \in (a + 1)..(k - 1) : text[m] \in Token
    <3>1. \A m \in (a + 1)..(k - 1) : m \in 1..Len(text)
      BY <1>0, <1>1, <2>1
    <3> QED BY <3>1, ElementOfSeq
  <2>3. /\ part \in Seq(Token)
        /\ Len(part) = IF a + 1 <= k - 1 THEN k - 1 - (a + 1) + 1 ELSE 0
        /\ \A i \in 1..(k - 1 - (a + 1) + 1) : part[i] = text[a + 1 + i - 1]
    BY <2>1, <2>2, SubSeqProperties
  <2> HIDE DEF part
  <2>4. Len(part) = b
    BY <1>1, <2>1, <2>3
  <2>5. ASSUME NEW i \in 1..b
        PROVE  part[i] = body[i]
    <3>1. i \in 1..(k - 1 - (a + 1) + 1) /\ a + 1 + i - 1 = a + i
      BY <1>1, <2>1
    <3>2. part[i] = text[a + i]
      BY <2>3, <3>1
    <3> QED BY <1>0, <3>2
  <2>6. part = body
    BY <1>30, <2>3, <2>4, <2>5, SeqEqual
  <2> QED BY <2>6 DEF part
<1> QED BY <1>9, <1>10, <1>11 DEF k, read, b

LEMMA NothingLeft ==
  ASSUME NEW text \in Seq(Token), Len(text) = 0 \/ text[Len(text)] = "nl"
  PROVE  ParseText(text) = Reading(text)[Len(text)]
<1> DEFINE n == Len(text)
           r == Reading(text)[n]
<1>1. n \in Nat
  BY LenProperties
<1>2. ParseText(text) = AppliedLine(r, SubSeq(text, Start(text, n + 1), n))
  BY ReadingIs
<1>3. SubSeq(text, Start(text, n + 1), n) = <<>>
  <2> DEFINE k == n + 1
  <2>1. k \in (n + 1)..(Len(text) + 1) /\ k - 1 = n /\ \A m \in (n + 1)..(k - 1) : text[m] # "nl"
    BY <1>1
  <2>2. StartsAfter(text, n, k)
    <3> HIDE DEF k
    <3> QED BY <1>1, <2>1, StartAfter
  <2>3. SubSeq(text, n + 1, n) = <<>>
    BY <1>1, SubSeqEmpty
  <2> HIDE DEF n, k
  <2>4. SubSeq(text, Start(text, k), k - 1) = SubSeq(text, n + 1, k - 1)
    BY <2>2 DEF StartsAfter
  <2>5. SubSeq(text, Start(text, k), n) = <<>>
    BY <2>1, <2>3, <2>4
  <2> QED BY <2>5 DEF k
<1>4. Trim(<<>>) = <<>>
  BY DEF Trim
<1>5. AppliedLine(r, <<>>) = r
  <2> HIDE DEF r
  <2> QED BY <1>4 DEF AppliedLine
<1> QED BY <1>2, <1>3, <1>5

(* A text of lines is read one line after the other.                       *)
Written2(seqs, body) ==
    /\ Len(body) = Len(seqs)
    /\ \A i \in 1..Len(seqs) :
         /\ body[i] \in Seq(Token) /\ seqs[i] = Append(body[i], "nl")
         /\ \A p \in 1..Len(body[i]) : body[i][p] # "nl"

LEMMA ByLines ==
  ASSUME NEW seqs \in SeqsOf(Token), NEW body, Written2(seqs, body), NEW h, Parts(seqs, Token, h),
         NEW n, n = Len(seqs), NEW text, text = h[n], NEW read, read = Reading(text)
  PROVE  /\ text \in Seq(Token) /\ text = FlattenSeq(seqs) /\ n \in Nat
         /\ read[Len(h[0])] = Fine(Defaults)
         /\ \A i \in 1..n : read[Len(h[i])] = AppliedLine(read[Len(h[i - 1])], body[i])
         /\ ParseText(text) = read[Len(h[n])]
<1>1. n \in Nat
  BY SeqsAre
<1>2. text \in Seq(Token) /\ text = FlattenSeq(seqs)
  BY <1>1 DEF Parts
<1>3. Len(h[0]) = 0 /\ read[0] = Fine(Defaults)
  BY <1>2, ReadingIs, EmptySeq DEF Parts
<1>4. "nl" \in Token
  BY DEF Token
<1>5. ASSUME NEW i \in 1..n
      PROVE  /\ Len(seqs[i]) = Len(body[i]) + 1 /\ seqs[i][Len(body[i]) + 1] = "nl"
             /\ Len(body[i]) \in Nat /\ body[i] \in Seq(Token)
             /\ \A p \in 1..Len(body[i]) : seqs[i][p] = body[i][p] /\ body[i][p] # "nl"
             /\ Lies(seqs, h, i, n) /\ Lies(seqs, h, i, i)
  <2>1. body[i] \in Seq(Token) /\ seqs[i] = Append(body[i], "nl")
        /\ \A p \in 1..Len(body[i]) : body[i][p] # "nl"
    BY DEF Written2
  <2>2. n \in i..n /\ i \in i..n
    BY <1>1
  <2>3. Lies(seqs, h, i, n) /\ Lies(seqs, h, i, i)
    BY <2>2, PartLies
  <2> QED BY <1>4, <2>1, <2>3, AppendProperties, LenProperties
<1>6. ASSUME NEW i \in 1..n
      PROVE  /\ Len(h[i]) = Len(h[i - 1]) + Len(body[i]) + 1 /\ Len(h[i - 1]) \in Nat
             /\ Len(h[i]) <= Len(text) /\ text[Len(h[i])] = "nl"
             /\ \A p \in 1..Len(body[i]) : text[Len(h[i - 1]) + p] = body[i][p]
  <2> DEFINE a == Len(h[i - 1])
             b == Len(body[i])
             c == Len(seqs[i])
             d == Len(h[i])
  <2>1. /\ a \in Nat /\ b \in Nat /\ c = b + 1 /\ d = a + c /\ d <= Len(text)
        /\ seqs[i][b + 1] = "nl"
        /\ \A p \in 1..b : seqs[i][p] = body[i][p]
        /\ \A p \in 1..c : text[a + p] = seqs[i][p]
    BY <1>5 DEF Lies
  <2> HIDE DEF a, b, c, d
  <2>2. d = a + b + 1 /\ \A p \in 1..b : p \in 1..c
    BY <2>1
  <2>3. b + 1 \in 1..c /\ a + (b + 1) = d
    BY <2>1
  <2>4. text[d] = "nl"
    BY <2>1, <2>3
  <2>5. \A p \in 1..b : text[a + p] = body[i][p]
    BY <2>1, <2>2
  <2> QED BY <2>1, <2>2, <2>4, <2>5 DEF a, b, d
<1>7. ASSUME NEW i \in 1..n
      PROVE  read[Len(h[i])] = AppliedLine(read[Len(h[i - 1])], body[i])
  <2> DEFINE a == Len(h[i - 1])
             b == Len(body[i])
             d == Len(h[i])
  <2>1. a = 0 \/ text[a] = "nl"
    <3>1. CASE i = 1
      <4>1. i - 1 = 0
        BY <3>1
      <4> QED BY <1>3, <4>1
    <3>2. CASE i # 1
      <4>1. i - 1 \in 1..n
        BY <1>1, <3>2
      <4> QED BY <1>6, <4>1
    <3> QED BY <3>1, <3>2
  <2>2. /\ a \in Nat /\ b = Len(body[i]) /\ d = a + b + 1 /\ d <= Len(text) /\ text[d] = "nl"
        /\ body[i] \in Seq(Token)
        /\ \A p \in 1..b : text[a + p] = body[i][p] /\ body[i][p] # "nl"
    BY <1>5, <1>6
  <2> HIDE DEF a, b, d
  <2>3. EndsAt(text, body[i], a)
    BY <2>2 DEF EndsAt
  <2>4. read[a + Len(body[i]) + 1] = AppliedLine(read[a], body[i])
    BY <1>2, <2>1, <2>2, <2>3, LineAt
  <2> QED BY <2>2, <2>4 DEF a, d
<1>8. ParseText(text) = read[Len(text)]
  <2>1. CASE n = 0
    <3>1. Len(text) = 0
      BY <1>3, <2>1
    <3> QED BY <1>2, <3>1, NothingLeft
  <2>2. CASE n # 0
    <3>1. n \in 1..n
      BY <1>1, <2>2
    <3>2. text[Len(text)] = "nl"
      BY <1>6, <3>1
    <3> QED BY <1>2, <3>2, NothingLeft
  <2> QED BY <2>1, <2>2
<1> QED BY <1>1, <1>2, <1>3, <1>7, <1>8

(* What options leave: every value was accepted for its key.               *)
ItemSane(key, v) == v # NoValue /\ Accepted(key, v)
ListsSane(s) == \A key \in ListKeys : \A k \in 1..Len(s.lists[key]) : ItemSane(key, s.lists[key][k])
GraceSane(s) == s.grace = <<"500">> \/ ItemSane("grace-ms", s.grace)
CanonicalSignal(v) == \E t \in DOMAIN SignalNames : v = <<t>> /\ SignalNames[t] = t
PdeathSane(s) == s.pdeath = NoValue \/ CanonicalSignal(s.pdeath)
Sane(s) == ListsSane(s) /\ GraceSane(s) /\ PdeathSane(s)

LEMMA Untouched ==
  ASSUME NEW s \in SettingsType, Sane(s), NEW t \in SettingsType,
         t.lists = s.lists, t.grace = s.grace, t.pdeath = s.pdeath
  PROVE  Sane(t)
  BY DEF Sane, ListsSane, GraceSane, PdeathSane

LEMMA ItemGiven ==
  ASSUME NEW s, NEW a, ~Refused(s, a), a.name \in ValueOptions
  PROVE  ItemSane(a.name, a.value)
<1>1. a.name # "CMD" /\ a.name \notin FlagKeys \cup ModeFlags \cup {"verbose"}
  BY DEF ValueOptions, FlagKeys, ModeFlags, ListKeys, PathKeys, PortKeys
<1>2. ~(a.value = NoValue \/ ~Accepted(a.name, a.value))
  BY <1>1 DEF Refused
<1> QED BY <1>2 DEF ItemSane

LEMMA EffectSane ==
  ASSUME NEW s \in SettingsType, Sane(s), NEW a \in Argument, ~Refused(s, a), NEW t \in SettingsType,
         Effect(s, a, t)
  PROVE  Sane(t)
<1>0. a.value \in Seq(Token)
  BY ArgumentKinds
<1>1. CASE a.name = "CMD" /\ t = [s EXCEPT !.command = TRUE]
  <2>1. t.lists = s.lists /\ t.grace = s.grace /\ t.pdeath = s.pdeath
    BY <1>1 DEF SettingsType
  <2> QED BY <2>1, Untouched
<1>2. CASE t = [s EXCEPT !.verbosity = Saturated(s.verbosity)]
  <2> DEFINE x == Saturated(s.verbosity)
  <2>1. t = [s EXCEPT !.verbosity = x]
    BY <1>2
  <2> HIDE DEF x
  <2>2. t.lists = s.lists /\ t.grace = s.grace /\ t.pdeath = s.pdeath
    BY <2>1 DEF SettingsType
  <2> QED BY <2>2, Untouched
<1>3. CASE t = [s EXCEPT !.flags = s.flags \cup {a.name}]
  <2> DEFINE x == s.flags \cup {a.name}
  <2>1. t = [s EXCEPT !.flags = x]
    BY <1>3
  <2> HIDE DEF x
  <2>2. t.lists = s.lists /\ t.grace = s.grace /\ t.pdeath = s.pdeath
    BY <2>1 DEF SettingsType
  <2> QED BY <2>2, Untouched
<1>4. CASE t = [s EXCEPT !.modes = s.modes \cup {a.name}]
  <2> DEFINE x == s.modes \cup {a.name}
  <2>1. t = [s EXCEPT !.modes = x]
    BY <1>4
  <2> HIDE DEF x
  <2>2. t.lists = s.lists /\ t.grace = s.grace /\ t.pdeath = s.pdeath
    BY <2>1 DEF SettingsType
  <2> QED BY <2>2, Untouched
<1>5. CASE a.name \in ListKeys /\ t = Added(s, a.name, a.value)
  <2> DEFINE key == a.name
             v == a.value
  <2>0. key \in ListKeys /\ v \in Seq(Token) /\ t = Added(s, key, v) /\ ItemSane(key, v)
    <3>1. key \in ValueOptions
      BY <1>5 DEF ValueOptions
    <3> QED BY <1>0, <1>5, <3>1, ItemGiven
  <2> HIDE DEF key, v
  <2>1. /\ t.grace = s.grace /\ t.pdeath = s.pdeath
        /\ t.lists[key] = Append(s.lists[key], v)
        /\ \A k \in ListKeys : k # key => t.lists[k] = s.lists[k]
    BY <2>0, AddedIs
  <2>2. ASSUME NEW k \in ListKeys, NEW i \in 1..Len(t.lists[k])
        PROVE  ItemSane(k, t.lists[k][i])
    <3>1. CASE k # key
      BY <2>1, <2>2, <3>1 DEF Sane, ListsSane
    <3>2. CASE k = key
      <4> DEFINE l == s.lists[key]
                 m == t.lists[key]
      <4>1. s.lists \in [ListKeys -> Seq(Seq(Token))]
        BY Typed
      <4>2. l \in Seq(Seq(Token)) /\ m = Append(l, v) /\ \A j \in 1..Len(l) : ItemSane(key, l[j])
        BY <2>0, <2>1, <4>1 DEF Sane, ListsSane
      <4>3. i \in 1..Len(m)
        BY <3>2
      <4> HIDE DEF l, m
      <4>4. /\ Len(l) \in Nat /\ Len(m) = Len(l) + 1 /\ m[Len(l) + 1] = v
            /\ \A j \in 1..Len(l) : m[j] = l[j]
        BY <2>0, <4>2, AppendProperties, LenProperties
      <4>5. CASE i = Len(l) + 1
        BY <2>0, <3>2, <4>4, <4>5 DEF m
      <4>6. CASE i # Len(l) + 1
        <5>1. i \in 1..Len(l)
          BY <4>3, <4>4, <4>6
        <5> QED BY <3>2, <4>2, <4>4, <5>1 DEF m
      <4> QED BY <4>5, <4>6
    <3> QED BY <3>1, <3>2
  <2> QED BY <2>1, <2>2 DEF Sane, ListsSane, GraceSane, PdeathSane
<1>6. CASE a.name = "grace-ms" /\ t = [s EXCEPT !.grace = a.value]
  <2>1. t.lists = s.lists /\ t.grace = a.value /\ t.pdeath = s.pdeath
    BY <1>6 DEF SettingsType
  <2>2. ItemSane("grace-ms", a.value)
    <3>1. a.name \in ValueOptions
      BY <1>6 DEF ValueOptions
    <3> QED BY <1>6, <3>1, ItemGiven
  <2> QED BY <2>1, <2>2 DEF Sane, ListsSane, GraceSane, PdeathSane
<1>7. CASE a.name = "pdeath" /\ t = [s EXCEPT !.pdeath = <<SignalNames[a.value[1]]>>]
  <2>1. Accepted("pdeath", a.value)
    <3>1. a.name \in ValueOptions
      BY <1>7 DEF ValueOptions
    <3> QED BY <1>7, <3>1, ItemGiven DEF ItemSane
  <2> DEFINE x == SignalNames[a.value[1]]
  <2>2. x \in DOMAIN SignalNames /\ SignalNames[x] = x
    BY <1>0, <2>1, Signal
  <2> HIDE DEF x
  <2>3. t = [s EXCEPT !.pdeath = <<x>>]
    BY <1>7 DEF x
  <2>4. t.lists = s.lists /\ t.grace = s.grace /\ t.pdeath = <<x>>
    BY <2>3 DEF SettingsType
  <2>5. CanonicalSignal(t.pdeath)
    BY <2>2, <2>4 DEF CanonicalSignal
  <2> QED BY <2>4, <2>5 DEF Sane, ListsSane, GraceSane, PdeathSane
<1> QED BY <1>1, <1>2, <1>3, <1>4, <1>5, <1>6, <1>7 DEF Effect

LEMMA AfterSane ==
  ASSUME NEW argv \in Seq(Argument)
  PROVE  Sane(After(argv, Defaults)[Len(argv)].settings)
<1> DEFINE n == Len(argv)
           after == After(argv, Defaults)
           S == {m \in 0..n : Sane(after[m].settings)}
<1>1. n \in Nat
  BY LenProperties
<1>2. Sane(Defaults)
  <2>1. \A key \in ListKeys : Len(Defaults.lists[key]) = 0
    BY DEF Defaults
  <2> QED BY <2>1 DEF Sane, ListsSane, GraceSane, PdeathSane, Defaults
<1>3. /\ after \in [0..n -> Results] /\ after[0] = Fine(Defaults)
      /\ \A m \in 1..n : after[m] = Applied(after[m - 1], argv[m])
  BY DefaultsTyped, AfterIs
<1>4. 0 \in S
  BY <1>1, <1>2, <1>3 DEF Fine
<1>5. ASSUME NEW m \in 1..n, m - 1 \in S
      PROVE  m \in S
  <2> DEFINE r == after[m - 1]
             u == after[m]
             a == argv[m]
  <2>1. a \in Argument /\ m - 1 \in 0..n /\ m \in 0..n
    BY <1>1, ElementOfSeq
  <2>2. r \in Results /\ u \in Results /\ u = Applied(r, a) /\ Sane(r.settings)
    BY <1>3, <1>5, <2>1
  <2> HIDE DEF r, u, a
  <2>3. r.settings \in SettingsType /\ u.settings \in SettingsType /\ r.kind \in {"ok", "error"}
    BY <2>2, ResultIs
  <2>4. CASE r.kind = "error" \/ r.settings.command
    <3>1. u = r
      BY <2>1, <2>2, <2>4, AppliedIs
    <3> QED BY <2>1, <2>2, <3>1 DEF u
  <2>5. CASE r.kind = "ok" /\ ~r.settings.command
    <3>1. /\ Refused(r.settings, a) => u = Error
          /\ ~Refused(r.settings, a) => Effect(r.settings, a, u.settings)
      BY <2>1, <2>2, <2>5, AppliedIs
    <3>2. CASE Refused(r.settings, a)
      <4>1. u.settings = Defaults
        BY <3>1, <3>2 DEF Error
      <4> QED BY <1>2, <2>1, <4>1 DEF u
    <3>3. CASE ~Refused(r.settings, a)
      <4>1. Sane(u.settings)
        BY <2>1, <2>2, <2>3, <3>1, <3>3, EffectSane
      <4> QED BY <2>1, <4>1 DEF u
    <3> QED BY <3>2, <3>3
  <2> QED BY <2>3, <2>4, <2>5
<1>6. \A m \in 0..n : m \in S
  <2> HIDE DEF S, n
  <2> QED BY <1>1, <1>4, <1>5, Induction
<1> QED BY <1>1, <1>6

(* A line that is written is read as its key and its value.                *)
LEMMA TrimTo ==
  ASSUME NEW text \in Seq(Token), NEW f \in 1..Len(text), NEW l \in f..Len(text),
         text[f] # "sp", text[l] # "sp",
         \A k \in 1..Len(text) : k < f \/ l < k => text[k] = "sp"
  PROVE  Trim(text) = SubSeq(text, f, l)
<1> DEFINE kept == {k \in DOMAIN text : ~IsBlank(text[k])}
<1>1. Len(text) \in Nat /\ DOMAIN text = 1..Len(text)
  BY LenProperties
<1>2. f \in kept /\ l \in kept
  BY <1>1 DEF IsBlank
<1>3. \A k \in kept : f <= k /\ k <= l
  BY <1>1 DEF IsBlank
<1>4. kept \subseteq Nat
  BY <1>1
<1>5. Trim(text) = SubSeq(text, CHOOSE k \in kept : \A m \in kept : k <= m,
                          CHOOSE k \in kept : \A m \in kept : m <= k)
  BY <1>2 DEF Trim
<1> HIDE DEF kept
<1>6. (CHOOSE k \in kept : \A m \in kept : m <= k) = l
  BY <1>2, <1>3, <1>4, GreatestIs
<1>7. (CHOOSE k \in kept : \A m \in kept : k <= m) = f
  <2> DEFINE c == CHOOSE k \in kept : \A m \in kept : k <= m
  <2>1. c \in kept /\ \A m \in kept : c <= m
    BY <1>2, <1>3
  <2> HIDE DEF c
  <2>2. c <= f /\ f <= c /\ c \in Nat /\ f \in Nat
    BY <1>2, <1>3, <1>4, <2>1
  <2> QED BY <2>2 DEF c
<1> QED BY <1>5, <1>6, <1>7

(* The text of a line with a value: the key, a blank, the value.           *)
ValueLine(key, v, text) ==
    /\ text \in Seq(Token) /\ Len(text) = Len(v) + 2 /\ text[1] = key /\ text[2] = "sp"
    /\ \A p \in 1..Len(v) : text[2 + p] = v[p]

LEMMA TextOfValue ==
  ASSUME NEW key \in Token, NEW v \in Seq(Token), v # NoValue
  PROVE  ValueLine(key, v, Text(<<key, v>>))
<1> DEFINE x == <<key, "sp">>
           t == x \o v
<1>1. Text(<<key, v>>) = t
  BY DEF Text
<1>2. "sp" \in Token
  BY DEF Token
<1>3. x \in Seq(Token) /\ Len(x) = 2 /\ x[1] = key /\ x[2] = "sp"
  BY <1>2
<1> HIDE DEF x
<1>4. /\ t \in Seq(Token) /\ Len(t) = 2 + Len(v) /\ Len(v) \in Nat
      /\ \A i \in 1..(2 + Len(v)) : t[i] = IF i <= 2 THEN x[i] ELSE v[i - 2]
  <2>1. /\ t \in Seq(Token) /\ Len(t) = Len(x) + Len(v) /\ Len(v) \in Nat
        /\ \A i \in 1..(Len(x) + Len(v)) : t[i] = IF i <= Len(x) THEN x[i] ELSE v[i - Len(x)]
    BY <1>3, ConcatProperties, LenProperties
  <2> HIDE DEF t
  <2> QED BY <1>3, <2>1
<1> HIDE DEF t
<1>5. t[1] = key /\ t[2] = "sp"
  BY <1>3, <1>4
<1>6. ASSUME NEW p \in 1..Len(v)
      PROVE  t[2 + p] = v[p]
  <2>1. 2 + p \in 1..(2 + Len(v)) /\ ~(2 + p <= 2) /\ (2 + p) - 2 = p
    BY <1>4
  <2> DEFINE q == 2 + p
  <2>2. q \in 1..(2 + Len(v)) /\ ~(q <= 2) /\ q - 2 = p
    BY <2>1
  <2> HIDE DEF q
  <2>3. t[q] = v[q - 2]
    BY <1>4, <2>2
  <2> QED BY <2>2, <2>3 DEF q
<1>7. Len(t) = Len(v) + 2
  BY <1>4
<1> QED BY <1>1, <1>4, <1>5, <1>6, <1>7 DEF ValueLine

LEMMA LineOfValue ==
  ASSUME NEW key \in Token, key # "sp", NEW v \in Seq(Token), v # <<>>,
         v[1] # "sp", v[Len(v)] # "sp", NEW text, ValueLine(key, v, text)
  PROVE  Trim(text) = text /\ Trim(SubSeq(text, 2, Len(text))) = v
<1> DEFINE n == Len(text)
           b == Len(v)
<1>1. /\ text \in Seq(Token) /\ n = b + 2 /\ text[1] = key /\ text[2] = "sp"
      /\ \A p \in 1..b : text[2 + p] = v[p]
  BY DEF ValueLine
<1>2. n \in Nat /\ b \in Nat /\ b # 0
  <2>1. b \in Nat /\ n \in Nat
    BY <1>1, LenProperties
  <2>2. b # 0
    BY EmptySeq
  <2> QED BY <2>1, <2>2
<1>3. text[n] # "sp" /\ text[3] # "sp"
  <2>1. b \in 1..b /\ 1 \in 1..b /\ 2 + b = n /\ 2 + 1 = 3
    BY <1>1, <1>2
  <2>2. text[2 + b] = v[b] /\ text[2 + 1] = v[1]
    BY <1>1, <2>1
  <2> HIDE DEF n
  <2> QED BY <2>1, <2>2
<1>4. Trim(text) = text
  <2>1. 1 \in 1..n /\ n \in 1..n /\ \A k \in 1..n : ~(k < 1 \/ n < k)
    BY <1>1, <1>2
  <2>2. Trim(text) = SubSeq(text, 1, n)
    BY <1>1, <1>3, <2>1, TrimTo
  <2> QED BY <1>1, <2>2, SubSeqFull
<1> DEFINE w == SubSeq(text, 2, n)
<1>5. /\ w \in Seq(Token) /\ Len(w) = b + 1 /\ w[1] = "sp" /\ \A p \in 1..b : w[1 + p] = v[p]
  <2>1. /\ w \in Seq(Token) /\ Len(w) = IF 2 <= n THEN n - 2 + 1 ELSE 0
        /\ \A i \in 1..(n - 2 + 1) : w[i] = text[2 + i - 1]
    <3>1. \A i \in 2..n : text[i] \in Token
      BY <1>1, <1>2, ElementOfSeq
    <3> QED BY <1>2, <3>1, SubSeqProperties
  <2> HIDE DEF w
  <2>2. 1 \in 1..(n - 2 + 1) /\ 2 + 1 - 1 = 2 /\ Len(w) = b + 1
    BY <1>1, <1>2, <2>1
  <2>3. w[1] = "sp"
    BY <1>1, <2>1, <2>2
  <2>4. ASSUME NEW p \in 1..b
        PROVE  w[1 + p] = v[p]
    <3> DEFINE i == 1 + p
    <3>1. i \in 1..(n - 2 + 1) /\ 2 + i - 1 = 2 + p
      BY <1>1, <1>2
    <3> HIDE DEF i
    <3>2. w[i] = text[2 + i - 1]
      BY <2>1, <3>1
    <3> QED BY <1>1, <3>1, <3>2 DEF i
  <2> QED BY <2>1, <2>2, <2>3, <2>4
<1> HIDE DEF w, n
<1> DEFINE c == Len(w)
<1>6. c = b + 1 /\ 2 \in 1..c /\ c \in 2..c /\ c \in Nat
  BY <1>2, <1>5
<1>7. w[2] # "sp" /\ w[c] # "sp"
  <2>1. w[1 + 1] = v[1] /\ w[1 + b] = v[b]
    BY <1>2, <1>5
  <2>2. 1 + 1 = 2 /\ 1 + b = c
    BY <1>2, <1>6
  <2> HIDE DEF c
  <2> QED BY <2>1, <2>2
<1>8. \A k \in 1..c : k < 2 \/ c < k => w[k] = "sp"
  BY <1>5, <1>6
<1>9. Trim(w) = SubSeq(w, 2, c)
  BY <1>5, <1>6, <1>7, <1>8, TrimTo
<1>10. SubSeq(w, 2, c) = v
  <2> DEFINE y == SubSeq(w, 2, c)
  <2>1. /\ y \in Seq(Token) /\ Len(y) = IF 2 <= c THEN c - 2 + 1 ELSE 0
        /\ \A i \in 1..(c - 2 + 1) : y[i] = w[2 + i - 1]
    <3>1. \A i \in 2..c : w[i] \in Token
      BY <1>5, <1>6, ElementOfSeq
    <3> QED BY <1>6, <3>1, SubSeqProperties
  <2> HIDE DEF y, c
  <2>2. Len(y) = b
    BY <1>2, <1>6, <2>1
  <2>3. ASSUME NEW p \in 1..b
        PROVE  y[p] = v[p]
    <3>1. p \in 1..(c - 2 + 1) /\ 2 + p - 1 = 1 + p
      BY <1>2, <1>6
    <3> QED BY <1>5, <2>1, <3>1
  <2>4. y = v
    BY <2>1, <2>2, <2>3, SeqEqual
  <2> QED BY <2>4 DEF y
<1> QED BY <1>4, <1>9, <1>10 DEF w, n

Keys == FlagKeys \cup ListKeys \cup {"pdeath", "verbosity", "grace-ms"}
Entries == Keys \X Seq(Token)

LEMMA KeyIs ==
  ASSUME NEW key \in Keys
  PROVE  /\ key \in Token /\ key \notin {"sp", "nl", "hash", "nul"}
         /\ key \in FlagKeys => key \notin ListKeys \cup {"pdeath", "verbosity", "grace-ms"}
         /\ key \in ListKeys => key \notin {"pdeath", "verbosity", "grace-ms"}
<1>1. key \in Token
  BY DEF Keys, Token
<1>2. key \notin {"sp", "nl", "hash", "nul"}
  BY DEF Keys, FlagKeys, ListKeys, PathKeys, PortKeys
<1>3. key \in FlagKeys => key \notin ListKeys \cup {"pdeath", "verbosity", "grace-ms"}
  BY DEF FlagKeys, ListKeys, PathKeys, PortKeys
<1>4. key \in ListKeys => key \notin {"pdeath", "verbosity", "grace-ms"}
  BY DEF ListKeys, PathKeys, PortKeys
<1> QED BY <1>1, <1>2, <1>3, <1>4

LEMMA FlagLine ==
  ASSUME NEW s \in SettingsType, NEW key \in FlagKeys
  PROVE  /\ AppliedLine(Fine(s), Text(<<key, NoValue>>)) = Fine(Put(s, key, NoValue))
         /\ Text(<<key, NoValue>>) \in Seq(Token)
         /\ \A p \in 1..Len(Text(<<key, NoValue>>)) : Text(<<key, NoValue>>)[p] # "nl"
<1> DEFINE text == <<key>>
<1>1. Text(<<key, NoValue>>) = text
  BY DEF Text
<1>2. key \in Keys /\ key \in Token /\ key \notin {"sp", "nl", "hash"}
  BY KeyIs DEF Keys
<1>3. text \in Seq(Token) /\ Len(text) = 1 /\ text[1] = key
  BY <1>2, One
<1> HIDE DEF text
<1>4. Trim(text) = text
  <2>1. 1 \in 1..Len(text) /\ Len(text) \in 1..Len(text)
        /\ \A k \in 1..Len(text) : ~(k < 1 \/ Len(text) < k)
    BY <1>3
  <2>2. Trim(text) = SubSeq(text, 1, Len(text))
    BY <1>2, <1>3, <2>1, TrimTo
  <2> QED BY <1>3, <2>2, SubSeqFull
<1>5. text # <<>>
  <2>1. Len(text) # 0
    BY <1>3
  <2> QED BY <2>1, EmptySeq
<1>6. Trim(SubSeq(text, 2, Len(text))) = <<>>
  <2>1. SubSeq(text, 2, 1) = <<>>
    BY SubSeqEmpty
  <2>2. Trim(<<>>) = <<>>
    BY DEF Trim
  <2> QED BY <1>3, <2>1, <2>2
<1>7. AppliedLine(Fine(s), text) = Fine(Put(s, key, NoValue))
  <2>1. Fine(s).kind = "ok" /\ Fine(s).settings = s
    BY FineTyped
  <2>2. ~(Len(text) > 1 /\ text[2] # "sp")
    BY <1>3
  <2> QED BY <1>2, <1>3, <1>4, <1>5, <1>6, <2>1, <2>2 DEF AppliedLine
<1>8. \A p \in 1..Len(text) : text[p] # "nl"
  BY <1>2, <1>3
<1> QED BY <1>1, <1>3, <1>7, <1>8

LEMMA WritableIs ==
  ASSUME NEW key, NEW v \in Seq(Token), Writable(key, v)
  PROVE  /\ v # <<>> /\ v[1] # "sp" /\ v[Len(v)] # "sp" /\ ~HasToken(v, "nul")
         /\ \A p \in 1..Len(v) : v[p] # "nl"
<1>1. DOMAIN v = 1..Len(v)
  BY LenProperties
<1> QED BY <1>1 DEF Writable, HasToken

ReadAs(s, key, v) ==
    IF key = "verbosity"
    THEN IF IsNumber(v, 3) THEN Fine([s EXCEPT !.verbosity = Numerals[v[1]]]) ELSE Error
    ELSE IF key \in ListKeys \cup {"grace-ms", "pdeath"} /\ Accepted(key, v)
         THEN Fine(Put(s, key, v)) ELSE Error

LEMMA ValueRead ==
  ASSUME NEW s \in SettingsType, NEW key \in Keys, key \notin FlagKeys,
         NEW v \in Seq(Token), v # NoValue, Writable(key, v)
  PROVE  /\ AppliedLine(Fine(s), Text(<<key, v>>)) = ReadAs(s, key, v)
         /\ Text(<<key, v>>) \in Seq(Token)
         /\ \A p \in 1..Len(Text(<<key, v>>)) : Text(<<key, v>>)[p] # "nl"
<1> DEFINE text == Text(<<key, v>>)
           b == Len(v)
           n == Len(text)
<1>1. key \in Token /\ key \notin {"sp", "nl", "hash"}
  BY KeyIs
<1>2. ValueLine(key, v, text)
  BY <1>1, TextOfValue
<1>3. /\ v # <<>> /\ v[1] # "sp" /\ v[b] # "sp" /\ ~HasToken(v, "nul")
      /\ \A p \in 1..b : v[p] # "nl"
  BY WritableIs
<1> HIDE DEF text
<1>4. Trim(text) = text /\ Trim(SubSeq(text, 2, n)) = v
  BY <1>1, <1>2, <1>3, LineOfValue
<1>5. /\ text \in Seq(Token) /\ n = b + 2 /\ text[1] = key /\ text[2] = "sp"
      /\ \A p \in 1..b : text[2 + p] = v[p]
  BY <1>2 DEF ValueLine
<1>6. n \in Nat /\ b \in Nat
  BY <1>5, LenProperties
<1>7. text # <<>>
  <2>1. n # 0
    BY <1>5, <1>6
  <2> QED BY <2>1, EmptySeq
<1>8. AppliedLine(Fine(s), text) = ReadAs(s, key, v)
  <2>1. Fine(s).kind = "ok" /\ Fine(s).settings = s
    BY FineTyped
  <2> QED BY <1>1, <1>3, <1>4, <1>5, <1>7, <2>1 DEF AppliedLine, ReadAs
<1>9. ASSUME NEW p \in 1..n
      PROVE  text[p] # "nl"
  <2>1. CASE p = 1
    BY <1>1, <1>5, <2>1
  <2>2. CASE p = 2
    BY <1>5, <2>2
  <2>3. CASE p # 1 /\ p # 2
    <3> DEFINE q == p - 2
    <3>1. q \in 1..b /\ 2 + q = p
      <4> HIDE DEF n, b
      <4> QED BY <1>5, <1>6, <2>3
    <3> HIDE DEF q
    <3>2. text[2 + q] = v[q]
      BY <1>5, <3>1
    <3> QED BY <1>3, <3>1, <3>2
  <2> QED BY <2>1, <2>2, <2>3
<1> QED BY <1>5, <1>8, <1>9 DEF text

(* The settings of which the file has so far told those of some keys.      *)
Upto(s, K) ==
    [flags |-> s.flags \cap K, modes |-> {},
     pdeath |-> IF "pdeath" \in K THEN s.pdeath ELSE NoValue,
     verbosity |-> IF "verbosity" \in K THEN Resolved(s.verbosity) ELSE 0,
     grace |-> IF "grace-ms" \in K THEN s.grace ELSE <<"500">>,
     lists |-> [key \in ListKeys |-> IF key \in K THEN s.lists[key] ELSE <<>>],
     command |-> FALSE]

Same(s, t) ==
    /\ s.flags = t.flags /\ s.modes = t.modes /\ s.pdeath = t.pdeath
    /\ s.verbosity = t.verbosity /\ s.grace = t.grace /\ s.command = t.command
    /\ \A key \in ListKeys : s.lists[key] = t.lists[key]

LEMMA SameSettings ==
  ASSUME NEW s \in SettingsType, NEW t \in SettingsType, Same(s, t)
  PROVE  s = t
<1>1. s.lists \in [ListKeys -> Seq(Seq(Token))] /\ t.lists \in [ListKeys -> Seq(Seq(Token))]
  BY Typed
<1>2. s.lists = t.lists
  BY <1>1 DEF Same
<1>3. /\ s.flags = t.flags /\ s.modes = t.modes /\ s.pdeath = t.pdeath
      /\ s.verbosity = t.verbosity /\ s.grace = t.grace /\ s.command = t.command
  BY DEF Same
<1>4. \A u \in SettingsType :
         u = [flags |-> u.flags, modes |-> u.modes, pdeath |-> u.pdeath,
              verbosity |-> u.verbosity, grace |-> u.grace, lists |-> u.lists,
              command |-> u.command]
  BY DEF SettingsType
<1>5. s = [flags |-> s.flags, modes |-> s.modes, pdeath |-> s.pdeath,
           verbosity |-> s.verbosity, grace |-> s.grace, lists |-> s.lists,
           command |-> s.command]
  BY <1>4
<1>6. t = [flags |-> t.flags, modes |-> t.modes, pdeath |-> t.pdeath,
           verbosity |-> t.verbosity, grace |-> t.grace, lists |-> t.lists,
           command |-> t.command]
  BY <1>4
<1> QED BY <1>2, <1>3, <1>5, <1>6

LEMMA ResolvedIs ==
  ASSUME NEW n \in 0..255
  PROVE  /\ Resolved(n) \in 0..3 /\ Resolved(n) \in 0..255 /\ Resolved(Resolved(n)) = Resolved(n)
         /\ n # 0 <=> Resolved(n) # 0
  BY DEF Resolved

Says(P, s, K) ==
    /\ P \in SettingsType
    /\ P.flags = s.flags \cap K /\ P.modes = {}
    /\ P.pdeath = IF "pdeath" \in K THEN s.pdeath ELSE NoValue
    /\ P.verbosity = IF "verbosity" \in K THEN Resolved(s.verbosity) ELSE 0
    /\ P.grace = IF "grace-ms" \in K THEN s.grace ELSE <<"500">>
    /\ \A key \in ListKeys : P.lists[key] = IF key \in K THEN s.lists[key] ELSE <<>>
    /\ P.command = FALSE

LEMMA UptoIs ==
  ASSUME NEW s \in SettingsType, NEW K
  PROVE  Says(Upto(s, K), s, K)
<1> DEFINE fl == s.flags \cap K
           pd == IF "pdeath" \in K THEN s.pdeath ELSE NoValue
           ve == IF "verbosity" \in K THEN Resolved(s.verbosity) ELSE 0
           gr == IF "grace-ms" \in K THEN s.grace ELSE <<"500">>
           li == [key \in ListKeys |-> IF key \in K THEN s.lists[key] ELSE <<>>]
<1>1. /\ s.flags \in SUBSET FlagKeys /\ s.pdeath \in Seq(Token) /\ s.verbosity \in 0..255
      /\ s.grace \in Seq(Token) /\ s.lists \in [ListKeys -> Seq(Seq(Token))]
  BY Typed
<1>2. NoValue \in Seq(Token) /\ <<"500">> \in Seq(Token)
  BY DefaultsTyped DEF Defaults, SettingsType
<1>3. fl \in SUBSET FlagKeys /\ pd \in Seq(Token) /\ gr \in Seq(Token)
  BY <1>1, <1>2
<1>4. ve \in 0..255
  <2>1. Resolved(s.verbosity) \in 0..255
    BY <1>1, ResolvedIs
  <2> QED BY <2>1
<1>5. li \in [ListKeys -> Seq(Seq(Token))] /\ \A key \in ListKeys :
         li[key] = IF key \in K THEN s.lists[key] ELSE <<>>
  <2>1. <<>> \in Seq(Seq(Token))
    BY EmptySeq
  <2> QED BY <1>1, <2>1
<1>6. Upto(s, K) = [flags |-> fl, modes |-> {}, pdeath |-> pd, verbosity |-> ve, grace |-> gr,
                    lists |-> li, command |-> FALSE]
  BY DEF Upto
<1> HIDE DEF fl, pd, ve, gr, li
<1>7. Upto(s, K) \in SettingsType
  BY <1>3, <1>4, <1>5, <1>6 DEF SettingsType
<1>8. /\ Upto(s, K).flags = fl /\ Upto(s, K).modes = {} /\ Upto(s, K).pdeath = pd
      /\ Upto(s, K).verbosity = ve /\ Upto(s, K).grace = gr /\ Upto(s, K).lists = li
      /\ Upto(s, K).command = FALSE
  BY <1>6
<1> QED BY <1>5, <1>7, <1>8 DEF fl, pd, ve, gr, Says

LEMMA UptoNext ==
  ASSUME NEW s \in SettingsType, NEW K, NEW key \in Keys,
         NEW P, P = Upto(s, K), NEW Q, Q = Upto(s, K \cup {key})
  PROVE  /\ P \in SettingsType /\ Q \in SettingsType
         /\ P.modes = Q.modes /\ P.command = Q.command
         /\ key \in FlagKeys => Q.flags = P.flags \cup ({key} \cap s.flags)
         /\ key \notin FlagKeys => P.flags = Q.flags
         /\ IF key = "pdeath" THEN Q.pdeath = s.pdeath /\ (key \notin K => P.pdeath = NoValue)
            ELSE P.pdeath = Q.pdeath
         /\ IF key = "verbosity"
            THEN Q.verbosity = Resolved(s.verbosity) /\ (key \notin K => P.verbosity = 0)
            ELSE P.verbosity = Q.verbosity
         /\ IF key = "grace-ms" THEN Q.grace = s.grace /\ (key \notin K => P.grace = <<"500">>)
            ELSE P.grace = Q.grace
         /\ \A l \in ListKeys :
              IF l = key THEN Q.lists[l] = s.lists[l] /\ (key \notin K => P.lists[l] = <<>>)
              ELSE P.lists[l] = Q.lists[l]
<1> DEFINE L == K \cup {key}
<1>1. Q = Upto(s, L) /\ \A x : x \in L <=> x \in K \/ x = key
  OBVIOUS
<1> HIDE DEF L
<1>2. Says(P, s, K)
  BY UptoIs
<1>3. Says(Q, s, L)
  BY <1>1, UptoIs
<1> USE DEF Says
<1>4. key \in FlagKeys => Q.flags = P.flags \cup ({key} \cap s.flags)
  BY <1>1, <1>2, <1>3
<1>5. key \notin FlagKeys => P.flags = Q.flags
  <2>1. key \notin FlagKeys => key \notin s.flags
    BY Typed
  <2>2. key \notin FlagKeys => s.flags \cap L = s.flags \cap K
    BY <1>1, <2>1
  <2> QED BY <1>2, <1>3, <2>2
<1>6. IF key = "pdeath" THEN Q.pdeath = s.pdeath /\ (key \notin K => P.pdeath = NoValue)
      ELSE P.pdeath = Q.pdeath
  BY <1>1, <1>2, <1>3
<1>7. IF key = "verbosity"
      THEN Q.verbosity = Resolved(s.verbosity) /\ (key \notin K => P.verbosity = 0)
      ELSE P.verbosity = Q.verbosity
  BY <1>1, <1>2, <1>3
<1>8. IF key = "grace-ms" THEN Q.grace = s.grace /\ (key \notin K => P.grace = <<"500">>)
      ELSE P.grace = Q.grace
  BY <1>1, <1>2, <1>3
<1>9. \A l \in ListKeys :
         IF l = key THEN Q.lists[l] = s.lists[l] /\ (key \notin K => P.lists[l] = <<>>)
         ELSE P.lists[l] = Q.lists[l]
  BY <1>1, <1>2, <1>3
<1> QED BY <1>2, <1>3, <1>4, <1>5, <1>6, <1>7, <1>8, <1>9

(* The lines for one key, read after the others, tell that key's settings. *)
KeyLines(s, key, R, a) ==
    LET lines == LinesFor(s, key)
    IN  \A m \in 1..Len(lines) :
          /\ R[a + m] = AppliedLine(R[a + m - 1], Text(lines[m]))
          /\ lines[m][2] # NoValue => Writable(lines[m][1], lines[m][2])

LEMMA LinesForIs ==
  ASSUME NEW s, NEW key \in Keys
  PROVE  /\ key \in FlagKeys =>
               LinesFor(s, key) = IF key \in s.flags THEN <<<<key, NoValue>>>> ELSE <<>>
         /\ key = "pdeath" =>
               LinesFor(s, key) = IF s.pdeath = NoValue THEN <<>> ELSE <<<<key, s.pdeath>>>>
         /\ key = "verbosity" =>
               LinesFor(s, key) = IF s.verbosity = 0 THEN <<>>
                                  ELSE <<<<key, <<VerbosityToken(Resolved(s.verbosity))>>>>>>
         /\ key = "grace-ms" =>
               LinesFor(s, key) = IF s.grace = <<"500">> THEN <<>> ELSE <<<<key, s.grace>>>>
         /\ key \in ListKeys =>
               LinesFor(s, key) = [k \in DOMAIN s.lists[key] |-> <<key, s.lists[key][k]>>]
<1>1. CASE key \in FlagKeys
  BY <1>1, KeyIs DEF LinesFor
<1>2. CASE key \in ListKeys
  BY <1>2, KeyIs DEF LinesFor
<1>3. CASE key = "pdeath"
  BY <1>3, KeyIs DEF LinesFor
<1>4. CASE key = "verbosity"
  BY <1>4, KeyIs DEF LinesFor
<1>5. CASE key = "grace-ms"
  BY <1>5, KeyIs DEF LinesFor
<1> QED BY <1>1, <1>2, <1>3, <1>4, <1>5 DEF Keys

LEMMA TokenFor ==
  ASSUME NEW n \in 0..3, NEW v, v = <<VerbosityToken(n)>>
  PROVE  v \in Seq(Token) /\ v # NoValue /\ IsNumber(v, 3) /\ Numerals[v[1]] = n
<1> DEFINE t == VerbosityToken(n)
<1>1. \E x \in DOMAIN Numerals : Numerals[x] = n
  BY SettingsAssumption
<1>2. t \in DOMAIN Numerals /\ Numerals[t] = n
  BY <1>1 DEF VerbosityToken
<1>3. t \in STRING \ Separators
  BY <1>2, SettingsAssumption
<1> HIDE DEF t
<1>4. t \in Token /\ t # "no value"
  BY <1>3 DEF Token, Separators
<1>5. v = <<t>>
  BY DEF t
<1>6. v \in Seq(Token) /\ Len(v) = 1 /\ v[1] = t
  BY <1>4, <1>5, One
<1>7. v # NoValue
  BY <1>4, <1>6 DEF NoValue
<1>8. IsNumber(v, 3)
  BY <1>2, <1>6 DEF IsNumber
<1> QED BY <1>2, <1>6, <1>7, <1>8

(* One line at most, or none.                                              *)
LEMMA SingleLine ==
  ASSUME NEW s, NEW key, NEW v, LinesFor(s, key) = <<<<key, v>>>>, NEW R, NEW a \in Nat, NEW P,
         KeyLines(s, key, R, a), R[a] = Fine(P)
  PROVE  /\ R[a + Len(LinesFor(s, key))] = AppliedLine(Fine(P), Text(<<key, v>>))
         /\ v # NoValue => Writable(key, v)
<1> DEFINE lines == LinesFor(s, key)
           line == <<key, v>>
<1>1. lines = <<line>> /\ line[1] = key /\ line[2] = v
  OBVIOUS
<1> HIDE DEF line
<1>2. Len(lines) = 1 /\ lines[1] = line
  BY <1>1
<1>3. \A m \in 1..Len(lines) :
        /\ R[a + m] = AppliedLine(R[a + m - 1], Text(lines[m]))
        /\ lines[m][2] # NoValue => Writable(lines[m][1], lines[m][2])
  BY DEF KeyLines
<1> HIDE DEF lines
<1>4. 1 \in 1..Len(lines) /\ a + 1 - 1 = a
  BY <1>2
<1>5. R[a + 1] = AppliedLine(R[a], Text(line)) /\ (v # NoValue => Writable(key, v))
  BY <1>1, <1>2, <1>3, <1>4
<1> QED BY <1>2, <1>5 DEF lines, line

LEMMA NoLine ==
  ASSUME NEW s, NEW key, LinesFor(s, key) = <<>>, NEW R, NEW a \in Nat
  PROVE  R[a + Len(LinesFor(s, key))] = R[a]
<1>1. Len(LinesFor(s, key)) = 0
  OBVIOUS
<1> QED BY <1>1

TellsOf(s, K, key, R, a) == R[a + Len(LinesFor(s, key))] = Fine(Upto(s, K \cup {key}))

LEMMA FlagTold ==
  ASSUME NEW s \in SettingsType, NEW K, NEW key \in FlagKeys, NEW R, NEW a \in Nat,
         KeyLines(s, key, R, a), R[a] = Fine(Upto(s, K))
  PROVE  TellsOf(s, K, key, R, a)
<1> DEFINE P == Upto(s, K)
           Q == Upto(s, K \cup {key})
<1>1. key \in Keys /\ key \notin ListKeys \cup {"pdeath", "verbosity", "grace-ms"}
  BY KeyIs DEF Keys
<1>2. LinesFor(s, key) = IF key \in s.flags THEN <<<<key, NoValue>>>> ELSE <<>>
  BY <1>1, LinesForIs
<1>3. /\ P \in SettingsType /\ Q \in SettingsType
      /\ P.modes = Q.modes /\ P.pdeath = Q.pdeath /\ P.verbosity = Q.verbosity
      /\ P.grace = Q.grace /\ P.command = Q.command
      /\ \A l \in ListKeys : P.lists[l] = Q.lists[l]
      /\ Q.flags = P.flags \cup ({key} \cap s.flags)
  <2>1. P = Upto(s, K) /\ Q = Upto(s, K \cup {key})
    OBVIOUS
  <2> HIDE DEF P, Q
  <2>2. /\ key # "pdeath" /\ key # "verbosity" /\ key # "grace-ms"
        /\ \A l \in ListKeys : l # key
    BY <1>1
  <2> QED BY <1>1, <2>1, <2>2, UptoNext
<1>50. R[a] = Fine(P)
  OBVIOUS
<1> HIDE DEF P, Q
<1>6. CASE key \in s.flags
  <2>0. LinesFor(s, key) = <<<<key, NoValue>>>>
    BY <1>2, <1>6
  <2>1. R[a + Len(LinesFor(s, key))] = AppliedLine(Fine(P), Text(<<key, NoValue>>))
    <3> DEFINE v == NoValue
    <3>1. LinesFor(s, key) = <<<<key, v>>>>
      BY <2>0
    <3> HIDE DEF v
    <3>2. /\ R[a + Len(LinesFor(s, key))] = AppliedLine(Fine(P), Text(<<key, v>>))
          /\ v # NoValue => Writable(key, v)
      BY <1>50, <3>1, SingleLine
    <3> QED BY <3>2 DEF v
  <2>2. AppliedLine(Fine(P), Text(<<key, NoValue>>)) = Fine(Put(P, key, NoValue))
    BY <1>3, FlagLine
  <2> DEFINE T == Put(P, key, NoValue)
             x == P.flags \cup {key}
  <2>3. T = [P EXCEPT !.flags = x] /\ T \in SettingsType
    BY <1>3, PutFlag
  <2>4. x = Q.flags
    BY <1>3, <1>6
  <2> HIDE DEF T, x
  <2>5. /\ T.flags = x /\ T.modes = P.modes /\ T.pdeath = P.pdeath /\ T.verbosity = P.verbosity
        /\ T.grace = P.grace /\ T.command = P.command /\ T.lists = P.lists
    BY <1>3, <2>3 DEF SettingsType
  <2>6. Same(T, Q)
    BY <1>3, <2>4, <2>5 DEF Same
  <2>7. T = Q
    BY <1>3, <2>3, <2>6, SameSettings
  <2> QED BY <2>1, <2>2, <2>7 DEF T, Q, TellsOf
<1>7. CASE key \notin s.flags
  <2>1. R[a + Len(LinesFor(s, key))] = R[a]
    BY <1>2, <1>7, NoLine
  <2>2. Same(P, Q)
    BY <1>3, <1>7 DEF Same
  <2>3. P = Q
    BY <1>3, <2>2, SameSettings
  <2> QED BY <1>50, <2>1, <2>3 DEF Q, TellsOf
<1> QED BY <1>6, <1>7

LEMMA PdeathTold ==
  ASSUME NEW s \in SettingsType, Sane(s), NEW K, NEW key, key = "pdeath", NEW R, NEW a \in Nat,
         key \notin K, KeyLines(s, key, R, a), R[a] = Fine(Upto(s, K))
  PROVE  TellsOf(s, K, key, R, a)
<1> DEFINE P == Upto(s, K)
           Q == Upto(s, K \cup {key})
           v == s.pdeath
<1>1. key \in Keys /\ key \notin FlagKeys \cup ListKeys
  BY KeyIs DEF Keys
<1>2. LinesFor(s, key) = IF v = NoValue THEN <<>> ELSE <<<<key, v>>>>
  BY <1>1, LinesForIs
<1>3. /\ P \in SettingsType /\ Q \in SettingsType
      /\ P.modes = Q.modes /\ P.verbosity = Q.verbosity /\ P.grace = Q.grace
      /\ P.command = Q.command /\ P.flags = Q.flags
      /\ \A l \in ListKeys : P.lists[l] = Q.lists[l]
      /\ P.pdeath = NoValue /\ Q.pdeath = v
  <2>1. P = Upto(s, K) /\ Q = Upto(s, K \cup {key})
    OBVIOUS
  <2> HIDE DEF P, Q
  <2> QED BY <1>1, <2>1, UptoNext
<1>4. v \in Seq(Token)
  BY Typed
<1>50. R[a] = Fine(P)
  OBVIOUS
<1>51. v = NoValue \/ CanonicalSignal(v)
  BY DEF Sane, PdeathSane
<1> HIDE DEF P, Q, v
<1>7. CASE v # NoValue
  <2>1. /\ R[a + Len(LinesFor(s, key))] = AppliedLine(Fine(P), Text(<<key, v>>))
        /\ Writable(key, v)
    <3>1. LinesFor(s, key) = <<<<key, v>>>>
      BY <1>2, <1>7
    <3>2. /\ R[a + Len(LinesFor(s, key))] = AppliedLine(Fine(P), Text(<<key, v>>))
          /\ v # NoValue => Writable(key, v)
      BY <1>50, <3>1, SingleLine
    <3> QED BY <1>7, <3>2
  <2>2. PICK t \in DOMAIN SignalNames : v = <<t>> /\ SignalNames[t] = t
    BY <1>7, <1>51 DEF CanonicalSignal
  <2>3. Len(v) = 1 /\ v[1] = t
    BY <2>2
  <2>4. Accepted(key, v)
    BY <2>2, <2>3 DEF Accepted, PortKeys
  <2>5. AppliedLine(Fine(P), Text(<<key, v>>)) = Fine(Put(P, key, v))
    BY <1>1, <1>3, <1>4, <1>7, <2>1, <2>4, ValueRead DEF ReadAs
  <2> DEFINE T == Put(P, key, v)
  <2>6. T = [P EXCEPT !.pdeath = v] /\ T \in SettingsType
    <3>1. P \in SettingsType /\ v \in Seq(Token) /\ Accepted("pdeath", v) /\ SignalNames[v[1]] = t
      BY <1>3, <1>4, <2>2, <2>3, <2>4
    <3>2. /\ Put(P, "pdeath", v) = [P EXCEPT !.pdeath = <<SignalNames[v[1]]>>]
          /\ Put(P, "pdeath", v) \in SettingsType
      BY <3>1, PutOne
    <3> QED BY <2>2, <3>1, <3>2
  <2> HIDE DEF T
  <2>7. /\ T.flags = P.flags /\ T.modes = P.modes /\ T.pdeath = v /\ T.verbosity = P.verbosity
        /\ T.grace = P.grace /\ T.command = P.command /\ T.lists = P.lists
    BY <1>3, <2>6 DEF SettingsType
  <2>8. Same(T, Q)
    BY <1>3, <2>7 DEF Same
  <2>9. T = Q
    BY <1>3, <2>6, <2>8, SameSettings
  <2> QED BY <2>1, <2>5, <2>9 DEF T, Q, TellsOf
<1>8. CASE v = NoValue
  <2>1. R[a + Len(LinesFor(s, key))] = R[a]
    BY <1>2, <1>8, NoLine
  <2>2. Same(P, Q)
    BY <1>3, <1>8 DEF Same
  <2>3. P = Q
    BY <1>3, <2>2, SameSettings
  <2> QED BY <1>50, <2>1, <2>3 DEF Q, TellsOf
<1> QED BY <1>7, <1>8

LEMMA GraceTold ==
  ASSUME NEW s \in SettingsType, Sane(s), NEW K, NEW key, key = "grace-ms", NEW R, NEW a \in Nat,
         key \notin K, KeyLines(s, key, R, a), R[a] = Fine(Upto(s, K))
  PROVE  TellsOf(s, K, key, R, a)
<1> DEFINE P == Upto(s, K)
           Q == Upto(s, K \cup {key})
           v == s.grace
<1>1. key \in Keys /\ key \notin FlagKeys \cup ListKeys
  BY KeyIs DEF Keys
<1>2. LinesFor(s, key) = IF v = <<"500">> THEN <<>> ELSE <<<<key, v>>>>
  BY <1>1, LinesForIs
<1>3. /\ P \in SettingsType /\ Q \in SettingsType
      /\ P.modes = Q.modes /\ P.pdeath = Q.pdeath /\ P.verbosity = Q.verbosity
      /\ P.command = Q.command /\ P.flags = Q.flags
      /\ \A l \in ListKeys : P.lists[l] = Q.lists[l]
      /\ P.grace = <<"500">> /\ Q.grace = v
  <2>1. P = Upto(s, K) /\ Q = Upto(s, K \cup {key})
    OBVIOUS
  <2> HIDE DEF P, Q
  <2> QED BY <1>1, <2>1, UptoNext
<1>4. v \in Seq(Token)
  BY Typed
<1>50. R[a] = Fine(P)
  OBVIOUS
<1>51. v = <<"500">> \/ ItemSane(key, v)
  BY DEF Sane, GraceSane
<1> HIDE DEF P, Q, v
<1>7. CASE v # <<"500">>
  <2>1. v # NoValue /\ Accepted(key, v)
    BY <1>7, <1>51 DEF ItemSane
  <2>2. /\ R[a + Len(LinesFor(s, key))] = AppliedLine(Fine(P), Text(<<key, v>>))
        /\ Writable(key, v)
    <3>1. LinesFor(s, key) = <<<<key, v>>>>
      BY <1>2, <1>7
    <3>2. /\ R[a + Len(LinesFor(s, key))] = AppliedLine(Fine(P), Text(<<key, v>>))
          /\ v # NoValue => Writable(key, v)
      BY <1>50, <3>1, SingleLine
    <3> QED BY <2>1, <3>2
  <2>3. AppliedLine(Fine(P), Text(<<key, v>>)) = Fine(Put(P, key, v))
    BY <1>1, <1>3, <1>4, <2>1, <2>2, ValueRead DEF ReadAs
  <2> DEFINE T == Put(P, key, v)
  <2>6. T = [P EXCEPT !.grace = v] /\ T \in SettingsType
    BY <1>3, <1>4, PutOne
  <2> HIDE DEF T
  <2>7. /\ T.flags = P.flags /\ T.modes = P.modes /\ T.pdeath = P.pdeath /\ T.verbosity = P.verbosity
        /\ T.grace = v /\ T.command = P.command /\ T.lists = P.lists
    BY <1>3, <2>6 DEF SettingsType
  <2>8. Same(T, Q)
    BY <1>3, <2>7 DEF Same
  <2>9. T = Q
    BY <1>3, <2>6, <2>8, SameSettings
  <2> QED BY <2>2, <2>3, <2>9 DEF T, Q, TellsOf
<1>8. CASE v = <<"500">>
  <2>1. R[a + Len(LinesFor(s, key))] = R[a]
    BY <1>2, <1>8, NoLine
  <2>2. Same(P, Q)
    BY <1>3, <1>8 DEF Same
  <2>3. P = Q
    BY <1>3, <2>2, SameSettings
  <2> QED BY <1>50, <2>1, <2>3 DEF Q, TellsOf
<1> QED BY <1>7, <1>8

LEMMA VerbosityTold ==
  ASSUME NEW s \in SettingsType, NEW K, NEW key, key = "verbosity", NEW R, NEW a \in Nat,
         key \notin K, KeyLines(s, key, R, a), R[a] = Fine(Upto(s, K))
  PROVE  TellsOf(s, K, key, R, a)
<1> DEFINE P == Upto(s, K)
           Q == Upto(s, K \cup {key})
           n == Resolved(s.verbosity)
           v == <<VerbosityToken(n)>>
<1>1. key \in Keys /\ key \notin FlagKeys \cup ListKeys
  BY KeyIs DEF Keys
<1>2. LinesFor(s, key) = IF s.verbosity = 0 THEN <<>> ELSE <<<<key, v>>>>
  BY <1>1, LinesForIs
<1>3. /\ P \in SettingsType /\ Q \in SettingsType
      /\ P.modes = Q.modes /\ P.pdeath = Q.pdeath /\ P.grace = Q.grace
      /\ P.command = Q.command /\ P.flags = Q.flags
      /\ \A l \in ListKeys : P.lists[l] = Q.lists[l]
      /\ P.verbosity = 0 /\ Q.verbosity = n
  <2>1. P = Upto(s, K) /\ Q = Upto(s, K \cup {key})
    OBVIOUS
  <2> HIDE DEF P, Q
  <2> QED BY <1>1, <2>1, UptoNext
<1>4. s.verbosity \in 0..255
  BY Typed
<1>7. n \in 0..3 /\ n \in 0..255 /\ (s.verbosity # 0 <=> n # 0)
  BY <1>4, ResolvedIs
<1>50. R[a] = Fine(P)
  OBVIOUS
<1> HIDE DEF P, Q, n
<1>8. v \in Seq(Token) /\ v # NoValue /\ IsNumber(v, 3) /\ Numerals[v[1]] = n
  BY <1>7, TokenFor
<1> HIDE DEF v
<1>9. CASE s.verbosity # 0
  <2>2. /\ R[a + Len(LinesFor(s, key))] = AppliedLine(Fine(P), Text(<<key, v>>))
        /\ Writable(key, v)
    <3>1. LinesFor(s, key) = <<<<key, v>>>>
      BY <1>2, <1>9
    <3>2. /\ R[a + Len(LinesFor(s, key))] = AppliedLine(Fine(P), Text(<<key, v>>))
          /\ v # NoValue => Writable(key, v)
      BY <1>50, <3>1, SingleLine
    <3> QED BY <1>8, <3>2
  <2>3. AppliedLine(Fine(P), Text(<<key, v>>)) = Fine([P EXCEPT !.verbosity = n])
    BY <1>1, <1>3, <1>8, <2>2, ValueRead DEF ReadAs
  <2> DEFINE T == [P EXCEPT !.verbosity = n]
  <2>6. T = [P EXCEPT !.verbosity = n] /\ T \in SettingsType
    BY <1>3, <1>7, Verbosity
  <2> HIDE DEF T
  <2>7. /\ T.flags = P.flags /\ T.modes = P.modes /\ T.pdeath = P.pdeath /\ T.verbosity = n
        /\ T.grace = P.grace /\ T.command = P.command /\ T.lists = P.lists
    BY <1>3, <2>6 DEF SettingsType
  <2>8. Same(T, Q)
    BY <1>3, <2>7 DEF Same
  <2>9. T = Q
    BY <1>3, <2>6, <2>8, SameSettings
  <2> QED BY <2>2, <2>3, <2>9 DEF T, Q, TellsOf
<1>10. CASE s.verbosity = 0
  <2>1. R[a + Len(LinesFor(s, key))] = R[a]
    BY <1>2, <1>10, NoLine
  <2>2. Same(P, Q)
    BY <1>3, <1>7, <1>10 DEF Same
  <2>3. P = Q
    BY <1>3, <2>2, SameSettings
  <2> QED BY <1>50, <2>1, <2>3 DEF Q, TellsOf
<1> QED BY <1>9, <1>10

(* The lines of a list: each adds its value.                               *)
LEMMA ItemLines ==
  ASSUME NEW s \in SettingsType, NEW key \in ListKeys, NEW l, l = s.lists[key],
         NEW lines, lines = LinesFor(s, key)
  PROVE  /\ Len(l) \in Nat /\ Len(lines) = Len(l) /\ DOMAIN lines = 1..Len(l)
         /\ \A i \in 1..Len(l) : /\ lines[i] = <<key, l[i]>> /\ l[i] \in Seq(Token)
                                 /\ lines[i][1] = key /\ lines[i][2] = l[i]
<1> DEFINE T == Seq(Token)
           n == Len(l)
<1>1. l \in Seq(T)
  <2>1. s.lists \in [ListKeys -> Seq(T)]
    BY Typed
  <2> QED BY <2>1
<1>2. key \in Keys
  BY DEF Keys
<1>3. lines = [k \in DOMAIN l |-> <<key, l[k]>>]
  BY <1>2, LinesForIs
<1> HIDE DEF T
<1>4. n \in Nat /\ DOMAIN l = 1..n /\ \A i \in 1..n : l[i] \in T
  BY <1>1, LenProperties, ElementOfSeq
<1> HIDE DEF n
<1> DEFINE E == {key} \X T
<1>5. lines \in [1..n -> E]
  BY <1>3, <1>4
<1>6. lines \in Seq(E)
  <2> HIDE DEF E
  <2> QED BY <1>4, <1>5, SeqDef
<1>7. Len(lines) \in Nat /\ DOMAIN lines = 1..Len(lines)
  <2> HIDE DEF E
  <2> QED BY <1>6, LenProperties
<1>8. DOMAIN lines = 1..n
  BY <1>5
<1>9. Len(lines) = n
  <2> DEFINE m == Len(lines)
  <2>1. m \in Nat /\ 1..m = 1..n
    BY <1>7, <1>8
  <2> HIDE DEF m
  <2>2. \A i \in Nat : i >= 1 => (i <= m <=> i <= n)
    <3>1. \A i \in Nat : i >= 1 => (i \in 1..m <=> i <= m) /\ (i \in 1..n <=> i <= n)
      BY <1>4, <2>1
    <3> QED BY <2>1, <3>1
  <2>3. (m >= 1 => m <= n) /\ (n >= 1 => n <= m)
    BY <1>4, <2>1, <2>2
  <2>4. m = n
    BY <1>4, <2>1, <2>3
  <2> QED BY <2>4 DEF m
<1>10. ASSUME NEW i \in 1..n
       PROVE  /\ lines[i] = <<key, l[i]>> /\ l[i] \in T
              /\ lines[i][1] = key /\ lines[i][2] = l[i]
  BY <1>3, <1>4
<1> QED BY <1>4, <1>8, <1>9, <1>10 DEF n, T

(* The settings when m items of a list are told.                           *)
Amid(t, P, key, l, m) ==
    /\ t \in SettingsType
    /\ t.flags = P.flags /\ t.modes = P.modes /\ t.pdeath = P.pdeath
    /\ t.verbosity = P.verbosity /\ t.grace = P.grace /\ t.command = P.command
    /\ \A k \in ListKeys : k # key => t.lists[k] = P.lists[k]
    /\ Len(t.lists[key]) = m /\ \A i \in 1..m : t.lists[key][i] = l[i]

LEMMA AmidNext ==
  ASSUME NEW P, NEW key \in ListKeys, NEW l, NEW m \in Nat, NEW t, Amid(t, P, key, l, m),
         NEW v \in Seq(Token), v = l[m + 1], v # NoValue, Accepted(key, v), Writable(key, v)
  PROVE  \E u \in SettingsType : /\ Amid(u, P, key, l, m + 1)
                                 /\ AppliedLine(Fine(t), Text(<<key, v>>)) = Fine(u)
<1> DEFINE u == Added(t, key, v)
<1>1. t \in SettingsType
  BY DEF Amid
<1>2. key \in Keys /\ key \notin FlagKeys /\ key # "verbosity"
  BY KeyIs DEF Keys
<1>3. AppliedLine(Fine(t), Text(<<key, v>>)) = Fine(Put(t, key, v))
  BY <1>1, <1>2, ValueRead DEF ReadAs
<1>4. Put(t, key, v) = u /\ u \in SettingsType
  BY <1>1, PutItem
<1> HIDE DEF u
<1>5. /\ u.flags = t.flags /\ u.modes = t.modes /\ u.command = t.command
      /\ u.verbosity = t.verbosity /\ u.pdeath = t.pdeath /\ u.grace = t.grace
      /\ u.lists[key] = Append(t.lists[key], v)
      /\ \A k \in ListKeys : k # key => u.lists[k] = t.lists[k]
  <2>1. u = Added(t, key, v)
    BY DEF u
  <2> QED BY <1>1, <2>1, AddedIs
<1> DEFINE x == t.lists[key]
           y == u.lists[key]
<1>6. x \in Seq(Seq(Token)) /\ y = Append(x, v) /\ Len(x) = m /\ \A i \in 1..m : x[i] = l[i]
  <2>1. t.lists \in [ListKeys -> Seq(Seq(Token))]
    BY <1>1, Typed
  <2> QED BY <1>5, <2>1 DEF Amid
<1> HIDE DEF x, y
<1>7. Len(y) = m + 1 /\ y[m + 1] = v /\ \A i \in 1..m : y[i] = l[i]
  <2>1. Len(y) = Len(x) + 1 /\ y[Len(x) + 1] = v /\ \A i \in 1..Len(x) : y[i] = x[i]
    BY <1>6, AppendProperties
  <2> QED BY <1>6, <2>1
<1>8. ASSUME NEW i \in 1..(m + 1)
      PROVE  y[i] = l[i]
  <2>1. CASE i = m + 1
    BY <1>7, <2>1
  <2>2. CASE i # m + 1
    <3>1. i \in 1..m
      BY <2>2
    <3> QED BY <1>7, <3>1
  <2> QED BY <2>1, <2>2
<1>9. Amid(u, P, key, l, m + 1)
  BY <1>4, <1>5, <1>7, <1>8 DEF Amid, y
<1> QED BY <1>3, <1>4, <1>9

LEMMA ListTold ==
  ASSUME NEW s \in SettingsType, Sane(s), NEW K, NEW key \in ListKeys, NEW R, NEW a \in Nat,
         key \notin K, KeyLines(s, key, R, a), R[a] = Fine(Upto(s, K))
  PROVE  TellsOf(s, K, key, R, a)
<1> DEFINE P == Upto(s, K)
           Q == Upto(s, K \cup {key})
           l == s.lists[key]
           n == Len(l)
           lines == LinesFor(s, key)
<1>1. key \in Keys /\ key \notin FlagKeys \cup {"pdeath", "verbosity", "grace-ms"}
  BY KeyIs DEF Keys
<1>2. /\ n \in Nat /\ Len(lines) = n
      /\ \A i \in 1..n : /\ lines[i] = <<key, l[i]>> /\ l[i] \in Seq(Token)
                         /\ lines[i][1] = key /\ lines[i][2] = l[i]
  BY ItemLines
<1>3. \A i \in 1..n : l[i] # NoValue /\ Accepted(key, l[i])
  BY DEF Sane, ListsSane, ItemSane
<1>4. \A i \in 1..n : /\ R[a + i] = AppliedLine(R[a + i - 1], Text(<<key, l[i]>>))
                      /\ Writable(key, l[i])
  <2>1. \A m \in 1..Len(lines) :
          /\ R[a + m] = AppliedLine(R[a + m - 1], Text(lines[m]))
          /\ lines[m][2] # NoValue => Writable(lines[m][1], lines[m][2])
    BY DEF KeyLines
  <2> HIDE DEF lines, l, n
  <2> QED BY <1>2, <1>3, <2>1
<1>5. /\ P \in SettingsType /\ Q \in SettingsType
      /\ P.modes = Q.modes /\ P.pdeath = Q.pdeath /\ P.verbosity = Q.verbosity
      /\ P.grace = Q.grace /\ P.command = Q.command /\ P.flags = Q.flags
      /\ \A k \in ListKeys : k # key => P.lists[k] = Q.lists[k]
      /\ P.lists[key] = <<>> /\ Q.lists[key] = l
  <2>1. P = Upto(s, K) /\ Q = Upto(s, K \cup {key})
    OBVIOUS
  <2> HIDE DEF P, Q
  <2>2. key # "pdeath" /\ key # "verbosity" /\ key # "grace-ms" /\ key \notin FlagKeys
    BY <1>1
  <2> QED BY <1>1, <2>1, <2>2, UptoNext
<1>6. R[a] = Fine(P)
  OBVIOUS
<1>7. l \in Seq(Seq(Token)) /\ \A u \in SettingsType : u.lists[key] \in Seq(Seq(Token))
  BY Typed
<1> HIDE DEF P, Q, l, n
<1> DEFINE S == {m \in 0..n : \E t \in SettingsType : Amid(t, P, key, l, m) /\ R[a + m] = Fine(t)}
<1>8. 0 \in S
  <2>1. Amid(P, P, key, l, 0)
    BY <1>5 DEF Amid
  <2>2. R[a + 0] = Fine(P)
    BY <1>6
  <2> QED BY <1>2, <1>5, <2>1, <2>2
<1>9. ASSUME NEW m \in 1..n, m - 1 \in S
      PROVE  m \in S
  <2>1. PICK t \in SettingsType : Amid(t, P, key, l, m - 1) /\ R[a + (m - 1)] = Fine(t)
    BY <1>9
  <2> DEFINE v == l[m]
             j == m - 1
  <2>2. j \in Nat /\ m = j + 1 /\ a + m - 1 = a + j /\ m \in 0..n
    BY <1>2
  <2>3. v \in Seq(Token) /\ v # NoValue /\ Accepted(key, v) /\ Writable(key, v)
    BY <1>2, <1>3, <1>4
  <2>4. R[a + m] = AppliedLine(Fine(t), Text(<<key, v>>))
    <3>1. R[a + m] = AppliedLine(R[a + m - 1], Text(<<key, v>>))
      BY <1>4
    <3> QED BY <2>1, <2>2, <3>1
  <2>5. v = l[j + 1] /\ Amid(t, P, key, l, j)
    BY <2>1, <2>2
  <2> HIDE DEF v, j
  <2>6. PICK u \in SettingsType : /\ Amid(u, P, key, l, j + 1)
                                  /\ AppliedLine(Fine(t), Text(<<key, v>>)) = Fine(u)
    BY <2>2, <2>3, <2>5, AmidNext
  <2>7. Amid(u, P, key, l, m) /\ R[a + m] = Fine(u)
    BY <2>2, <2>4, <2>6
  <2> QED BY <2>2, <2>7
<1>10. \A m \in 0..n : m \in S
  <2> HIDE DEF S
  <2> QED BY <1>2, <1>8, <1>9, Induction
<1>11. PICK t \in SettingsType : Amid(t, P, key, l, n) /\ R[a + n] = Fine(t)
  <2>1. n \in S
    BY <1>2, <1>10
  <2> QED BY <2>1
<1>12. t.lists[key] = l
  <2> DEFINE x == t.lists[key]
  <2>1. x \in Seq(Seq(Token)) /\ Len(x) = Len(l) /\ \A i \in 1..Len(x) : x[i] = l[i]
    BY <1>7, <1>11 DEF Amid, n
  <2> HIDE DEF x
  <2>2. x = l
    BY <1>7, <2>1, SeqEqual
  <2> QED BY <2>2 DEF x
<1>13. Same(t, Q)
  BY <1>5, <1>11, <1>12 DEF Same, Amid
<1>14. t = Q
  BY <1>5, <1>13, SameSettings
<1> QED BY <1>2, <1>11, <1>14 DEF TellsOf, Q, lines

LEMMA KeyTold ==
  ASSUME NEW s \in SettingsType, Sane(s), NEW K, NEW key \in Keys, NEW R, NEW a \in Nat,
         key \notin K, KeyLines(s, key, R, a), R[a] = Fine(Upto(s, K))
  PROVE  TellsOf(s, K, key, R, a)
<1>1. CASE key \in FlagKeys
  BY <1>1, FlagTold
<1>2. CASE key \in ListKeys
  BY <1>2, ListTold
<1>3. CASE key = "pdeath"
  BY <1>3, PdeathTold
<1>4. CASE key = "verbosity"
  BY <1>4, VerbosityTold
<1>5. CASE key = "grace-ms"
  BY <1>5, GraceTold
<1> QED BY <1>1, <1>2, <1>3, <1>4, <1>5 DEF Keys

(* The keys come in an order, each of them once.                           *)
Seen(j) == {KeyOrder[i] : i \in 1..j}

PlaceOf(key) ==
    CASE key = "subreaper" -> 1 [] key = "pdeath" -> 2 [] key = "verbosity" -> 3
      [] key = "warn-on-reap" -> 4 [] key = "pgroup-kill" -> 5 [] key = "remap-exit" -> 6
      [] key = "grace-ms" -> 7 [] key = "write-restrict" -> 8 [] key = "write-allow" -> 9
      [] key = "write-preset" -> 10 [] key = "restrict-warn-only" -> 11
      [] key = "write-no-dev" -> 12 [] key = "bind-tcp-allow" -> 13
      [] key = "connect-tcp-allow" -> 14 [] key = "scope-signals" -> 15
      [] key = "scope-abstract-unix" -> 16 [] key = "exec-allow" -> 17
      [] key = "device-ioctl-allow" -> 18 [] key = "expand-env" -> 19

LEMMA Places ==
  /\ Len(KeyOrder) = 19 /\ DOMAIN KeyOrder = 1..19
  /\ \A j \in 1..19 : PlaceOf(KeyOrder[j]) = j /\ KeyOrder[j] \in Keys
  /\ \A key \in Keys : PlaceOf(key) \in 1..19 /\ KeyOrder[PlaceOf(key)] = key
<1>1. Len(KeyOrder) = 19 /\ DOMAIN KeyOrder = 1..19
  BY DEF KeyOrder
<1>2. ASSUME NEW j \in 1..19
      PROVE  PlaceOf(KeyOrder[j]) = j /\ KeyOrder[j] \in Keys
  <2>1. KeyOrder[j] \in Keys
    BY DEF KeyOrder, Keys, FlagKeys, ListKeys, PathKeys, PortKeys
  <2>2. PlaceOf(KeyOrder[j]) = j
    BY DEF KeyOrder, PlaceOf
  <2> QED BY <2>1, <2>2
<1>3. ASSUME NEW key \in Keys
      PROVE  PlaceOf(key) \in 1..19 /\ KeyOrder[PlaceOf(key)] = key
  <2>1. /\ KeyOrder[1] = "subreaper" /\ KeyOrder[2] = "pdeath"
        /\ KeyOrder[3] = "verbosity" /\ KeyOrder[4] = "warn-on-reap"
        /\ KeyOrder[5] = "pgroup-kill" /\ KeyOrder[6] = "remap-exit"
        /\ KeyOrder[7] = "grace-ms" /\ KeyOrder[8] = "write-restrict"
        /\ KeyOrder[9] = "write-allow" /\ KeyOrder[10] = "write-preset"
        /\ KeyOrder[11] = "restrict-warn-only" /\ KeyOrder[12] = "write-no-dev"
        /\ KeyOrder[13] = "bind-tcp-allow" /\ KeyOrder[14] = "connect-tcp-allow"
        /\ KeyOrder[15] = "scope-signals" /\ KeyOrder[16] = "scope-abstract-unix"
        /\ KeyOrder[17] = "exec-allow" /\ KeyOrder[18] = "device-ioctl-allow"
        /\ KeyOrder[19] = "expand-env"
    BY DEF KeyOrder
  <2>2. \E j \in 1..19 : KeyOrder[j] = key
    BY <2>1 DEF Keys, FlagKeys, ListKeys, PathKeys, PortKeys
  <2> QED BY <1>2, <2>2
<1> QED BY <1>1, <1>2, <1>3

LEMMA SeenIs ==
  /\ Seen(0) = {} /\ Seen(19) = Keys
  /\ \A j \in 1..19 : /\ KeyOrder[j] \in Keys /\ KeyOrder[j] \notin Seen(j - 1)
                      /\ Seen(j) = Seen(j - 1) \cup {KeyOrder[j]}
<1>1. Seen(0) = {}
  BY DEF Seen
<1>2. Seen(19) = Keys
  BY Places DEF Seen
<1>3. ASSUME NEW j \in 1..19
      PROVE  /\ KeyOrder[j] \in Keys /\ KeyOrder[j] \notin Seen(j - 1)
             /\ Seen(j) = Seen(j - 1) \cup {KeyOrder[j]}
  <2>1. KeyOrder[j] \in Keys /\ PlaceOf(KeyOrder[j]) = j
    BY Places
  <2>2. ASSUME NEW i \in 1..(j - 1)
        PROVE  KeyOrder[i] # KeyOrder[j]
    <3>1. i \in 1..19 /\ i # j
      OBVIOUS
    <3>2. PlaceOf(KeyOrder[i]) = i
      BY <3>1, Places
    <3> QED BY <2>1, <3>1, <3>2
  <2>3. 1..j = 1..(j - 1) \cup {j}
    OBVIOUS
  <2> QED BY <2>1, <2>2, <2>3 DEF Seen
<1> QED BY <1>1, <1>2, <1>3

(* The lines of a configuration.                                           *)
LineOf(line, key) ==
    /\ line \in Entries /\ line[1] = key /\ line = <<line[1], line[2]>>
    /\ line[2] = NoValue <=> key \in FlagKeys

LEMMA LinesAre ==
  ASSUME NEW s \in SettingsType, Sane(s), NEW key \in Keys
  PROVE  /\ LinesFor(s, key) \in Seq(Entries)
         /\ \A i \in 1..Len(LinesFor(s, key)) : LineOf(LinesFor(s, key)[i], key)
<1> DEFINE lines == LinesFor(s, key)
<1>1. ASSUME NEW v \in Seq(Token), v = NoValue <=> key \in FlagKeys
      PROVE  LineOf(<<key, v>>, key)
  <2>1. <<key, v>> \in Entries
    BY DEF Entries
  <2> QED BY <1>1, <2>1 DEF LineOf
<1>2. ASSUME NEW v \in Seq(Token), v = NoValue <=> key \in FlagKeys,
             lines = <<>> \/ lines = <<<<key, v>>>>
      PROVE  lines \in Seq(Entries) /\ \A i \in 1..Len(lines) : LineOf(lines[i], key)
  <2>1. CASE lines = <<>>
    BY <2>1, EmptySeq
  <2>2. CASE lines = <<<<key, v>>>>
    <3> DEFINE x == <<key, v>>
    <3>1. LineOf(x, key) /\ lines = <<x>>
      BY <1>1, <1>2, <2>2
    <3> HIDE DEF x, lines
    <3>2. x \in Entries
      BY <3>1 DEF LineOf
    <3>3. lines \in Seq(Entries) /\ Len(lines) = 1 /\ lines[1] = x
      BY <3>1, <3>2, One
    <3> QED BY <3>1, <3>3 DEF lines
  <2> QED BY <1>2, <2>1, <2>2
<1>3. NoValue \in Seq(Token) /\ s.pdeath \in Seq(Token) /\ s.grace \in Seq(Token)
      /\ s.verbosity \in 0..255
  BY DefaultsTyped, Typed DEF Defaults, SettingsType
<1>4. CASE key \in FlagKeys
  <2>1. lines = <<>> \/ lines = <<<<key, NoValue>>>>
    BY <1>4, LinesForIs
  <2> QED BY <1>2, <1>3, <1>4, <2>1
<1>5. CASE key = "pdeath"
  <2> DEFINE v == s.pdeath
  <2>1. key \notin FlagKeys
    BY <1>5, KeyIs
  <2>2. lines = IF v = NoValue THEN <<>> ELSE <<<<key, v>>>>
    BY <1>5, LinesForIs
  <2>3. CASE v = NoValue
    BY <2>2, <2>3, EmptySeq
  <2>4. CASE v # NoValue
    BY <1>2, <1>3, <2>1, <2>2, <2>4
  <2> QED BY <2>3, <2>4
<1>6. CASE key = "grace-ms"
  <2> DEFINE v == s.grace
  <2>1. key \notin FlagKeys
    BY <1>6, KeyIs
  <2>2. lines = IF v = <<"500">> THEN <<>> ELSE <<<<key, v>>>>
    BY <1>6, LinesForIs
  <2>3. CASE v = <<"500">>
    BY <2>2, <2>3, EmptySeq
  <2>4. CASE v # <<"500">>
    <3>1. v # NoValue
      BY <2>4 DEF Sane, GraceSane, ItemSane
    <3> QED BY <1>2, <1>3, <2>1, <2>2, <2>4, <3>1
  <2> QED BY <2>3, <2>4
<1>7. CASE key = "verbosity"
  <2> DEFINE v == <<VerbosityToken(Resolved(s.verbosity))>>
  <2>1. key \notin FlagKeys
    BY <1>7, KeyIs
  <2>2. lines = <<>> \/ lines = <<<<key, v>>>>
    BY <1>7, LinesForIs
  <2>3. v \in Seq(Token) /\ v # NoValue
    <3>1. Resolved(s.verbosity) \in 0..3
      BY <1>3, ResolvedIs
    <3> QED BY <3>1, TokenFor
  <2> HIDE DEF v
  <2> QED BY <1>2, <2>1, <2>2, <2>3
<1>8. CASE key \in ListKeys
  <2> DEFINE l == s.lists[key]
             n == Len(l)
  <2>1. /\ n \in Nat /\ Len(lines) = n /\ DOMAIN lines = 1..n
        /\ \A i \in 1..n : lines[i] = <<key, l[i]>> /\ l[i] \in Seq(Token)
    BY <1>8, ItemLines
  <2>2. \A i \in 1..n : l[i] # NoValue
    BY <1>8 DEF Sane, ListsSane, ItemSane
  <2>3. key \notin FlagKeys
    BY <1>8, KeyIs
  <2>4. \A i \in 1..n : LineOf(lines[i], key)
    BY <1>1, <2>1, <2>2, <2>3
  <2>5. lines = [k \in DOMAIN l |-> <<key, l[k]>>]
    BY <1>8, LinesForIs
  <2> HIDE DEF lines, l, n
  <2>6. lines = [i \in 1..n |-> lines[i]]
    BY <2>1, <2>5
  <2>7. lines \in [1..n -> Entries]
    BY <2>4, <2>6 DEF LineOf
  <2>8. lines \in Seq(Entries)
    BY <2>1, <2>7, SeqDef
  <2> QED BY <2>1, <2>4, <2>8 DEF lines
<1> QED BY <1>4, <1>5, <1>6, <1>7, <1>8 DEF Keys

(* A line that may be written is free of line ends within.                 *)
LEMMA BodyOfLine ==
  ASSUME NEW key \in Keys, NEW line, LineOf(line, key),
         line[2] # NoValue => Writable(line[1], line[2])
  PROVE  /\ Text(line) \in Seq(Token)
         /\ \A p \in 1..Len(Text(line)) : Text(line)[p] # "nl"
<1> DEFINE v == line[2]
<1>1. line = <<key, v>> /\ v \in Seq(Token) /\ (v = NoValue <=> key \in FlagKeys)
      /\ (v # NoValue => Writable(key, v))
  BY DEF LineOf, Entries
<1> HIDE DEF v
<1>2. Defaults \in SettingsType
  BY DefaultsTyped
<1>3. CASE v = NoValue
  <2>1. key \in FlagKeys /\ line = <<key, NoValue>>
    BY <1>1, <1>3
  <2> QED BY <1>2, <2>1, FlagLine
<1>4. CASE v # NoValue
  <2>1. Writable(key, v) /\ key \notin FlagKeys
    BY <1>1, <1>4
  <2> QED BY <1>1, <1>2, <1>4, <2>1, ValueRead
<1> QED BY <1>3, <1>4

AllLines(s) == [j \in DOMAIN KeyOrder |-> LinesFor(s, KeyOrder[j])]

LEMMA AllLinesAre ==
  ASSUME NEW s \in SettingsType, Sane(s), NEW all, all = AllLines(s), NEW h, h = SoFar(all)
  PROVE  /\ all \in SeqsOf(Entries) /\ Len(all) = 19
         /\ \A j \in 1..19 : all[j] = LinesFor(s, KeyOrder[j])
         /\ Parts(all, Entries, h) /\ Lines(s) = h[19] /\ h[19] \in Seq(Entries)
<1> DEFINE E == Seq(Entries)
<1>1. all = [j \in 1..19 |-> LinesFor(s, KeyOrder[j])]
  BY Places DEF AllLines
<1>2. \A j \in 1..19 : LinesFor(s, KeyOrder[j]) \in E
  BY Places, LinesAre
<1> HIDE DEF E
<1>3. all \in [1..19 -> E]
  BY <1>1, <1>2
<1>4. all \in Seq(E)
  BY <1>3, SeqDef
<1>5. Len(all) = 19
  <2>1. Len(all) \in Nat /\ DOMAIN all = 1..Len(all) /\ DOMAIN all = 1..19
    BY <1>3, <1>4, LenProperties
  <2> DEFINE m == Len(all)
  <2>2. m \in Nat /\ 1..m = 1..19
    BY <2>1
  <2> HIDE DEF m
  <2>3. m <= 19
    <3>1. m >= 1 => m \in 1..m
      BY <2>2
    <3> QED BY <2>2, <3>1
  <2>4. 19 \in 1..m
    BY <2>2
  <2>5. m = 19
    BY <2>2, <2>3, <2>4
  <2> QED BY <2>5 DEF m
<1>6. all \in SeqsOf(Entries)
  BY <1>4 DEF SeqsOf, E
<1>7. Parts(all, Entries, h)
  BY <1>6, FlattenIs
<1>8. Lines(s) = FlattenSeq(all)
  BY DEF Lines, AllLines
<1>9. Lines(s) = h[19] /\ h[19] \in Seq(Entries)
  BY <1>5, <1>7, <1>8 DEF Parts
<1> QED BY <1>1, <1>5, <1>6, <1>7, <1>9

LEMMA EveryLine ==
  ASSUME NEW s \in SettingsType, Sane(s), NEW lines, lines = Lines(s)
  PROVE  /\ lines \in Seq(Entries) /\ Len(lines) \in Nat /\ DOMAIN lines = 1..Len(lines)
         /\ \A p \in 1..Len(lines) : \E key \in Keys : LineOf(lines[p], key)
<1> DEFINE all == AllLines(s)
           h == SoFar(all)
<1>1. /\ all \in SeqsOf(Entries) /\ Len(all) = 19
      /\ \A j \in 1..19 : all[j] = LinesFor(s, KeyOrder[j])
      /\ Parts(all, Entries, h) /\ lines = h[19] /\ lines \in Seq(Entries)
  BY AllLinesAre
<1> HIDE DEF all, h
<1>2. ASSUME NEW p \in 1..Len(lines)
      PROVE  \E key \in Keys : LineOf(lines[p], key)
  <2>1. p \in 1..Len(h[Len(all)]) /\ lines = h[Len(all)]
    BY <1>1
  <2>2. IsOfPart(all, h, p)
    BY <1>1, <2>1, PartOf
  <2>3. PICK i \in 1..19 : \E q \in 1..Len(all[i]) : lines[p] = all[i][q]
    BY <1>1, <2>1, <2>2 DEF IsOfPart
  <2>4. KeyOrder[i] \in Keys /\ all[i] = LinesFor(s, KeyOrder[i])
    BY <1>1, Places
  <2>5. PICK q \in 1..Len(LinesFor(s, KeyOrder[i])) : lines[p] = LinesFor(s, KeyOrder[i])[q]
    BY <2>3, <2>4
  <2>6. LineOf(LinesFor(s, KeyOrder[i])[q], KeyOrder[i])
    BY <2>4, LinesAre
  <2> QED BY <2>4, <2>5, <2>6
<1> QED BY <1>1, <1>2, LenProperties

(* Reading what was written gives what the file can tell.                  *)
Bodies(s) == [p \in 1..Len(Lines(s)) |-> Text(Lines(s)[p])]
Ended(s) == [p \in DOMAIN Lines(s) |-> Append(Text(Lines(s)[p]), "nl")]

LEMMA BodiesAre ==
  ASSUME NEW s \in SettingsType, Sane(s), IsWritable(s)
  PROVE  /\ Ended(s) \in SeqsOf(Token) /\ Len(Ended(s)) = Len(Lines(s))
         /\ Written2(Ended(s), Bodies(s)) /\ ConfigText(s) = FlattenSeq(Ended(s))
<1> DEFINE lines == Lines(s)
           body == Bodies(s)
           seqs == Ended(s)
<1>0. /\ body = [p \in 1..Len(lines) |-> Text(lines[p])]
      /\ seqs = [p \in DOMAIN lines |-> Append(Text(lines[p]), "nl")]
      /\ lines = Lines(s) /\ ConfigText(s) = FlattenSeq(seqs)
  BY DEF Bodies, Ended, ConfigText
<1> HIDE DEF lines, body, seqs
<1> DEFINE n == Len(lines)
           T == Seq(Token)
<1>1. /\ n \in Nat /\ DOMAIN lines = 1..n
      /\ \A p \in 1..n : \E key \in Keys : LineOf(lines[p], key)
  BY <1>0, EveryLine
<1>2. \A p \in 1..n : lines[p][2] # NoValue => Writable(lines[p][1], lines[p][2])
  BY <1>1, <1>0 DEF IsWritable
<1>3. ASSUME NEW p \in 1..n
      PROVE  Text(lines[p]) \in T /\ \A q \in 1..Len(Text(lines[p])) : Text(lines[p])[q] # "nl"
  <2>1. PICK key \in Keys : LineOf(lines[p], key)
    BY <1>1
  <2> QED BY <1>2, <2>1, BodyOfLine
<1>4. "nl" \in Token
  BY DEF Token
<1>5. ASSUME NEW p \in 1..n
      PROVE  Append(Text(lines[p]), "nl") \in T
  BY <1>3, <1>4, AppendProperties
<1> HIDE DEF T
<1>6. seqs \in [1..n -> T]
  BY <1>1, <1>5, <1>0
<1>7. seqs \in Seq(T)
  BY <1>1, <1>6, SeqDef
<1>8. body \in [1..n -> T]
  BY <1>3, <1>0 DEF T
<1>9. body \in Seq(T)
  BY <1>1, <1>8, SeqDef
<1>10. ASSUME NEW f \in Seq(T), DOMAIN f = 1..n
       PROVE  Len(f) = n
  <2> HIDE DEF n
  <2>1. Len(f) \in Nat /\ DOMAIN f = 1..Len(f)
    BY LenProperties
  <2> DEFINE m == Len(f)
  <2>2. m \in Nat /\ 1..m = 1..n
    BY <1>10, <2>1
  <2> HIDE DEF m
  <2>3. \A i \in Nat : (i \in 1..m) <=> (i \in 1..n)
    BY <2>2
  <2>4. \A i \in Nat : (1 <= i /\ i <= m) <=> (1 <= i /\ i <= n)
    BY <1>1, <2>2, <2>3
  <2>5. m = n
    BY <1>1, <2>2, <2>4
  <2> QED BY <2>5 DEF m
<1>11. Len(seqs) = n /\ Len(body) = n
  BY <1>6, <1>7, <1>8, <1>9, <1>10
<1>12. ASSUME NEW p \in 1..n
       PROVE  body[p] = Text(lines[p]) /\ seqs[p] = Append(body[p], "nl")
  BY <1>1, <1>0
<1>13. Written2(seqs, body)
  BY <1>3, <1>11, <1>12 DEF Written2, T
<1> QED BY <1>7, <1>11, <1>13, <1>0 DEF SeqsOf, T, lines, seqs, body

LEMMA TextIsRead ==
  ASSUME NEW s \in SettingsType, Sane(s), IsWritable(s)
  PROVE  /\ ParseText(ConfigText(s)) = Fine(Upto(s, Keys))
         /\ ConfigText(s) \in Seq(Token)
<1> DEFINE lines == Lines(s)
           n == Len(lines)
           body == Bodies(s)
           seqs == Ended(s)
           h == SoFar(seqs)
           text == h[n]
           read == Reading(text)
           R == [p \in 0..n |-> read[Len(h[p])]]
           all == AllLines(s)
           g == SoFar(all)
<1>1. /\ n \in Nat /\ DOMAIN lines = 1..n
      /\ \A p \in 1..n : \E key \in Keys : LineOf(lines[p], key)
  BY EveryLine
<1>2. /\ seqs \in SeqsOf(Token) /\ Len(seqs) = n /\ Written2(seqs, body)
      /\ ConfigText(s) = FlattenSeq(seqs)
  BY BodiesAre
<1>3. \A p \in 1..n : lines[p][2] # NoValue => Writable(lines[p][1], lines[p][2])
  BY <1>1 DEF IsWritable
<1>4. \A p \in 1..n : body[p] = Text(lines[p])
  BY DEF Bodies
<1>5. /\ all \in SeqsOf(Entries) /\ Len(all) = 19
      /\ \A j \in 1..19 : all[j] = LinesFor(s, KeyOrder[j])
      /\ Parts(all, Entries, g) /\ lines = g[19]
  BY AllLinesAre
<1> HIDE DEF lines, body, seqs, all, n
<1>6. Parts(seqs, Token, h)
  BY <1>2, FlattenIs
<1> HIDE DEF h, g
<1>7. /\ text \in Seq(Token) /\ text = FlattenSeq(seqs)
      /\ read[Len(h[0])] = Fine(Defaults)
      /\ \A i \in 1..n : read[Len(h[i])] = AppliedLine(read[Len(h[i - 1])], body[i])
      /\ ParseText(text) = read[Len(h[n])]
  <2> DEFINE x == text
             y == read
  <2>1. x = h[n] /\ y = Reading(x) /\ n = Len(seqs)
    BY <1>2
  <2> HIDE DEF x, y
  <2>2. /\ x \in Seq(Token) /\ x = FlattenSeq(seqs)
        /\ y[Len(h[0])] = Fine(Defaults)
        /\ \A i \in 1..n : y[Len(h[i])] = AppliedLine(y[Len(h[i - 1])], body[i])
        /\ ParseText(x) = y[Len(h[n])]
    BY <1>2, <1>6, <2>1, ByLines
  <2> QED BY <2>2 DEF x, y
<1>8. /\ R[0] = Fine(Defaults)
      /\ \A i \in 1..n : R[i] = AppliedLine(R[i - 1], Text(lines[i]))
      /\ ParseText(ConfigText(s)) = R[n] /\ ConfigText(s) \in Seq(Token)
  <2> HIDE DEF text, read
  <2>1. ASSUME NEW i \in 0..n
        PROVE  R[i] = read[Len(h[i])]
    OBVIOUS
  <2>2. 0 \in 0..n /\ n \in 0..n /\ \A i \in 1..n : i \in 0..n /\ i - 1 \in 0..n
    BY <1>1
  <2> HIDE DEF R
  <2>3. R[0] = Fine(Defaults) /\ ParseText(text) = R[n]
    BY <1>7, <2>1, <2>2
  <2>4. ASSUME NEW i \in 1..n
        PROVE  R[i] = AppliedLine(R[i - 1], Text(lines[i]))
    <3>1. R[i] = read[Len(h[i])] /\ R[i - 1] = read[Len(h[i - 1])]
      BY <2>1, <2>2
    <3> QED BY <1>4, <1>7, <3>1
  <2> QED BY <1>2, <1>7, <2>3, <2>4
<1> HIDE DEF R, text, read
<1>9. ASSUME NEW j \in 1..19
      PROVE  /\ Len(g[j - 1]) \in Nat /\ Len(g[j]) = Len(g[j - 1]) + Len(all[j])
             /\ Len(g[j]) <= n /\ Len(all[j]) \in Nat
             /\ \A p \in 1..Len(all[j]) : lines[Len(g[j - 1]) + p] = all[j][p]
  <2>1. 19 \in j..19
    OBVIOUS
  <2>2. Lies(all, g, j, 19)
    BY <1>5, <2>1, PartLies
  <2> QED BY <1>5, <2>2 DEF Lies, n
<1> DEFINE S == {j \in 0..19 : R[Len(g[j])] = Fine(Upto(s, Seen(j)))}
<1>10. 0 \in S
  <2>1. Len(g[0]) = 0
    BY EmptySeq, <1>5 DEF Parts
  <2>2. Upto(s, {}) = Defaults
    BY DEF Upto, Defaults
  <2>3. R[Len(g[0])] = Fine(Upto(s, Seen(0)))
    BY <1>8, <2>1, <2>2, SeenIs
  <2>4. 0 \in 0..19
    OBVIOUS
  <2> QED BY <2>3, <2>4
<1>11. ASSUME NEW j \in 1..19, j - 1 \in S
       PROVE  j \in S
  <2> DEFINE key == KeyOrder[j]
             K == Seen(j - 1)
             a == Len(g[j - 1])
             b == Len(LinesFor(s, key))
  <2>1. /\ key \in Keys /\ key \notin K /\ Seen(j) = K \cup {key}
    BY SeenIs
  <2>2. all[j] = LinesFor(s, key)
    BY <1>5
  <2>3. /\ a \in Nat /\ b \in Nat /\ Len(g[j]) = a + b /\ a + b <= n
        /\ \A p \in 1..b : lines[a + p] = LinesFor(s, key)[p]
    BY <1>9, <2>2
  <2>4. R[a] = Fine(Upto(s, K))
    BY <1>11
  <2> HIDE DEF a, K, key
  <2>5. KeyLines(s, key, R, a)
    <3> SUFFICES ASSUME NEW m \in 1..b
                 PROVE  /\ R[a + m] = AppliedLine(R[a + m - 1], Text(LinesFor(s, key)[m]))
                        /\ LinesFor(s, key)[m][2] # NoValue =>
                             Writable(LinesFor(s, key)[m][1], LinesFor(s, key)[m][2])
      BY DEF KeyLines
    <3> DEFINE i == a + m
    <3> HIDE DEF b
    <3>1. i \in 1..n
      BY <1>1, <2>3
    <3>2. lines[i] = LinesFor(s, key)[m]
      BY <2>3
    <3>4. i - 1 = a + m - 1
      BY <2>3
    <3> HIDE DEF i
    <3>3. R[i] = AppliedLine(R[i - 1], Text(lines[i]))
          /\ (lines[i][2] # NoValue => Writable(lines[i][1], lines[i][2]))
      BY <1>3, <1>8, <3>1
    <3>5. /\ R[i] = AppliedLine(R[a + m - 1], Text(LinesFor(s, key)[m]))
          /\ LinesFor(s, key)[m][2] # NoValue =>
               Writable(LinesFor(s, key)[m][1], LinesFor(s, key)[m][2])
      BY <3>2, <3>3, <3>4
    <3> QED BY <3>5 DEF i
  <2>6. TellsOf(s, K, key, R, a)
    BY <2>1, <2>3, <2>4, <2>5, KeyTold
  <2>7. R[a + b] = Fine(Upto(s, K \cup {key}))
    BY <2>6 DEF TellsOf
  <2> HIDE DEF b
  <2>8. R[Len(g[j])] = Fine(Upto(s, Seen(j)))
    BY <2>1, <2>3, <2>7
  <2>9. j \in 0..19
    OBVIOUS
  <2> QED BY <2>8, <2>9
<1>12. \A j \in 0..19 : j \in S
  <2> HIDE DEF S
  <2>1. 19 \in Nat
    OBVIOUS
  <2> QED BY <1>10, <1>11, <2>1, Induction
<1>13. R[Len(g[19])] = Fine(Upto(s, Seen(19)))
  BY <1>12
<1>14. Len(g[19]) = n
  BY <1>5 DEF n
<1> QED BY <1>8, <1>13, <1>14, SeenIs

(* One argument more.                                                      *)
LEMMA OneMore ==
  ASSUME NEW argv \in Seq(Argument), NEW a \in Argument, NEW base \in SettingsType,
         NEW long, long = Append(argv, a)
  PROVE  /\ long \in Seq(Argument) /\ Len(long) = Len(argv) + 1
         /\ After(long, base)[Len(long)] = Applied(After(argv, base)[Len(argv)], a)
<1> DEFINE n == Len(argv)
           f == After(argv, base)
           g == After(long, base)
           S == {k \in 0..n : g[k] = f[k]}
<1>1. n \in Nat
  BY LenProperties
<1>2. /\ long \in Seq(Argument) /\ Len(long) = n + 1 /\ long[n + 1] = a
      /\ \A k \in 1..n : long[k] = argv[k]
  BY AppendProperties
<1>3. /\ f[0] = Fine(base)
      /\ \A k \in 1..n : f[k] = Applied(f[k - 1], argv[k])
  BY AfterIs
<1>4. /\ g[0] = Fine(base)
      /\ \A k \in 1..(n + 1) : g[k] = Applied(g[k - 1], long[k])
  <2>1. \A k \in 1..Len(long) : g[k] = Applied(g[k - 1], long[k])
    BY <1>2, AfterIs
  <2>2. g[0] = Fine(base)
    BY <1>2, AfterIs
  <2> QED BY <1>2, <2>1, <2>2
<1> HIDE DEF f, g
<1>5. 0 \in S
  BY <1>1, <1>3, <1>4
<1>6. ASSUME NEW k \in 1..n, k - 1 \in S
      PROVE  k \in S
  <2>1. k \in 1..(n + 1) /\ k \in 0..n
    BY <1>1
  <2>2. g[k] = Applied(g[k - 1], argv[k]) /\ g[k - 1] = f[k - 1]
    BY <1>2, <1>4, <1>6, <2>1
  <2> QED BY <1>3, <2>1, <2>2
<1>7. \A k \in 0..n : k \in S
  <2> HIDE DEF S, n
  <2> QED BY <1>1, <1>5, <1>6, Induction
<1>8. g[n] = f[n]
  BY <1>1, <1>7
<1>9. g[n + 1] = Applied(g[n], a)
  <2>1. n + 1 \in 1..(n + 1) /\ (n + 1) - 1 = n
    BY <1>1
  <2> QED BY <1>2, <1>4, <2>1
<1> QED BY <1>2, <1>8, <1>9 DEF f, g

(* The same settings but for the modes and the command.                    *)
Moded(s, modes, command) == [s EXCEPT !.modes = modes, !.command = command]
Alike(s, t) ==
    /\ s.flags = t.flags /\ s.pdeath = t.pdeath /\ s.verbosity = t.verbosity
    /\ s.grace = t.grace /\ s.lists = t.lists

LEMMA ModedIs ==
  ASSUME NEW s \in SettingsType, NEW m \in SUBSET ModeFlags, NEW c \in BOOLEAN,
         NEW t, t = Moded(s, m, c)
  PROVE  t \in SettingsType /\ Alike(s, t) /\ t.modes = m /\ t.command = c
<1>1. t = [s EXCEPT !.modes = m, !.command = c]
  BY DEF Moded
<1>2. t \in SettingsType
  BY <1>1 DEF SettingsType
<1>3. t.modes = m /\ t.command = c
  BY <1>1 DEF SettingsType
<1>4. Alike(s, t)
  BY <1>1 DEF SettingsType, Alike
<1> QED BY <1>2, <1>3, <1>4

LEMMA ModedOnly ==
  ASSUME NEW s \in SettingsType, NEW t \in SettingsType, Alike(s, t)
  PROVE  t = Moded(s, t.modes, t.command)
<1> DEFINE u == Moded(s, t.modes, t.command)
<1>1. t.modes \in SUBSET ModeFlags /\ t.command \in BOOLEAN
  BY Typed
<1>2. u \in SettingsType /\ Alike(s, u) /\ u.modes = t.modes /\ u.command = t.command
  BY <1>1, ModedIs
<1> HIDE DEF u
<1>3. Same(t, u)
  BY <1>2 DEF Same, Alike
<1>4. t = u
  BY <1>2, <1>3, SameSettings
<1> QED BY <1>4 DEF u

(* What a further mode, and the command, does to settings.                 *)
Final(argv, base) == After(argv, base)[Len(argv)]
ModeAdded(r, u, m) ==
    /\ r \in Results /\ u \in Results
    /\ r.kind = "error" \/ r.settings.command => u = r
    /\ r.kind = "ok" /\ ~r.settings.command =>
         /\ u.kind = "ok" /\ Alike(r.settings, u.settings) /\ ~u.settings.command
         /\ u.settings.modes = r.settings.modes \cup {m}
CommandAdded(r, u) ==
    /\ u \in Results /\ u.kind = "ok" /\ Alike(r.settings, u.settings) /\ u.settings.command
    /\ u.settings.modes = r.settings.modes

LEMMA MoreModes ==
  ASSUME NEW argv \in Seq(Argument), NEW m \in ModeFlags, NEW long, long = Append(argv, Flag(m))
  PROVE  long \in Seq(Argument) /\ ModeAdded(Final(argv, Defaults), Final(long, Defaults), m)
<1> DEFINE a == Flag(m)
           r == Final(argv, Defaults)
           u == Final(long, Defaults)
<1>1. a \in Argument /\ a.name = m /\ m \notin FlagKeys
  BY ExplainIs
<1>2. ~a.attached
  BY DEF Flag
<1> HIDE DEF a
<1>3. /\ long \in Seq(Argument) /\ u = Applied(r, a)
  BY <1>1, OneMore, DefaultsTyped DEF a, Final
<1>4. r \in Results
  <2>1. Len(argv) \in 0..Len(argv)
    BY LenProperties
  <2> QED BY <2>1, AfterIs, DefaultsTyped DEF Final
<1> HIDE DEF r, u
<1> DEFINE s == r.settings
           t == u.settings
<1>5. /\ u \in Results
      /\ r.kind = "error" \/ s.command => u = r
      /\ r.kind = "ok" /\ ~s.command =>
           /\ Refused(s, a) => u = Error
           /\ ~Refused(s, a) => u = Fine(t) /\ Effect(s, a, t)
  BY <1>1, <1>3, <1>4, AppliedIs
<1>6. ASSUME r.kind = "ok", ~s.command
      PROVE  u.kind = "ok" /\ Alike(s, t) /\ ~t.command /\ t.modes = s.modes \cup {m}
  <2>1. ~Refused(s, a)
    <3>1. a.name \in FlagKeys \cup ModeFlags \cup {"verbose"}
      BY <1>1
    <3> QED BY <1>2, <3>1 DEF Refused
  <2>2. u = Fine(t) /\ Effect(s, a, t)
    BY <1>5, <1>6, <2>1
  <2>3. s \in SettingsType /\ t \in SettingsType
    BY <1>4, <1>5, ResultIs
  <2>4. u.kind = "ok"
    <3> HIDE DEF t
    <3> QED BY <2>2 DEF Fine
  <2> HIDE DEF s, t
  <2>5. a.name = m /\ m \notin ListKeys \cup {"CMD", "verbose", "grace-ms", "pdeath"}
    BY <1>1 DEF ModeFlags, ListKeys, PathKeys, PortKeys
  <2>6. t = [s EXCEPT !.modes = s.modes \cup {m}]
    BY <1>1, <2>2, <2>5 DEF Effect
  <2> DEFINE x == s.modes \cup {m}
  <2>7. t = [s EXCEPT !.modes = x]
    BY <2>6
  <2>8. x = s.modes \cup {m}
    OBVIOUS
  <2> HIDE DEF x
  <2>9. Alike(s, t)
    BY <2>3, <2>7 DEF Alike, SettingsType
  <2>10. t.modes = x /\ t.command = s.command
    BY <2>3, <2>7 DEF SettingsType
  <2> QED BY <1>6, <2>4, <2>8, <2>9, <2>10 DEF s
<1>7. ModeAdded(r, u, m)
  BY <1>4, <1>5, <1>6 DEF ModeAdded
<1> QED BY <1>3, <1>7 DEF r, u

LEMMA ThenCommand ==
  ASSUME NEW argv \in Seq(Argument), NEW base \in SettingsType, Final(argv, base).kind = "ok",
         ~Final(argv, base).settings.command, NEW long, long = Append(argv, Flag("CMD"))
  PROVE  long \in Seq(Argument) /\ CommandAdded(Final(argv, base), Final(long, base))
<1> DEFINE a == Flag("CMD")
           r == Final(argv, base)
           u == Final(long, base)
           s == r.settings
           t == u.settings
<1>1. a \in Argument /\ a.name = "CMD"
  BY DEF Flag, Argument, ValueOptions, ListKeys, PathKeys, PortKeys
<1> HIDE DEF a
<1>2. long \in Seq(Argument) /\ u = Applied(r, a)
  BY <1>1, OneMore DEF a, Final
<1>3. r \in Results
  <2>1. Len(argv) \in 0..Len(argv)
    BY LenProperties
  <2> QED BY <2>1, AfterIs DEF Final
<1> HIDE DEF r, u
<1>9. r.kind = "ok" /\ ~s.command
  BY DEF r
<1>4. u \in Results /\ (~Refused(s, a) => u = Fine(t) /\ Effect(s, a, t))
  BY <1>1, <1>2, <1>3, <1>9, AppliedIs
<1>5. ~Refused(s, a)
  BY <1>1 DEF Refused
<1>6. s \in SettingsType /\ t \in SettingsType
  BY <1>3, <1>4, ResultIs
<1>7. u.kind = "ok"
  <2> HIDE DEF t
  <2> QED BY <1>4, <1>5 DEF Fine
<1> HIDE DEF s, t
<1>8. t = [s EXCEPT !.command = TRUE]
  <2>1. Effect(s, a, t)
    BY <1>4, <1>5
  <2>2. "CMD" \notin FlagKeys \cup ModeFlags \cup ListKeys
    BY DEF FlagKeys, ModeFlags, ListKeys, PathKeys, PortKeys
  <2> QED BY <1>1, <2>1, <2>2 DEF Effect
<1>10. Alike(s, t) /\ t.modes = s.modes /\ t.command
  BY <1>6, <1>8 DEF Alike, SettingsType
<1>11. CommandAdded(r, u)
  BY <1>4, <1>7, <1>10 DEF CommandAdded, s, t
<1> QED BY <1>2, <1>11 DEF r, u

(* A mode of the settings in the end is an argument.                       *)
LEMMA ModeFrom ==
  ASSUME NEW argv \in Seq(Argument), NEW m, \A k \in 1..Len(argv) : argv[k].name # m
  PROVE  m \notin Final(argv, Defaults).settings.modes
<1> DEFINE n == Len(argv)
           after == After(argv, Defaults)
           S == {k \in 0..n : m \notin after[k].settings.modes}
<1>1. n \in Nat
  BY LenProperties
<1>2. /\ after \in [0..n -> Results] /\ after[0] = Fine(Defaults)
      /\ \A k \in 1..n : after[k] = Applied(after[k - 1], argv[k])
  BY DefaultsTyped, AfterIs
<1>3. 0 \in S
  BY <1>1, <1>2 DEF Fine, Defaults
<1>4. ASSUME NEW k \in 1..n, k - 1 \in S
      PROVE  k \in S
  <2> DEFINE a == argv[k]
             r == after[k - 1]
             u == after[k]
  <2>1. k \in 0..n /\ k - 1 \in 0..n /\ a \in Argument /\ a.name # m
    BY <1>1, ElementOfSeq
  <2>2. r \in Results /\ u = Applied(r, a) /\ m \notin r.settings.modes
    BY <1>2, <1>4, <2>1
  <2> HIDE DEF a, r, u
  <2>3. m \notin u.settings.modes
    <3>1. CASE r.kind = "error" \/ r.settings.command
      BY <2>1, <2>2, <3>1, AppliedIs
    <3>2. CASE ~(r.kind = "error" \/ r.settings.command)
      <4> DEFINE x == r.settings
                 y == u.settings
      <4>1. x \in SettingsType /\ r.kind = "ok" /\ ~x.command
        BY <2>2, <3>2, ResultIs
      <4>2. /\ Refused(x, a) => u = Error
            /\ ~Refused(x, a) => Effect(x, a, y)
        BY <2>1, <2>2, <4>1, AppliedIs
      <4>3. CASE Refused(x, a)
        BY <4>2, <4>3 DEF Error, Defaults
      <4>4. CASE ~Refused(x, a)
        <5>1. Effect(x, a, y) /\ m \notin x.modes
          BY <2>2, <4>2, <4>4
        <5> HIDE DEF x, y
        <5>2. y.modes = IF a.name \in ModeFlags THEN x.modes \cup {a.name} ELSE x.modes
          BY <2>1, <4>1, <5>1, EffectModes
        <5>3. m \notin y.modes
          BY <2>1, <5>1, <5>2
        <5> QED BY <5>3 DEF y
      <4> QED BY <4>3, <4>4
    <3> QED BY <3>1, <3>2
  <2> QED BY <2>1, <2>3 DEF u
<1>5. \A k \in 0..n : k \in S
  <2> HIDE DEF S, n
  <2> QED BY <1>1, <1>3, <1>4, Induction
<1> QED BY <1>1, <1>5 DEF Final

(* It is selected alone.                                                   *)
LEMMA OneIsClear ==
  ASSUME NEW s \in SettingsType, NEW m, m # "check-config",
         s.modes \subseteq {"no-config", m}, s.command => s.modes \subseteq {"no-config"}
  PROVE  ModeIsClear(s)
<1> DEFINE selected == s.modes \ {"no-config"}
<1>1. Cardinality(selected) <= 1
  <2>1. CASE selected = {}
    BY <2>1, FS_EmptySet
  <2>2. CASE selected # {}
    <3>1. selected = {m}
      BY <2>2
    <3>2. Cardinality({m}) = 1
      BY FS_Singleton
    <3> HIDE DEF selected
    <3> QED BY <3>1, <3>2
  <2> QED BY <2>1, <2>2
<1>2. "check-config" \notin selected
  OBVIOUS
<1>3. selected \cap {"check-config", "write-config", "print-config"} # {} => ~s.command
  OBVIOUS
<1> HIDE DEF selected
<1> QED BY <1>1, <1>2, <1>3 DEF ModeIsClear, selected

(* The text does not depend on the modes and the command.                  *)
LEMMA SameText ==
  ASSUME NEW s, NEW t, Alike(s, t)
  PROVE  ConfigText(s) = ConfigText(t) /\ (IsWritable(s) <=> IsWritable(t))
<1>1. ASSUME NEW key
      PROVE  LinesFor(s, key) = LinesFor(t, key)
  BY DEF LinesFor, Alike
<1>2. Lines(s) = Lines(t)
  BY <1>1 DEF Lines
<1> QED BY <1>2 DEF ConfigText, IsWritable

(* What is read of the whole text.                                         *)
LEMMA AllRead ==
  ASSUME NEW s \in SettingsType, NEW u, u = Upto(s, Keys)
  PROVE  /\ u \in Base /\ u.flags = s.flags /\ u.pdeath = s.pdeath /\ u.grace = s.grace
         /\ u.lists = s.lists /\ u.verbosity = Resolved(s.verbosity)
<1>1. Says(u, s, Keys)
  BY UptoIs
<1>2. s.flags \subseteq FlagKeys /\ s.lists \in [ListKeys -> Seq(Seq(Token))]
  BY Typed
<1>3. u \in SettingsType /\ u.modes = {} /\ ~u.command
  BY <1>1 DEF Says
<1>4. u.lists \in [ListKeys -> Seq(Seq(Token))]
  BY <1>3, Typed
<1>5. u.lists = s.lists
  <2>1. \A key \in ListKeys : u.lists[key] = s.lists[key]
    BY <1>1 DEF Says, Keys
  <2> QED BY <1>2, <1>4, <2>1
<1>6. u.flags = s.flags
  BY <1>1, <1>2 DEF Says, Keys
<1>7. u.pdeath = s.pdeath /\ u.grace = s.grace /\ u.verbosity = Resolved(s.verbosity)
  BY <1>1 DEF Says, Keys
<1> QED BY <1>3, <1>5, <1>6, <1>7 DEF Base

(* The environment adds the same to settings that differ in the modes and  *)
(* in what the verbosity is resolved from.                                 *)
LEMMA InForceIs ==
  ASSUME NEW s \in SettingsType, NEW fl, NEW v
  PROVE  InForce([s EXCEPT !.flags = fl, !.verbosity = v])
         = [flags |-> fl, modes |-> {}, pdeath |-> s.pdeath, verbosity |-> Resolved(v),
            grace |-> s.grace, lists |-> s.lists, command |-> s.command]
<1> DEFINE mo == s.modes
           pd == s.pdeath
           ve == s.verbosity
           gr == s.grace
           li == s.lists
           co == s.command
           t == [s EXCEPT !.flags = fl, !.verbosity = v]
<1>1. s = [flags |-> s.flags, modes |-> mo, pdeath |-> pd, verbosity |-> ve, grace |-> gr,
           lists |-> li, command |-> co]
  BY DEF SettingsType
<1>2. t = [flags |-> fl, modes |-> mo, pdeath |-> pd, verbosity |-> v, grace |-> gr,
           lists |-> li, command |-> co]
  <2> DEFINE sf == s.flags
  <2>1. s = [flags |-> sf, modes |-> mo, pdeath |-> pd, verbosity |-> ve, grace |-> gr,
             lists |-> li, command |-> co]
    BY <1>1
  <2>2. t = [s EXCEPT !.flags = fl, !.verbosity = v]
    OBVIOUS
  <2> HIDE DEF t, sf, mo, pd, ve, gr, li, co
  <2> QED BY <2>1, <2>2
<1> HIDE DEF t, mo, pd, ve, gr, li, co
<1>3. InForce(t) = [t EXCEPT !.modes = {}, !.verbosity = Resolved(v)]
  BY <1>2 DEF InForce
<1>4. InForce(t) = [flags |-> fl, modes |-> {}, pdeath |-> pd, verbosity |-> Resolved(v),
                    grace |-> gr, lists |-> li, command |-> co]
  BY <1>2, <1>3
<1> QED BY <1>4 DEF t, mo, pd, ve, gr, li, co

LEMMA EnvAdds ==
  ASSUME NEW s \in SettingsType, NEW t \in SettingsType, NEW env,
         s.flags = t.flags, s.pdeath = t.pdeath, s.grace = t.grace, s.lists = t.lists,
         t.verbosity = Resolved(s.verbosity), s.command = t.command
  PROVE  InForce(WithEnv(s, env).settings) = InForce(WithEnv(t, env).settings)
<1> DEFINE set == FlagsOf(s, env)
           fl == IF "warn-on-reap" \in set /\ "subreaper" \notin set THEN set \cup {"subreaper"}
                 ELSE set
           lev == Resolved(Numerals[env.verbosity[ByLevel(s, env)]])
           v(x) == IF ByLevel(s, env) = 0 THEN x ELSE lev
<1>1. s.verbosity \in 0..255 /\ t.verbosity \in 0..255
  BY Typed
<1>2. ByLevel(s, env) = ByLevel(t, env)
  <2>1. (s.verbosity # 0) = (t.verbosity # 0)
    BY <1>1, ResolvedIs
  <2> HIDE DEF Decides
  <2> QED BY <2>1 DEF ByLevel
<1>3. FlagsOf(s, env) = FlagsOf(t, env)
  BY DEF FlagsOf, FromEnv, BySub, ByGroup
<1>4. ASSUME NEW x \in SettingsType, ByLevel(x, env) = ByLevel(s, env),
             FlagsOf(x, env) = FlagsOf(s, env)
      PROVE  WithEnv(x, env).settings = [x EXCEPT !.flags = fl, !.verbosity = v(x.verbosity)]
  <2> DEFINE e == WithEnv(x, env)
  <2>1. /\ e.verbosity = ByLevel(x, env)
        /\ e.warn <=> "warn-on-reap" \in FlagsOf(x, env) /\ "subreaper" \notin FlagsOf(x, env)
    BY EnvIs
  <2> DEFINE on == IF e.warn THEN FlagsOf(x, env) \cup {"subreaper"} ELSE FlagsOf(x, env)
             verb == IF e.verbosity = 0 THEN x.verbosity
                     ELSE Resolved(Numerals[env.verbosity[e.verbosity]])
  <2>2. e.settings = [x EXCEPT !.flags = on, !.verbosity = verb]
    BY DEF WithEnv, FlagsOf, FromEnv, BySub, ByGroup, ByLevel
  <2> HIDE DEF e
  <2>3. on = fl
    BY <1>4, <2>1
  <2>4. verb = v(x.verbosity)
    BY <1>4, <2>1
  <2> HIDE DEF on, verb, v, fl
  <2>5. e.settings = [x EXCEPT !.flags = fl, !.verbosity = v(x.verbosity)]
    BY <2>2, <2>3, <2>4
  <2> QED BY <2>5 DEF e
<1> HIDE DEF fl
<1>5. Resolved(v(s.verbosity)) = Resolved(v(t.verbosity))
  BY <1>1, ResolvedIs
<1> HIDE DEF v
<1>6. /\ WithEnv(s, env).settings = [s EXCEPT !.flags = fl, !.verbosity = v(s.verbosity)]
      /\ WithEnv(t, env).settings = [t EXCEPT !.flags = fl, !.verbosity = v(t.verbosity)]
  BY <1>2, <1>3, <1>4
<1>7. InForce([s EXCEPT !.flags = fl, !.verbosity = v(s.verbosity)])
      = [flags |-> fl, modes |-> {}, pdeath |-> s.pdeath, verbosity |-> Resolved(v(s.verbosity)),
         grace |-> s.grace, lists |-> s.lists, command |-> s.command]
  BY InForceIs
<1>8. InForce([t EXCEPT !.flags = fl, !.verbosity = v(t.verbosity)])
      = [flags |-> fl, modes |-> {}, pdeath |-> t.pdeath, verbosity |-> Resolved(v(t.verbosity)),
         grace |-> t.grace, lists |-> t.lists, command |-> t.command]
  BY InForceIs
<1> QED BY <1>5, <1>6, <1>7, <1>8

(* What a mode comes to.                                                   *)
LEMMA OutcomeIs ==
  ASSUME NEW k, NEW s, NEW file, NEW o, o = Outcome(k, s, file)
  PROVE  o.kind = k /\ o.settings = s /\ o.file = file
  BY DEF Outcome

LEMMA WroteIs ==
  ASSUME NEW s, NEW file, NEW env, NEW o, o = Perform(s, file, env), o.kind = "written",
         NEW text, text = ConfigText(s)
  PROVE  /\ ModeIsClear(s) /\ "write-config" \in s.modes /\ PolicyIsSound(s) /\ IsWritable(s)
         /\ "check-config" \notin s.modes
         /\ o.file = TextFile(text) /\ CheckConfig(TextFile(text)).kind # "error"
<1>1. ModeIsClear(s)
  BY DEF Perform, Failure, Outcome
<1>2. "check-config" \notin s.modes
  BY <1>1, CheckIs DEF Perform
<1>3. PolicyIsSound(s)
  BY <1>1, <1>2 DEF Perform, Failure, Outcome
<1>4. "write-config" \in s.modes
  BY Performed
<1>5. o = IF ~IsWritable(s) THEN Failure(file) ELSE Written(s, TextFile(text))
  BY <1>1, <1>2, <1>3, <1>4 DEF Perform
<1> DEFINE fail(x) == Failure(x)
<1>9. ASSUME NEW x
      PROVE  fail(x).kind = "error"
  BY OutcomeIs DEF Failure
<1> HIDE DEF fail
<1>10. o = IF ~IsWritable(s) THEN fail(file) ELSE Written(s, TextFile(text))
  BY <1>5 DEF fail
<1>6. IsWritable(s) /\ o = Written(s, TextFile(text))
  BY <1>9, <1>10
<1>11. o = IF CheckConfig(TextFile(text)).kind = "error" THEN fail(TextFile(text))
           ELSE Outcome("written", s, TextFile(text))
  BY <1>6 DEF Written, fail
<1>7. /\ CheckConfig(TextFile(text)).kind # "error"
      /\ o = Outcome("written", s, TextFile(text))
  BY <1>9, <1>11
<1>8. o.file = TextFile(text)
  BY <1>7, OutcomeIs
<1> QED BY <1>1, <1>2, <1>3, <1>4, <1>6, <1>7, <1>8

LEMMA PrintedIs ==
  ASSUME NEW s, NEW file, NEW env, ModeIsClear(s), PolicyIsSound(s), IsWritable(s),
         "print-config" \in s.modes, "write-config" \notin s.modes, "check-config" \notin s.modes
  PROVE  Perform(s, file, env).file = TextFile(ConfigText(s))
<1>1. Perform(s, file, env) = Outcome("printed", s, TextFile(ConfigText(s)))
  BY DEF Perform
<1> QED BY <1>1, OutcomeIs

LEMMA RanIs ==
  ASSUME NEW s, NEW file, NEW env, ModeIsClear(s), PolicyIsSound(s), s.command,
         s.modes \subseteq {"no-config"}
  PROVE  /\ Perform(s, file, env).kind = "run"
         /\ Perform(s, file, env).settings = WithEnv(s, env).settings
<1>1. Perform(s, file, env) = Runs(s, WithEnv(s, env), file)
  BY DEF Perform
<1>2. "explain" \notin s.modes
  OBVIOUS
<1> QED BY <1>1, <1>2, RunsIs

LEMMA NotChecking ==
  ASSUME NEW argv \in Seq(Argument), NEW base \in SettingsType,
         NEW r, r = Final(argv, base), "check-config" \notin r.settings.modes
  PROVE  ParseArgs(argv, base) = r
<1>1. ParseArgs(argv, base) = Refusing(r, argv)
  BY AfterIs DEF Final
<1> QED BY <1>1 DEF Refusing

LEMMA OneArgument ==
  ASSUME NEW base \in SettingsType, NEW a
  PROVE  /\ <<>> \in Seq(Argument) /\ Final(<<>>, base) = Fine(base)
         /\ <<a>> = Append(<<>>, a) /\ Len(<<a>>) = 1 /\ <<a>>[1] = a
<1>1. <<>> \in Seq(Argument) /\ Len(<<>>) = 0
  BY EmptySeq
<1>2. After(<<>>, base)[0] = Fine(base)
  BY <1>1, AfterIs
<1> QED BY <1>1, <1>2 DEF Final

(* --check-config alone checks the file.                                   *)
LEMMA CheckedIs ==
  ASSUME NEW file, NEW env
  PROVE  Invoke(<<Flag("check-config")>>, file, file, env) = CheckConfig(file)
<1> DEFINE m == "check-config"
           argv == <<Flag(m)>>
           none == <<>>
           r == Final(none, Defaults)
           u == Final(argv, Defaults)
           s == u.settings
<1>1. m \in ModeFlags
  BY DEF ModeFlags
<1>2. /\ none \in Seq(Argument) /\ r = Fine(Defaults) /\ argv = Append(none, Flag(m))
      /\ Len(argv) = 1 /\ argv[1] = Flag(m)
  BY OneArgument, DefaultsTyped
<1> HIDE DEF argv, none, m, r
<1>3. r.kind = "ok" /\ r.settings = Defaults /\ ~r.settings.command /\ r.settings.modes = {}
  <2>1. r.kind = "ok" /\ r.settings = Defaults
    BY <1>2, DefaultsTyped, FineTyped
  <2> QED BY <2>1 DEF Defaults
<1>4. /\ argv \in Seq(Argument) /\ u \in Results /\ u.kind = "ok" /\ Alike(Defaults, u.settings)
      /\ ~u.settings.command /\ u.settings.modes = r.settings.modes \cup {m}
  <2>1. argv \in Seq(Argument) /\ ModeAdded(r, u, m)
    BY <1>1, <1>2, MoreModes DEF r
  <2> HIDE DEF u
  <2> QED BY <1>3, <2>1 DEF ModeAdded
<1>5. s.modes = {m} /\ s \in SettingsType
  BY <1>3, <1>4, ResultIs
<1>6. ~GraceWithCheck(argv)
  <2>1. \A k \in DOMAIN argv : argv[k].name = m
    <3>1. DOMAIN argv = 1..1
      BY <1>2, <1>4, LenProperties
    <3> QED BY <1>2, <3>1 DEF Flag
  <2> QED BY <2>1 DEF GraceWithCheck, m
<1>7. ParseArgs(argv, Defaults) = u
  <2>1. ParseArgs(argv, Defaults) = Refusing(u, argv)
    BY <1>4, AfterIs, DefaultsTyped DEF Final
  <2> QED BY <1>6, <2>1 DEF Refusing
<1>8. ParseAll(argv, file, file) = u
  <2>1. u.settings.modes \cap {"no-config", "print-config", "write-config", "check-config"} # {}
    BY <1>5 DEF m
  <2> HIDE DEF u
  <2> QED BY <1>7, <2>1 DEF ParseAll, OverFile
<1>9. ModeIsClear(s)
  <2>1. s = Moded(Defaults, {m}, FALSE)
    <3>1. s.command = FALSE
      BY <1>4, <1>5, Typed
    <3> QED BY <1>4, <1>5, <3>1, DefaultsTyped, ModedOnly
  <2> HIDE DEF s
  <2>2. /\ [s EXCEPT !.modes = {"check-config"}, !.command = FALSE]
           = [Defaults EXCEPT !.modes = {"check-config"}]
    <3>1. s = [Defaults EXCEPT !.modes = {"check-config"}, !.command = FALSE]
      BY <2>1 DEF Moded, m
    <3> DEFINE d == Defaults
    <3>2. d \in SettingsType
      BY DefaultsTyped
    <3>3. s = [d EXCEPT !.modes = {"check-config"}, !.command = FALSE] /\ d.command = FALSE
      BY <3>1 DEF Defaults
    <3> HIDE DEF d
    <3>4. [s EXCEPT !.modes = {"check-config"}, !.command = FALSE]
          = [d EXCEPT !.modes = {"check-config"}]
      BY <3>2, <3>3 DEF SettingsType
    <3> QED BY <3>4 DEF d
  <2>3. s.modes \ {"no-config"} = {m}
    BY <1>5 DEF m
  <2>4. Cardinality({m}) = 1
    BY FS_Singleton
  <2>6. Cardinality(s.modes \ {"no-config"}) <= 1
    <3>1. Cardinality(s.modes \ {"no-config"}) = 1
      BY <2>3, <2>4
    <3> QED BY <3>1
  <2>7. "no-config" \notin s.modes /\ ~s.command
    BY <1>4, <1>5 DEF m, s
  <2>5. Cardinality(s.modes \ {"no-config"}) <= 1 /\ "no-config" \notin s.modes /\ ~s.command
    BY <2>6, <2>7
  <2> QED BY <2>2, <2>5 DEF ModeIsClear
<1>10. Perform(s, file, env) = CheckConfig(file)
  <2>1. "check-config" \in s.modes
    BY <1>5 DEF m
  <2> HIDE DEF s
  <2> QED BY <1>9, <2>1 DEF Perform
<1>11. Attempt(u, file, env) = Perform(s, file, env)
  <2> HIDE DEF u
  <2> QED BY <1>4 DEF Attempt, s
<1> QED BY <1>8, <1>10, <1>11 DEF Invoke, argv, m

(* A later run over the file.                                              *)
RunsWith(o, t, env) == o.kind = "run" /\ o.settings = WithEnv(t, env).settings

LEMMA LaterIs ==
  ASSUME NEW base \in Base, NEW text, ParseText(text) = Fine(base),
         NEW l, l = Moded(base, {}, TRUE), PolicyIsSound(l), NEW env
  PROVE  RunsWith(Invoke(<<Flag("CMD")>>, TextFile(text), TextFile(text), env), l, env)
<1> DEFINE file == TextFile(text)
           o == Invoke(<<Flag("CMD")>>, file, file, env)
           argv == <<Flag("CMD")>>
           none == <<>>
           u == Final(argv, base)
           t == Moded(base, {}, TRUE)
<1>1. base \in SettingsType /\ base.modes = {} /\ ~base.command
  BY DEF Base
<1>2. Defaults \in SettingsType /\ Defaults.modes = {} /\ ~Defaults.command
  BY DefaultsTyped DEF Defaults
<1>3. ASSUME NEW b \in SettingsType, b.modes = {}, ~b.command
      PROVE  /\ ParseArgs(argv, b) = Final(argv, b)
             /\ Final(argv, b).kind = "ok" /\ Final(argv, b) \in Results
             /\ Alike(b, Final(argv, b).settings) /\ Final(argv, b).settings.command
             /\ Final(argv, b).settings.modes = {}
  <2> DEFINE r == Final(none, b)
             v == Final(argv, b)
  <2>1. none \in Seq(Argument) /\ r = Fine(b) /\ argv = Append(none, Flag("CMD"))
    BY OneArgument
  <2> HIDE DEF none, argv, r
  <2>2. r.kind = "ok" /\ r.settings = b
    BY <2>1, FineTyped
  <2>3. r.kind = "ok" /\ ~r.settings.command
    BY <1>3, <2>2
  <2>4. argv \in Seq(Argument) /\ CommandAdded(r, v)
    BY <2>1, <2>3, ThenCommand DEF r
  <2> HIDE DEF v
  <2>5. /\ v \in Results /\ v.kind = "ok" /\ Alike(b, v.settings) /\ v.settings.command
        /\ v.settings.modes = {}
    BY <1>3, <2>2, <2>4 DEF CommandAdded
  <2>6. ParseArgs(argv, b) = v
    BY <2>4, <2>5, NotChecking DEF v
  <2> QED BY <2>5, <2>6 DEF v
<1> HIDE DEF argv, none
<1>4. ParseArgs(argv, Defaults).settings.modes = {} /\ ParseArgs(argv, Defaults).kind = "ok"
  BY <1>2, <1>3
<1>5. LoadConfig(file, file, FALSE) = Fine(base)
  BY DEF LoadConfig, TextFile
<1>6. ParseAll(argv, file, file) = u
  <2> DEFINE only == ParseArgs(argv, Defaults)
             loaded == Fine(base)
  <2>1. only.settings.modes = {} /\ only.kind = "ok"
    BY <1>4
  <2>2. loaded.kind # "error" /\ loaded.settings = base
    BY <1>1, FineTyped
  <2>3. ParseAll(argv, file, file) = OverFile(only, loaded, argv)
    BY <1>5 DEF ParseAll
  <2> HIDE DEF only, loaded
  <2>4. OverFile(only, loaded, argv) = ParseArgs(argv, base)
    BY <2>1, <2>2 DEF OverFile
  <2> QED BY <1>1, <1>3, <2>3, <2>4
<1>7. /\ u.kind = "ok" /\ u \in Results /\ Alike(base, u.settings) /\ u.settings.command
      /\ u.settings.modes = {}
  BY <1>1, <1>3
<1> HIDE DEF u
<1>8. u.settings = t /\ u.settings \in SettingsType
  <2>1. u.settings \in SettingsType
    BY <1>7, ResultIs
  <2>2. u.settings.command = TRUE
    BY <1>7, <2>1, Typed
  <2> QED BY <1>1, <1>7, <2>1, <2>2, ModedOnly
<1>9. ModeIsClear(u.settings)
  BY <1>7, <1>8, OneIsClear
<1>10. o = Perform(u.settings, file, env)
  <2>1. o = Attempt(u, file, env)
    BY <1>6 DEF Invoke, argv
  <2> QED BY <1>7, <2>1 DEF Attempt
<1> DEFINE s == u.settings
<1>11. ModeIsClear(s) /\ PolicyIsSound(s) /\ s.command /\ s.modes \subseteq {"no-config"}
  BY <1>7, <1>8, <1>9
<1> HIDE DEF s
<1>12. o.kind = "run" /\ o.settings = WithEnv(s, env).settings
  BY <1>10, <1>11, RanIs DEF s
<1> QED BY <1>8, <1>12 DEF s, RunsWith

(* What is written gives a later run what it would have had.               *)
LEMMA ReadBack ==
  ASSUME NEW argv \in Seq(Argument), \A k \in 1..Len(argv) : argv[k].name # "write-config",
         PolicyLeavesModes(SettingsType), NEW env
  PROVE  ReadsBack(argv, env)
<1> DEFINE W == Append(argv, Flag("write-config"))
           P == Append(argv, Flag("print-config"))
           N == Append(argv, Flag("no-config"))
           D == Append(N, Flag("CMD"))
           w == Invoke(W, Absent, Absent, env)
           printed == Invoke(P, Absent, Absent, env)
           checked == Invoke(<<Flag("check-config")>>, w.file, w.file, env)
           later == Invoke(<<Flag("CMD")>>, w.file, w.file, env)
           direct == Invoke(D, Absent, Absent, env)
<1> SUFFICES ASSUME w.kind = "written"
             PROVE  /\ checked.kind = "checked" /\ printed.file = w.file /\ later.kind = "run"
                    /\ InForce(later.settings) = InForce(direct.settings)
  BY DEF ReadsBack, Alone
<1> DEFINE r == Final(argv, Defaults)
           u == Final(W, Defaults)
           q == Final(P, Defaults)
           n == Final(N, Defaults)
           d == Final(D, Defaults)
           s == r.settings
           a == u.settings
           x == q.settings
           y == d.settings
           text == ConfigText(a)
           file == TextFile(text)
           b == Upto(a, Keys)
           l == Moded(b, {}, TRUE)
<1>1. /\ W \in Seq(Argument) /\ P \in Seq(Argument) /\ N \in Seq(Argument)
      /\ ModeAdded(r, u, "write-config") /\ ModeAdded(r, q, "print-config")
      /\ ModeAdded(r, n, "no-config")
  <2>1. {"write-config", "print-config", "no-config"} \subseteq ModeFlags
    BY DEF ModeFlags
  <2> QED BY <2>1, MoreModes
<1> HIDE DEF W, P, N
<1>2. w = Attempt(ParseArgs(W, Defaults), Absent, env)
  BY <1>1, NoFile
<1>3. u.kind = "ok" /\ w = Perform(a, Absent, env)
  <2> DEFINE p == ParseArgs(W, Defaults)
  <2>1. p.kind # "error" /\ w = Perform(p.settings, Absent, env)
    <3> HIDE DEF w, p
    <3>1. Attempt(p, Absent, env).kind # "error"
      BY <1>2 DEF p
    <3> QED BY <1>2, <3>1, Attempted DEF p
  <2>2. p = Refusing(u, W)
    BY <1>1, AfterIs, DefaultsTyped DEF Final
  <2> HIDE DEF p, w, u
  <2>3. p = u
    <3>1. p # Error
      BY <2>1 DEF Error
    <3> QED BY <2>2, <3>1 DEF Refusing
  <2>4. u.kind \in {"ok", "error"}
    BY <1>1, ResultIs DEF ModeAdded
  <2> QED BY <2>1, <2>3, <2>4
<1> HIDE DEF w, r, u, q, d, n
<1>4. /\ ModeIsClear(a) /\ "write-config" \in a.modes /\ PolicyIsSound(a) /\ IsWritable(a)
      /\ w.file = file /\ CheckConfig(file).kind # "error"
  <2> HIDE DEF a
  <2> QED BY <1>3, WroteIs
<1>5. s \in SettingsType /\ a \in SettingsType /\ "write-config" \notin s.modes /\ Sane(s)
  <2>1. r \in Results /\ u \in Results
    BY <1>1 DEF ModeAdded
  <2>2. "write-config" \notin s.modes
    BY ModeFrom DEF r
  <2>3. Sane(s)
    BY AfterSane DEF r, Final
  <2> QED BY <2>1, <2>2, <2>3, ResultIs
<1>6. r.kind = "ok" /\ ~s.command
  <2>1. r \in Results /\ r.kind \in {"ok", "error"}
    BY <1>1, ResultIs DEF ModeAdded
  <2>2. u # r
    BY <1>4, <1>5
  <2> QED BY <1>1, <2>1, <2>2 DEF ModeAdded
<1>7. /\ Alike(s, a) /\ ~a.command /\ a.modes = s.modes \cup {"write-config"}
      /\ q.kind = "ok" /\ Alike(s, x) /\ ~x.command /\ x.modes = s.modes \cup {"print-config"}
      /\ n.kind = "ok" /\ Alike(s, n.settings) /\ ~n.settings.command
      /\ n.settings.modes = s.modes \cup {"no-config"}
      /\ q \in Results
  BY <1>1, <1>6 DEF ModeAdded
<1>8. D \in Seq(Argument) /\ CommandAdded(n, d)
  BY <1>1, <1>7, ThenCommand, DefaultsTyped DEF n, d
<1>9. x \in SettingsType /\ y \in SettingsType
  BY <1>7, <1>8, ResultIs DEF CommandAdded
<1>10. s.modes \subseteq {"no-config"}
  <2>1. a.modes \ {"no-config"} = {"write-config"}
    BY <1>4, <1>5, OnlyMode
  <2> QED BY <1>5, <1>7, <2>1
<1> HIDE DEF D, s, a, x, y
<1>11. ParseText(text) = Fine(b) /\ text \in Seq(Token)
  <2>1. Sane(a)
    BY <1>5, <1>7, Untouched DEF Alike
  <2> QED BY <1>4, <1>5, <2>1, TextIsRead
<1>12. /\ b \in Base /\ b.flags = a.flags /\ b.pdeath = a.pdeath /\ b.grace = a.grace
       /\ b.lists = a.lists /\ b.verbosity = Resolved(a.verbosity)
  BY <1>5, AllRead
<1> HIDE DEF b, text
<1>13. ASSUME NEW e \in SettingsType, NEW f \in SettingsType, Alike(e, f), PolicyIsSound(e)
       PROVE  PolicyIsSound(f)
  <2>1. f = Moded(e, f.modes, f.command) /\ f.modes \in SUBSET ModeFlags /\ f.command \in BOOLEAN
    BY <1>13, ModedOnly, Typed
  <2>2. PolicyIsSound(Moded(e, f.modes, f.command)) <=> PolicyIsSound(e)
    BY <2>1 DEF PolicyLeavesModes, Moded
  <2> QED BY <1>13, <2>1, <2>2
<1>14. PolicyIsSound(s)
  <2>1. Alike(a, s)
    BY <1>7 DEF Alike
  <2> QED BY <1>4, <1>5, <1>13, <2>1
<1>15. CheckConfig(file).kind = "checked" /\ PolicyIsSound(b)
  <2>1. LoadConfig(file, file, TRUE) = Fine(b)
    BY <1>11 DEF LoadConfig, TextFile
  <2>2. CheckConfig(file) = CheckResult(Fine(b), file)
    BY <2>1 DEF CheckConfig
  <2>3. Fine(b).settings = b
    BY DEF Fine
  <2>4. CheckConfig(file).kind = "checked"
    BY <1>4, CheckIs
  <2> HIDE DEF file
  <2>5. PolicyIsSound(b)
    <3> SUFFICES ASSUME ~PolicyIsSound(b) PROVE FALSE
      OBVIOUS
    <3>1. CheckConfig(file) = Failure(file)
      BY <2>2, <2>3 DEF CheckResult
    <3>2. Failure(file).kind = "error"
      BY OutcomeIs DEF Failure
    <3> QED BY <1>4, <3>1, <3>2
  <2> QED BY <2>4, <2>5
<1>16. checked.kind = "checked"
  BY <1>4, <1>15, CheckedIs
<1>17. printed.file = w.file
  <2>1. ParseArgs(P, Defaults) = q
    <3>1. "check-config" \notin q.settings.modes
      BY <1>7, <1>10 DEF x
    <3> QED BY <1>1, <3>1, NotChecking, DefaultsTyped DEF q
  <2>2. printed = Perform(x, Absent, env)
    <3>1. printed = Attempt(q, Absent, env)
      BY <1>1, <2>1, NoFile
    <3> HIDE DEF printed
    <3> QED BY <1>7, <3>1 DEF Attempt, x
  <2>3. ModeIsClear(x)
    BY <1>7, <1>9, <1>10, OneIsClear
  <2>4. PolicyIsSound(x)
    BY <1>5, <1>7, <1>9, <1>13, <1>14
  <2>5. ConfigText(x) = ConfigText(a) /\ IsWritable(x)
    <3>1. Alike(x, a)
      BY <1>7 DEF Alike
    <3> QED BY <1>4, <3>1, SameText
  <2>6. /\ "print-config" \in x.modes /\ "write-config" \notin x.modes
        /\ "check-config" \notin x.modes
    BY <1>5, <1>7, <1>10
  <2> HIDE DEF printed
  <2>7. Perform(x, Absent, env).file = TextFile(ConfigText(x))
    BY <2>3, <2>4, <2>5, <2>6, PrintedIs
  <2> QED BY <1>4, <2>2, <2>5, <2>7 DEF file, text
<1>18. l \in SettingsType /\ Alike(b, l) /\ l.modes = {} /\ l.command = TRUE
  <2>1. b \in SettingsType /\ {} \in SUBSET ModeFlags
    BY <1>12 DEF Base
  <2> QED BY <2>1, ModedIs
<1>19. later.kind = "run" /\ later.settings = WithEnv(l, env).settings
  <2>1. PolicyIsSound(l)
    <3>1. b \in SettingsType
      BY <1>12 DEF Base
    <3> QED BY <1>13, <1>15, <1>18, <3>1
  <2>2. l = Moded(b, {}, TRUE)
    OBVIOUS
  <2> HIDE DEF l
  <2>3. RunsWith(Invoke(<<Flag("CMD")>>, file, file, env), l, env)
    BY <1>11, <1>12, <2>1, <2>2, LaterIs
  <2>4. later = Invoke(<<Flag("CMD")>>, file, file, env)
    BY <1>4
  <2> HIDE DEF later, file
  <2> QED BY <2>3, <2>4 DEF RunsWith
<1>20. y.modes \subseteq {"no-config"} /\ y.command = TRUE /\ Alike(s, y)
  <2>1. /\ Alike(n.settings, y) /\ y.command /\ y.modes = n.settings.modes
    BY <1>8 DEF CommandAdded, y
  <2>2. y.command \in BOOLEAN
    BY <1>9, Typed
  <2>3. Alike(s, y)
    BY <1>7, <2>1 DEF Alike
  <2> QED BY <1>7, <1>10, <2>1, <2>2, <2>3
<1>21. direct.settings = WithEnv(y, env).settings
  <2>1. ParseArgs(D, Defaults) = d
    <3>1. "check-config" \notin d.settings.modes
      BY <1>20 DEF y
    <3> QED BY <1>8, <3>1, NotChecking, DefaultsTyped DEF d
  <2>2. direct = Perform(y, Absent, env)
    <3>1. direct = Attempt(d, Absent, env)
      BY <1>8, <2>1, NoFile
    <3> HIDE DEF direct
    <3>2. d.kind = "ok"
      BY <1>8 DEF CommandAdded
    <3> QED BY <3>1, <3>2 DEF Attempt, y
  <2>3. ModeIsClear(y)
    <3>1. y.modes \subseteq {"no-config", "explain"}
      BY <1>20
    <3> QED BY <1>9, <1>20, <3>1, OneIsClear
  <2>4. PolicyIsSound(y)
    BY <1>5, <1>9, <1>13, <1>14, <1>20
  <2> HIDE DEF direct
  <2> QED BY <1>20, <2>2, <2>3, <2>4, RanIs
<1>22. InForce(WithEnv(y, env).settings) = InForce(WithEnv(l, env).settings)
  <2> HIDE DEF l
  <2>2. Alike(s, a) /\ Alike(s, y) /\ Alike(b, l)
    BY <1>7, <1>18, <1>20
  <2>3. y.command = l.command
    BY <1>18, <1>20
  <2>4. l.verbosity = Resolved(y.verbosity)
    BY <1>12, <2>2 DEF Alike
  <2>1. /\ y.flags = l.flags /\ y.pdeath = l.pdeath /\ y.grace = l.grace /\ y.lists = l.lists
        /\ l.verbosity = Resolved(y.verbosity) /\ y.command = l.command
    BY <1>12, <2>2, <2>3, <2>4 DEF Alike
  <2> QED BY <1>9, <1>18, <2>1, EnvAdds
<1> QED BY <1>16, <1>17, <1>19, <1>21, <1>22

(* Whatever the command line and the environment, a configuration that was *)
(* written without an error is one that --check-config accepts and         *)
(* --print-config prints, and gives a later run the settings written       *)
(* (cli.rs, config_text, parse_config_content; platform/mod.rs,            *)
(* write_config, check_config).                                            *)
THEOREM WrittenAlwaysRead ==
  ASSUME IsCase, WritesOnce, PolicyLeavesModes(SettingsType)
  PROVE  WrittenIsRead
<1> SUFFICES ASSUME kind = "options"
             PROVE  ReadsBack(input.argv, input.env)
  BY DEF WrittenIsRead
<1>1. input.argv \in Seq(Argument)
  BY DEF IsCase
<1>2. DOMAIN input.argv = 1..Len(input.argv)
  BY <1>1, LenProperties
<1>3. \A k \in 1..Len(input.argv) : input.argv[k].name # "write-config"
  BY <1>2 DEF WritesOnce
<1> QED BY <1>1, <1>3, ReadBack
=============================================================================
