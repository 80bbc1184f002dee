------------------------------ MODULE ElfProbe ------------------------------
(***************************************************************************)
(* The loader an ELF file names: read_elf_interpreter_from_file and        *)
(* parse_elf_interpreter of src/platform/unix/mod.rs, next to what the     *)
(* kernel does with the file (load_elf_binary).                            *)
(*                                                                         *)
(* A file is its length, the fields of its header and its program headers  *)
(* (type, offset, filesz, vaddr, memsz, executable), and for each the      *)
(* bytes the file holds from its offset on: "0" is a NUL, others text.     *)
(***************************************************************************)
EXTENDS Naturals, Sequences

CONSTANTS
    Word,          \* addresses are 0..Word: u64::MAX
    TaskSize,      \* of the kernel's: no mapping beyond
    HeaderLen(_),  \* of a class, "32" or "64"
    EntryLen(_),   \* of a program header of a class
    MaxTable,      \* ELF_PROGRAM_HEADER_TABLE_MAX_LEN
    KernelTable,   \* the kernel's own limit on the table
    MaxInterp      \* ELF_INTERPRETER_MAX_LEN, PATH_MAX

Invalid == [kind |-> "invalid", path |-> <<>>]   \* the shell gets a grant
NoInterpreter == [kind |-> "none", path |-> <<>>]
Interpreter(p) == [kind |-> "interpreter", path |-> p]

Smallest(S) == CHOOSE k \in S : \A m \in S : k <= m

TableLen(f) == f.entsize * Len(f.headers)

HeaderIsRunnable(f) ==
    /\ f.magic /\ f.little
    /\ f.type \in {"EXEC", "DYN"} /\ f.native
    /\ f.class \in {"32", "64"}
    /\ f.len >= HeaderLen(f.class)

TableIsReadable(f) ==
    /\ f.entsize = EntryLen(f.class)
    /\ TableLen(f) <= MaxTable
    /\ f.phoff + TableLen(f) <= f.len

(* elf_load_segment_is_valid, elf_entry_is_in_executable_load_segment *)
LoadIsValid(h) == h.filesz <= h.memsz /\ h.vaddr + h.memsz <= Word
HoldsEntry(h, entry) ==
    h.executable /\ h.vaddr <= entry /\ entry < h.vaddr + h.memsz

(* The range is one of the file: elf_file_range_is_valid. *)
InFile(h, f) == h.offset + h.filesz <= f.len

Read(h) == SubSeq(h.bytes, 1, h.filesz)
Nuls(bytes) == {k \in DOMAIN bytes : bytes[k] = "0"}
UpToNul(bytes) == SubSeq(bytes, 1, Smallest(Nuls(bytes)) - 1)   \* elf_interpreter_path

InterpIsValid(h, f) ==
    /\ h.filesz \in 1..MaxInterp
    /\ InFile(h, f)
    /\ Nuls(Read(h)) # {} /\ UpToNul(Read(h)) # <<>>

Loads(f) == {k \in DOMAIN f.headers : f.headers[k].type = "LOAD"}
Interps(f) == {k \in DOMAIN f.headers : f.headers[k].type = "INTERP"}

MutNamed(f) == f.headers[CHOOSE k \in Interps(f) : \A m \in Interps(f) : m <= k]

(* Linux uses the first PT_INTERP. *)
Named(f) == f.headers[Smallest(Interps(f))]

(* read_elf_interpreter_from_file *)
Probe(f) ==
    IF \/ ~HeaderIsRunnable(f) \/ ~TableIsReadable(f)
       \/ \E k \in Loads(f) : ~LoadIsValid(f.headers[k])
       \/ Loads(f) = {}
       \/ Interps(f) # {} /\ ~InterpIsValid(Named(f), f)
       \/ Interps(f) = {} /\ \A k \in Loads(f) : ~HoldsEntry(f.headers[k], f.entry)
    THEN Invalid
    ELSE IF Interps(f) = {} THEN NoInterpreter ELSE Interpreter(UpToNul(Read(Named(f))))

(* parse_elf_interpreter, which the benchmarks run on bytes in memory. *)
Parsed(f) ==
    LET before == IF Interps(f) = {} THEN Len(f.headers) ELSE Smallest(Interps(f))
    IN  IF ~f.magic \/ f.len < HeaderLen("32") \/ f.class \notin {"32", "64"} THEN NoInterpreter
        ELSE IF f.entsize < EntryLen(f.class) \/ f.phoff + f.entsize * before > f.len THEN Invalid
        ELSE IF Interps(f) = {} THEN NoInterpreter
        ELSE IF ~InFile(Named(f), f) \/ Nuls(Read(Named(f))) = {} THEN Invalid
        ELSE IF UpToNul(Read(Named(f))) = <<>> THEN NoInterpreter
        ELSE Interpreter(UpToNul(Read(Named(f))))

----------------------------------------------------------------------------
(* The kernel.  "refused" is ENOEXEC, after which execvp runs the shell;   *)
(* "failed" any other error, or a process that is dead on arrival.         *)

Refused == [kind |-> "refused", path |-> <<>>]
FailedLoad == [kind |-> "failed", path |-> <<>>]

FirstInterp(f) == f.headers[Smallest(Interps(f))]

Kernel(f) ==
    LET interp == FirstInterp(f)
        fits(h) == h.filesz <= h.memsz /\ h.memsz <= TaskSize /\ h.vaddr + h.memsz <= TaskSize
    IN  IF \/ ~f.magic \/ ~f.little \/ ~f.native \/ f.type \notin {"EXEC", "DYN"}
           \/ f.class \notin {"32", "64"} \/ f.entsize # EntryLen(f.class)
           \/ TableLen(f) \notin 1..KernelTable
           \/ f.phoff + TableLen(f) > f.len
        THEN Refused
        ELSE IF Interps(f) # {} /\ interp.filesz \notin 2..MaxInterp THEN Refused
        ELSE IF Interps(f) # {} /\ ~InFile(interp, f) THEN FailedLoad
        ELSE IF Interps(f) # {} /\ Read(interp)[interp.filesz] # "0" THEN Refused
        ELSE IF Loads(f) = {} \/ \E k \in Loads(f) : ~fits(f.headers[k]) THEN FailedLoad
        ELSE IF Interps(f) # {} THEN Interpreter(UpToNul(Read(interp)))
        ELSE IF \E k \in Loads(f) : HoldsEntry(f.headers[k], f.entry)
        THEN NoInterpreter ELSE FailedLoad

(* Files as linkers write them: the string ends at its first NUL and the   *)
(* table is not longer than the kernel takes.  On others the kernel is     *)
(* stricter than the probe, which then grants no shell.                    *)
Conventional(f) ==
    /\ TableLen(f) <= KernelTable
    /\ Interps(f) # {} /\ FirstInterp(f).filesz <= Len(FirstInterp(f).bytes) /\ Nuls(Read(FirstInterp(f))) # {} =>
          Read(FirstInterp(f))[FirstInterp(f).filesz] = "0"

(* Whatever the kernel would load the file with is what tino grants, and a *)
(* file the kernel refuses gets the shell that execvp turns to.            *)
NamesTheLoader(f) ==
    Conventional(f) =>
        /\ Kernel(f) = Refused => Probe(f) = Invalid
        /\ Kernel(f).kind = "interpreter" /\ Kernel(f).path # <<>> => Probe(f) = Kernel(f)
        /\ Kernel(f) = NoInterpreter => Probe(f) = NoInterpreter
        /\ Probe(f).kind = "interpreter" => Parsed(f) = Probe(f)
=============================================================================
