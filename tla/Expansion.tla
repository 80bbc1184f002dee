----------------------------- MODULE Expansion -----------------------------
(***************************************************************************)
(* --expand-env: expand_command_arg and what it calls (src/platform/unix/  *)
(* child.rs).  An argument is a sequence of tokens; "N" and "E" stand for  *)
(* names, "x" for any other text.  A brace closes the reference it belongs *)
(* to, which is found before the default in it is split off and expanded:  *)
(* three passes over one text that have to agree on what nests.            *)
(***************************************************************************)
EXTENDS Naturals, Sequences

CONSTANTS
    Env(_),        \* value of a variable, or Unset
    NameTokens,    \* tokens that make up a name
    MaxDepth       \* MAX_ENV_EXPANSION_DEPTH: 32

Unset == <<"unset">>
Failed == <<"error">>

Cat(a, b) == IF Failed \in {a, b} THEN Failed ELSE a \o b

IsName(s) == s # <<>> /\ \A k \in DOMAIN s : s[k] \in NameTokens

IsAt(s, i, tokens) ==
    i + Len(tokens) - 1 <= Len(s) /\ SubSeq(s, i, i + Len(tokens) - 1) = tokens

----------------------------------------------------------------------------

Opens(s, i) == IsAt(s, i, <<"$", "{">>)

MutEscapes(s, i) == FALSE

(* "$${" opens a literal brace pair: its closing brace is its own. *)
Escapes(s, i) == IsAt(s, i, <<"$", "$", "{">>)

(* One step of the scan that find_matching_brace and split_braced_default *)
(* have in common: the frames still open after it, and where it goes on.   *)
ScanStep(s, at) ==
    LET i == at.i  frames == at.frames
    IN  IF Escapes(s, i) THEN [i |-> i + 3, frames |-> <<"literal">> \o frames]
        ELSE IF IsAt(s, i, <<"$", "$">>) THEN [i |-> i + 2, frames |-> frames]
        ELSE IF Opens(s, i) THEN [i |-> i + 2, frames |-> <<"expansion">> \o frames]
        ELSE [i |-> i + 1,
              frames |-> CASE s[i] = "{" /\ frames # <<>> /\ Head(frames) = "literal" ->
                                 <<"literal">> \o frames
                           [] s[i] = "}" /\ frames # <<>> -> Tail(frames)
                           [] OTHER -> frames]

(* find_matching_brace: the brace that closes the reference whose body    *)
(* begins at i, 0 if there is none.                                        *)
RECURSIVE Closing(_, _)
Closing(s, at) ==
    IF at.i > Len(s) THEN 0
    ELSE LET next == ScanStep(s, at)
         IN  IF next.frames = <<>> THEN at.i ELSE Closing(s, next)

(* split_braced_default: where ":-" stands outside every nested brace. *)
RECURSIVE DefaultAt(_, _)
DefaultAt(s, at) ==
    IF at.i > Len(s) THEN 0
    ELSE IF at.frames = <<>> /\ s[at.i] = ":-" THEN at.i
    ELSE DefaultAt(s, ScanStep(s, at))

RECURSIVE Expand(_, _)

(* resolve_env_value: a default stands in for what is unset or empty. *)
Resolve(name, default, depth) ==
    LET v == Env(name)
    IN  IF v # Unset /\ (default = Unset \/ v # <<>>) THEN v
        ELSE IF default # Unset THEN Expand(default, depth) ELSE <<>>

(* expand_braced_env *)
Braced(body, depth) ==
    LET d == DefaultAt(body, [i |-> 1, frames |-> <<>>])
    IN  IF d > 0
        THEN IF IsName(SubSeq(body, 1, d - 1))
             THEN Resolve(SubSeq(body, 1, d - 1), SubSeq(body, d + 1, Len(body)), depth)
             ELSE Failed
        ELSE IF IsName(body) THEN Resolve(body, Unset, depth) ELSE Failed

From(s, i) == SubSeq(s, i, Len(s))

(* expand_command_arg_with_depth *)
Expand(s, depth) ==
    IF depth > MaxDepth THEN Failed
    ELSE IF s = <<>> THEN <<>>
    ELSE IF IsAt(s, 1, <<"$", "$">>) THEN Cat(<<"$">>, Expand(From(s, 3), depth))
    ELSE IF Opens(s, 1)
         THEN LET close == Closing(s, [i |-> 3, frames |-> <<"expansion">>])
              IN  IF close = 0 THEN Failed
                  ELSE Cat(Braced(SubSeq(s, 3, close - 1), depth + 1),
                           Expand(From(s, close + 1), depth))
    ELSE Cat(<<s[1]>>, Expand(From(s, 2), depth))

----------------------------------------------------------------------------
(* Reference: templates.  A template is a sequence of parts; its text is  *)
(* what a user writes and its value what a user means.                     *)

Text(t)      == [kind |-> "text", to |-> t, in |-> <<>>]
Dollar       == [kind |-> "dollar", to |-> <<>>, in |-> <<>>]
Var(n)       == [kind |-> "var", to |-> n, in |-> <<>>]
Default(n, t) == [kind |-> "default", to |-> n, in |-> t]
Escaped(t)   == [kind |-> "escaped", to |-> <<>>, in |-> t]

RECURSIVE Written(_)
Written(t) ==
    IF t = <<>> THEN <<>> ELSE
    LET p == Head(t)
        w == CASE p.kind = "text" -> p.to
               [] p.kind = "dollar" -> <<"$", "$">>
               [] p.kind = "var" -> <<"$", "{">> \o p.to \o <<"}">>
               [] p.kind = "default" ->
                    <<"$", "{">> \o p.to \o <<":-">> \o Written(p.in) \o <<"}">>
               [] p.kind = "escaped" -> <<"$", "$", "{">> \o Written(p.in) \o <<"}">>
    IN  w \o Written(Tail(t))

RECURSIVE Meaning(_, _)
Meaning(t, depth) ==
    IF depth > MaxDepth THEN Failed ELSE IF t = <<>> THEN <<>> ELSE
    LET p == Head(t)
        v == CASE p.kind = "text" -> p.to
               [] p.kind = "dollar" -> <<"$">>
               [] p.kind = "var" -> IF Env(p.to) = Unset THEN <<>> ELSE Env(p.to)
               [] p.kind = "default" ->
                    IF Env(p.to) \in {Unset, <<>>} THEN Meaning(p.in, depth + 1)
                                                   ELSE Env(p.to)
               [] p.kind = "escaped" ->
                    Cat(<<"$", "{">>, Cat(Meaning(p.in, depth), <<"}">>))
    IN  Cat(v, Meaning(Tail(t), depth))

(* A reference expands to what its structure says, whatever is nested in  *)
(* its default: references, dollars, escaped braces, ":-".                 *)
ExpandsAsMeant(t) == Expand(Written(t), 0) = Meaning(t, 0)
=============================================================================
