---------------------------- MODULE MachineSearch ----------------------------
(***************************************************************************)
(* The type-ahead over the machines: Search of internal/machines/          *)
(* machines.go.  What was typed is a piece of a name, but the database     *)
(* compares it as a LIKE pattern, so that its wildcards must be escaped.   *)
(* Here a name is a sequence of characters.  Case, the spaces around what  *)
(* was typed and the order of the answer are left out.                     *)
(***************************************************************************)
EXTENDS Machines, SequencesExt

CONSTANTS Chars,    \* the characters names and queries are made of
          Queries,  \* what may be typed
          Limits    \* the ?limit= of a request

\* FindOrCreate refuses a blank name.
ASSUME SearchAssumption ==
  /\ Names \subseteq Seq(Chars) \ {<<>>}
  /\ Queries \subseteq Seq(Chars)
  /\ Limits \subseteq Int

\* Variant: the replacer leaves the backslash alone.
WildcardsOnly(c) == IF c \in {"%", "_"} THEN <<"\\", c>> ELSE <<c>>

\* escapeLike's replacer goes once over the characters.
Escaped(c) == IF c \in {"\\", "%", "_"} THEN <<"\\", c>> ELSE <<c>>

EscapeLike(q) == FlattenSeq([k \in DOMAIN q |-> Escaped(q[k])])

\* text LIKE pattern ESCAPE '\': from[i] is where in the text a match of the
\* pattern from its i-th character on may begin.
Like(pattern, text) ==
  LET end == Len(text) + 1
      from[i \in 1..(Len(pattern) + 1)] ==
        IF i > Len(pattern)
          THEN {end}
        ELSE IF pattern[i] = "%"
          THEN {j \in 1..end : \E k \in from[i + 1] : j <= k}
        ELSE IF pattern[i] = "\\"
          THEN {j \in 1..Len(text) : /\ i < Len(pattern)
                                     /\ pattern[i + 1] = text[j]
                                     /\ j + 1 \in from[i + 2]}
        ELSE {j \in 1..Len(text) : /\ pattern[i] \in {"_", text[j]}
                                   /\ j + 1 \in from[i + 1]}
  IN 1 \in from[1]

\* A limit that is not sensible is 20.
Limit(n) == IF n <= 0 \/ n > 50 THEN 20 ELSE n

Machine == {i \in Ids : machines[i] # NoName}

Matching(q) ==
  IF q = <<>>
    THEN Machine
    ELSE {i \in Machine : Like(<<"%">> \o EscapeLike(q) \o <<"%">>, machines[i])}

\* What Search may answer: of those that match, as many as the limit allows.
Search(q, n) ==
  kSubset(Min({Limit(n), Cardinality(Matching(q))}), Matching(q))

-----------------------------------------------------------------------------
(* Properties.                                                             *)

\* The machines whose name contains q.
Containing(q) ==
  {i \in Machine :
     \E k \in DOMAIN machines[i] :
       IsPrefix(q, SubSeq(machines[i], k, Len(machines[i])))}

\* "escapeLike neutralizes LIKE wildcards in user input so a query of `100%`
\* doesn't match everything" (machines.go:152): the type-ahead offers only
\* machines whose name contains what was typed, whatever that is made of, and
\* leaves one out only when the limit is reached.
SearchFindsWhatWasTyped ==
  \A q \in Queries, n \in Limits : \A S \in Search(q, n) :
    /\ S \subseteq Containing(q)
    /\ Cardinality(S) < Limit(n) => S = Containing(q)

=============================================================================
