------------------------------- MODULE CallFlow -------------------------------
(***************************************************************************)
(* Reading a program instead of running it.  Bounds[p][i] says what        *)
(* program p surely (lo) and possibly (hi) holds before its step i; the    *)
(* conditions below look at one step at a time.  That a program whose      *)
(* every step meets them keeps to the rules of CallSequence is proved in   *)
(* ProgramProofs; that the programs of the repository meet them is         *)
(* evaluated in MCPrograms.                                                *)
(***************************************************************************)
EXTENDS CallSequence

(* No set is both a superset of lo and a subset of hi: the step is not reached. *)
Reached(b) == b.lo \subseteq b.hi

(* What a is sure of, b may be sure of; what a excludes, b may exclude. *)
Within(a, b) == b.lo \subseteq a.lo /\ a.hi \subseteq b.hi

(* A step that executes has found what it tests. *)
Found(s, b) == [lo |-> b.lo \cup s.test, hi |-> b.hi]

Succeeded(s, b) == [lo |-> (Found(s, b).lo \ s.frees) \cup s.gives,
                    hi |-> (b.hi \ s.frees) \cup s.gives]

(* Passed over: what is tested alone is not held. *)
Missed(s, b) == [lo |-> b.lo, hi |-> {r \in b.hi : s.test # {r}}]

(* Before its first step a program holds nothing; each step leads from its     *)
(* bounds into those of the steps it may go on with.                           *)
StepFlows(s, i, bounds) ==
  LET b == bounds[i]
  IN  Reached(b) =>
        /\ s.test \subseteq b.hi => /\ \A d \in s.ok : Within(Succeeded(s, b), bounds[i + d])
                                    /\ \A d \in s.err : Within(Found(s, b), bounds[i + d])
        /\ ~(s.test \subseteq b.lo) => Within(Missed(s, b), bounds[i + s.past])

Flows(Bounds) ==
  \A p \in DOMAIN Script :
    /\ Bounds[p][1].lo = {}
    /\ \A i \in 1 .. Len(Script[p]) : StepFlows(Script[p][i], i, Bounds[p])

(* The rules of CallSequence, read off the bounds of step s of program p. *)
Executable(s, b) == Reached(b) /\ s.test \subseteq b.hi

UsesSurely(p, s, b) ==
  /\ Executable(s, b) => s.needs \subseteq Found(s, b).lo \/ <<p, s.call>> \in Careless
  /\ Reached(b) /\ "handler" \in b.hi => "capture" \in b.lo \/ "blocked" \in b.lo

ReplacesNothing(p, s, b) ==
  Executable(s, b) /\ (s.gives \cap b.hi) \ s.frees # {} =>
      s.gives \subseteq Values \/ <<p, s.call>> \in Careless

(* While the echo may be off no signal comes in and no step ends the program. *)
EchoIsSafe(s, b) ==
  Reached(b) /\ "noecho" \in b.hi =>
      /\ "blocked" \in b.lo
      /\ Executable(s, b) => ~s.dies /\ s.needs \subseteq Found(s, b).lo

ServerIsFirst(b) ==
  Reached(b) => /\ b.hi \cap {"password", "user", "channel", "sftp"} # {} => "trusted" \in b.lo
                /\ b.hi \cap {"channel", "sftp"} # {} => "user" \in b.lo

Freed(p) == UNION {Script[p][i].frees : i \in 1 .. Len(Script[p])}

EndsClean(p, b) == Reached(b) => b.hi \cap (Freed(p) \cup {"noecho"}) = {} /\ ServerIsFirst(b)

KeepsRules(Bounds) ==
  \A p \in DOMAIN Script :
    /\ \A i \in 1 .. Len(Script[p]) :
         LET s == Script[p][i]
             b == Bounds[p][i]
         IN  UsesSurely(p, s, b) /\ ReplacesNothing(p, s, b) /\ EchoIsSafe(s, b) /\ ServerIsFirst(b)
    /\ EndsClean(p, Bounds[p][Len(Script[p]) + 1])

(* What a running program holds is what reading it says. *)
HeldWithin(Bounds) ==
  LET b == Bounds[prog][at]
  IN  b.lo \subseteq held /\ held \subseteq b.hi
===============================================================================
