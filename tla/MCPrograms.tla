----------------------------- MODULE MCPrograms -----------------------------
(***************************************************************************)
(* Every program that is one sequence of calls, run and read.              *)
(***************************************************************************)
EXTENDS CallFlow, SshScripts, CryptoScripts, CaptureScripts, SocketScripts, TLC

AllScripts == SshTools @@ CryptoPrograms @@ CapturePrograms @@ SocketPrograms

AllCareless == SshCareless \cup CryptoCareless \cup CaptureCareless \cup SocketCareless

Resources(p) == UNION {Script[p][i].gives : i \in 1 .. Len(Script[p])}

(* The narrowest bounds that contain those of a set. *)
Join(S, p) == [lo |-> {r \in Resources(p) : \A b \in S : r \in b.lo},
               hi |-> UNION {b.hi : b \in S}]

(* The bounds that steps with bounds f pass on to step i. *)
PassedOn(p, f, i) ==
  UNION {LET s == Script[p][k]
             b == f[k]
         IN  IF ~Reached(b) THEN {}
             ELSE (IF s.test \subseteq b.hi /\ i - k \in s.ok THEN {Succeeded(s, b)} ELSE {})
                  \cup (IF s.test \subseteq b.hi /\ i - k \in s.err THEN {Found(s, b)} ELSE {})
                  \cup (IF ~(s.test \subseteq b.lo) /\ i - k = s.past THEN {Missed(s, b)} ELSE {})
         : k \in 1 .. Len(Script[p])}

(* Nothing is reached but the first step; then the bounds grow until they stay. *)
RECURSIVE Grown(_, _)
Grown(p, f) ==
  LET g == [i \in DOMAIN f |->
              Join(PassedOn(p, f, i) \cup (IF i = 1 THEN {[lo |-> {}, hi |-> {}]} ELSE {}), p)]
  IN  IF g = f THEN f ELSE Grown(p, g)

ProgramBounds ==
  [p \in DOMAIN Script |->
     Grown(p, [i \in 1 .. Len(Script[p]) + 1 |-> [lo |-> Resources(p) \cup {"unreached"}, hi |-> {}]])]

(* Every program of the repository keeps to the rules at each of its steps, on  *)
(* what it may hold there whatever came before (the hypotheses of the theorems  *)
(* of ProgramProofs), and holds there, when it runs, what reading it says.  The *)
(* hypotheses are about no state and are evaluated where a program begins.      *)
ProgramsAreRead ==
  /\ at = 1 => Flows(ProgramBounds) /\ KeepsRules(ProgramBounds)
  /\ HeldWithin(ProgramBounds)
=============================================================================
