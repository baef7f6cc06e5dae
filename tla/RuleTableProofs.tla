-------------------------- MODULE RuleTableProofs --------------------------
(***************************************************************************)
(* What RuleTable.cfg checks for two tools and a table of two chains,      *)
(* proved for any number of tools, any chains and any rule numbers.  The   *)
(* invariant says of each tool what it has taken from its arguments, how   *)
(* the number of entries has moved since it read the table, and what its   *)
(* own change does to that number.                                         *)
(***************************************************************************)
EXTENDS RuleTable, SequenceTheorems, TLAPS

Reading == {"init", "change", "commit"}
Holding == {"change", "commit"}
Ended == {"done", "error", "help"}
Kinds == {"DELETE_RULE", "NEW_CHAIN", "CHANGE_POLICY", "append"}

Args(p) ==
  /\ given[p].tables = IF r[p].table = Null THEN 0 ELSE 1
  /\ given[p].operations = IF r[p].operation = "NONE" THEN 0 ELSE 1
  /\ r[p].operation # "NONE" => r[p].chain # Null
  /\ r[p].operation = "CHANGE_POLICY" <=> r[p].policy # Null
  /\ r[p].operation = "CHANGE_POLICY" => tool[p] = "iptcmod"
  /\ pc[p] \in Reading => r[p].operation # "NONE" /\ r[p].table # Null

(* How many entries a change of one kind adds. *)
Delta(kind) ==
  CASE kind = "DELETE_RULE" -> -1 [] kind = "NEW_CHAIN" -> 2 [] kind = "append" -> 1 [] OTHER -> 0

(* While all changes are of one direction, so is the number of entries. *)
Moved(u, t, kinds) ==
  /\ kinds = {} => u = t
  /\ kinds = {"DELETE_RULE"} => u.entries < t.entries
  /\ kinds # {} /\ kinds \subseteq {"NEW_CHAIN", "append"} => u.entries > t.entries

Fresh(p) ==
  IF pc[p] \in Holding THEN since[p] \subseteq Kinds /\ Moved(table, h[p].read, since[p]) ELSE since[p] = {}

Written(p) ==
  /\ pc[p] = "change" => h[p].write = h[p].read
  /\ pc[p] = "commit" => h[p].write.entries = h[p].read.entries + Delta(r[p].operation)

IInv == TypeOK /\ \A p \in Procs : Args(p) /\ Fresh(p) /\ Written(p)

-----------------------------------------------------------------------------
(* The operations on a table yield a table, and move the number of entries  *)
(* by what they are said to.                                                 *)
LEMMA WithoutType ==
  ASSUME NEW s \in Seq(Nat), NEW n \in Nat, n < Len(s)
  PROVE  Without(s, n) \in Seq(Nat)
<1>1. SubSeq(s, 1, n) \in Seq(Nat)
    BY SubSeqProperties
<1>2. SubSeq(s, n + 2, Len(s)) \in Seq(Nat)
    BY SubSeqProperties
<1> QED
    BY <1>1, <1>2, ConcatProperties DEF Without

LEMMA DeleteType ==
  ASSUME NEW t \in Tables, NEW c \in Chains, NEW n \in Nat, n < Len(t.rules[c])
  PROVE  /\ iptc_delete_num_entry(c, n, t) \in Tables
         /\ iptc_delete_num_entry(c, n, t).entries = t.entries - 1
<1>1. Without(t.rules[c], n) \in Seq(Nat)
    BY WithoutType DEF Tables
<1>2. t.entries \in Int /\ t.entries - 1 \in Int /\ t.rules \in [Chains -> Seq(Nat)]
    BY DEF Tables
<1>3. [t.rules EXCEPT ![c] = Without(@, n)] \in [Chains -> Seq(Nat)]
    BY <1>1, <1>2
<1>4. iptc_delete_num_entry(c, n, t) \in Tables
    BY <1>2, <1>3, Zenon DEF iptc_delete_num_entry, Tables
<1>5. iptc_delete_num_entry(c, n, t).entries = t.entries - 1
    BY DEF iptc_delete_num_entry, Tables
<1> QED
    BY <1>4, <1>5

LEMMA CreateType ==
  ASSUME NEW t \in Tables, NEW c \in Chains, ~Exists(c, t)
  PROVE  /\ iptc_create_chain(c, t) \in Tables
         /\ iptc_create_chain(c, t).entries = t.entries + 2
<1>1. t.own \cup {c} \in SUBSET Own /\ t.entries + 2 \in Int
    BY DEF Tables, Chains, Exists
<1>2. iptc_create_chain(c, t) \in Tables
    BY <1>1, Zenon DEF iptc_create_chain, Tables
<1>3. iptc_create_chain(c, t).entries = t.entries + 2
    BY DEF iptc_create_chain, Tables
<1> QED
    BY <1>2, <1>3

LEMMA PolicyType ==
  ASSUME NEW t \in Tables, NEW c \in Builtin, NEW q \in Policies
  PROVE  /\ iptc_set_policy(c, q, t) \in Tables
         /\ iptc_set_policy(c, q, t).entries = t.entries
<1>1. /\ [t.policy EXCEPT ![c] = q] \in [Builtin -> Policies]
      /\ t = [rules |-> t.rules, own |-> t.own, policy |-> t.policy, entries |-> t.entries]
    BY DEF Tables
<1>2. iptc_set_policy(c, q, t) =
        [rules |-> t.rules, own |-> t.own, policy |-> [t.policy EXCEPT ![c] = q], entries |-> t.entries]
    BY <1>1 DEF iptc_set_policy
<1> QED
    BY <1>1, <1>2 DEF Tables

-----------------------------------------------------------------------------
LEMMA InitInv == Init => IInv
<1> SUFFICES ASSUME Init PROVE IInv
    OBVIOUS
<1>1. <<1, 2>> \in Seq(Nat) /\ <<>> \in Seq(Nat)
    OBVIOUS
<1>2. table \in Tables
    BY <1>1 DEF Init, Tables, Policies
<1>3. TypeOK
    BY <1>2 DEF Init, TypeOK, NoRule, NoHandle, NoneGiven, Rules, Opcodes
<1>4. \A p \in Procs : Args(p) /\ Fresh(p) /\ Written(p)
    BY DEF Init, Args, Fresh, Written, NoRule, NoneGiven, Reading, Holding
<1> QED
    BY <1>3, <1>4 DEF IInv

-----------------------------------------------------------------------------
(* A process that ends leaves nothing to be checked, and the others as they were. *)
LEMMA ExitLocal ==
  ASSUME IInv, NEW p \in Procs, NEW status \in Ended, Exit(p, status)
  PROVE  /\ tool' \in [Procs -> {"iptc", "iptcmod"}]
         /\ pc' \in [Procs -> {"parse", "init", "change", "commit", "done", "error", "help"}]
         /\ r' \in [Procs -> Rules]
         /\ given' \in [Procs -> [operations : Nat, tables : Nat]]
         /\ h' \in [Procs -> [read : Tables \cup {Null}, write : Tables \cup {Null}]]
         /\ \A q \in Procs : Args(q)' /\ Written(q)'
         /\ pc'[p] = status
         /\ \A q \in Procs \ {p} : pc'[q] = pc[q] /\ h'[q] = h[q]
<1>1. TypeOK
    BY DEF IInv
<1>2. /\ pc'[p] = status /\ r'[p] = NoRule /\ given'[p] = NoneGiven
      /\ \A q \in Procs \ {p} : pc'[q] = pc[q] /\ h'[q] = h[q] /\ r'[q] = r[q] /\ given'[q] = given[q]
      /\ tool' = tool
    BY <1>1 DEF TypeOK, Exit, Goto
<1>3. NoRule \in Rules /\ NoHandle \in [read : Tables \cup {Null}, write : Tables \cup {Null}]
      /\ NoneGiven \in [operations : Nat, tables : Nat]
    BY DEF NoRule, NoHandle, NoneGiven, Rules, Opcodes
<1>4. \A q \in Procs : Args(q)' /\ Written(q)'
    BY <1>2 DEF IInv, Args, Written, NoRule, NoneGiven, Ended, Reading
<1> QED
    BY <1>1, <1>2, <1>3, <1>4 DEF TypeOK, Exit, Goto, Ended

(* What only the process itself sees has changed, and it holds no table. *)
LEMMA FailInv ==
  ASSUME IInv, NEW p \in Procs, NEW status \in Ended, Exit(p, status), UNCHANGED <<table, serial>>,
         (since' = since /\ pc[p] = "parse") \/ since' = [since EXCEPT ![p] = {}]
  PROVE  IInv'
<1>1. TypeOK
    BY DEF IInv
<1>2. /\ since' \in [Procs -> SUBSET (Opcodes \cup {"append"})]
      /\ since'[p] = {} /\ \A q \in Procs \ {p} : since'[q] = since[q]
    BY <1>1 DEF TypeOK, IInv, Fresh, Holding
<1>3. TypeOK'
    BY <1>1, <1>2, ExitLocal DEF TypeOK, Ended
<1>4. \A q \in Procs : Fresh(q)'
    BY <1>2, ExitLocal DEF IInv, Fresh, Moved, Holding, Ended
<1> QED
    BY <1>3, <1>4, ExitLocal DEF IInv

-----------------------------------------------------------------------------
(* parse() *)

LEMMA ParseErrorInv ==
  ASSUME IInv, NEW p \in Procs, parse_error(p)
  PROVE  IInv'
BY FailInv DEF parse_error, Parsing, Ended

(* An option that is taken changes r and given of its process. *)
LEMMA TakeInv ==
  ASSUME IInv, NEW p \in Procs, NEW fields \in Rules, Take(p, fields),
         fields.operation # "NONE", fields.chain # Null,
         fields.operation = "CHANGE_POLICY" <=> fields.policy # Null,
         fields.operation = "CHANGE_POLICY" => tool[p] = "iptcmod"
  PROVE  IInv'
<1>1. TypeOK /\ pc[p] = "parse" /\ r[p] \in Rules
    BY DEF IInv, TypeOK, Take, Parsing
<1>2. UNCHANGED <<table, serial, since, pc, h, tool>>
    BY DEF Take, Parsing, GoesOn
<1>3. [r[p] EXCEPT !.operation = fields.operation, !.chain = fields.chain,
                   !.rule_num = fields.rule_num, !.policy = fields.policy] \in Rules
    <2>1. /\ fields.operation \in Opcodes /\ fields.chain \in Chains \cup {Null}
          /\ fields.rule_num \in Nat /\ fields.policy \in Policies \cup {Null}
        BY DEF Rules
    <2> QED
        BY <1>1, <2>1, Zenon DEF Rules
<1>4. /\ r'[p].operation = fields.operation /\ r'[p].chain = fields.chain
      /\ r'[p].policy = fields.policy /\ r'[p].table = r[p].table
    BY <1>1 DEF Take, TypeOK, Rules
<1>5. r' \in [Procs -> Rules] /\ \A q \in Procs \ {p} : r'[q] = r[q]
    BY <1>1, <1>3 DEF Take, TypeOK
<1>6. /\ given[p].operations \in Nat /\ given[p].tables \in Nat
      /\ given' = [given EXCEPT ![p].operations = given[p].operations + 1]
      /\ given \in [Procs -> [operations : Nat, tables : Nat]]
    BY <1>1 DEF Take, TypeOK
<1>7. /\ given' \in [Procs -> [operations : Nat, tables : Nat]]
      /\ given'[p].operations = given[p].operations + 1 /\ given'[p].tables = given[p].tables
      /\ \A q \in Procs \ {p} : given'[q] = given[q]
    BY <1>6
<1>8. TypeOK'
    BY <1>1, <1>2, <1>5, <1>7 DEF TypeOK
<1>9. \A q \in Procs : Fresh(q)' /\ Written(q)'
    BY <1>1, <1>2, <1>5 DEF IInv, Fresh, Moved, Written, Holding
<1>10. Args(p)'
    BY <1>1, <1>2, <1>4, <1>7 DEF IInv, Args, Reading, Take, MayTake
<1>11. \A q \in Procs \ {p} : Args(q)'
    BY <1>2, <1>5, <1>7 DEF IInv, Args
<1> QED
    BY <1>8, <1>9, <1>10, <1>11 DEF IInv

LEMMA TableOptionInv ==
  ASSUME IInv, NEW p \in Procs, TableOption(p)
  PROVE  IInv'
<1>1. CASE parse_error(p)
    BY <1>1, ParseErrorInv
<1>2. CASE ~parse_error(p)
    <2>1. /\ Parsing(p) /\ r[p].table = Null /\ r' = [r EXCEPT ![p].table = "table"]
          /\ given' = [given EXCEPT ![p].tables = @ + 1] /\ GoesOn
        BY <1>2 DEF TableOption
    <2>2. TypeOK /\ pc[p] = "parse" /\ r \in [Procs -> Rules]
        BY <2>1 DEF IInv, TypeOK, Parsing
    <2>3. UNCHANGED <<table, serial, since, pc, h, tool>>
        BY <2>1 DEF Parsing, GoesOn
    <2>4. /\ r' \in [Procs -> Rules] /\ r'[p].table = "table"
          /\ r'[p].operation = r[p].operation /\ r'[p].chain = r[p].chain /\ r'[p].policy = r[p].policy
          /\ \A q \in Procs \ {p} : r'[q] = r[q]
        BY <2>1, <2>2 DEF Rules
    <2>5. /\ given[p].operations \in Nat /\ given[p].tables \in Nat
          /\ given \in [Procs -> [operations : Nat, tables : Nat]]
        BY <2>2 DEF TypeOK
    <2>6. /\ given' \in [Procs -> [operations : Nat, tables : Nat]]
          /\ given'[p].operations = given[p].operations /\ given'[p].tables = given[p].tables + 1
          /\ \A q \in Procs \ {p} : given'[q] = given[q]
        BY <2>1, <2>5
    <2>7. TypeOK'
        BY <2>2, <2>3, <2>4, <2>6 DEF TypeOK
    <2>8. \A q \in Procs : Fresh(q)' /\ Written(q)'
        BY <2>2, <2>3, <2>4 DEF IInv, Fresh, Moved, Written, Holding
    <2>9. Args(p)'
        BY <2>1, <2>2, <2>3, <2>4, <2>6, RuleAssumption DEF IInv, Args, Reading
    <2>10. \A q \in Procs \ {p} : Args(q)'
        BY <2>3, <2>4, <2>6 DEF IInv, Args
    <2> QED
        BY <2>7, <2>8, <2>9, <2>10 DEF IInv
<1> QED
    BY <1>1, <1>2

(* Each option gives the operation the arguments it needs. *)
LEMMA NewChainInv ==
  ASSUME IInv, NEW p \in Procs, NewChainOption(p)
  PROVE  IInv'
<1>1. PICK c \in Chains : Take(p, [NoRule EXCEPT !.operation = "NEW_CHAIN", !.chain = c])
    BY DEF NewChainOption
<1> DEFINE f == [NoRule EXCEPT !.operation = "NEW_CHAIN", !.chain = c]
<1>2. NoRule \in Rules /\ "NEW_CHAIN" \in Opcodes /\ c \in Chains \cup {Null}
    BY DEF NoRule, Rules, Opcodes
<1>3. f \in Rules
    BY <1>2, Zenon DEF Rules
<1>4. f.operation = "NEW_CHAIN" /\ f.chain = c /\ f.policy = Null
    BY DEF NoRule
<1>5. c # Null
    BY RuleAssumption DEF Chains
<1> HIDE DEF f
<1> QED
    BY <1>1, <1>3, <1>4, <1>5, TakeInv DEF f

LEMMA DeleteOptionInv ==
  ASSUME IInv, NEW p \in Procs, DeleteOption(p)
  PROVE  IInv'
<1>1. PICK c \in Chains, n \in Numbers :
        IF Valid(n)
        THEN Take(p, [NoRule EXCEPT !.operation = "DELETE_RULE", !.chain = c, !.rule_num = n - 1])
        ELSE parse_error(p)
    BY DEF DeleteOption
<1>2. CASE ~Valid(n)
    BY <1>1, <1>2, ParseErrorInv
<1>3. CASE Valid(n)
    <2> DEFINE f == [NoRule EXCEPT !.operation = "DELETE_RULE", !.chain = c, !.rule_num = n - 1]
    <2>1. n - 1 \in Nat
        BY <1>3, RuleAssumption DEF Valid
    <2>2. NoRule \in Rules /\ "DELETE_RULE" \in Opcodes /\ c \in Chains \cup {Null}
        BY DEF NoRule, Rules, Opcodes
    <2>3. f \in Rules
        BY <2>1, <2>2, Zenon DEF Rules
    <2>4. f.operation = "DELETE_RULE" /\ f.chain = c /\ f.policy = Null
        BY DEF NoRule
    <2>5. c # Null
        BY RuleAssumption DEF Chains
    <2> HIDE DEF f
    <2> QED
        BY <1>1, <1>3, <2>3, <2>4, <2>5, TakeInv DEF f
<1> QED
    BY <1>2, <1>3

LEMMA PolicyOptionInv ==
  ASSUME IInv, NEW p \in Procs, PolicyOption(p)
  PROVE  IInv'
<1>1. PICK c \in Chains, q \in Policies :
        Take(p, [NoRule EXCEPT !.operation = "CHANGE_POLICY", !.chain = c, !.policy = q])
    BY DEF PolicyOption
<1> DEFINE f == [NoRule EXCEPT !.operation = "CHANGE_POLICY", !.chain = c, !.policy = q]
<1>2. /\ NoRule \in Rules /\ "CHANGE_POLICY" \in Opcodes
      /\ c \in Chains \cup {Null} /\ q \in Policies \cup {Null}
    BY DEF NoRule, Rules, Opcodes
<1>3. f \in Rules
    BY <1>2, Zenon DEF Rules
<1>4. f.operation = "CHANGE_POLICY" /\ f.chain = c /\ f.policy = q
    BY DEF NoRule
<1>5. c # Null /\ q # Null
    BY RuleAssumption DEF Chains, Policies
<1>6. tool[p] = "iptcmod"
    BY DEF PolicyOption
<1> HIDE DEF f
<1> QED
    BY <1>1, <1>3, <1>4, <1>5, <1>6, TakeInv DEF f

LEMMA EndOfArgumentsInv ==
  ASSUME IInv, NEW p \in Procs, EndOfArguments(p)
  PROVE  IInv'
<1>1. CASE r[p].operation = "NONE" \/ r[p].table = Null
    BY <1>1, ParseErrorInv DEF EndOfArguments
<1>2. CASE ~(r[p].operation = "NONE" \/ r[p].table = Null)
    <2>1. /\ TypeOK /\ pc[p] = "parse" /\ pc' = [pc EXCEPT ![p] = "init"]
          /\ UNCHANGED <<table, serial, since, r, h, given, tool>>
        BY <1>2 DEF IInv, EndOfArguments, Parsing, Goto
    <2>2. pc'[p] = "init" /\ \A q \in Procs \ {p} : pc'[q] = pc[q]
        BY <2>1 DEF TypeOK
    <2>3. TypeOK'
        BY <2>1, <2>2 DEF TypeOK
    <2>4. \A q \in Procs : Args(q)' /\ Fresh(q)' /\ Written(q)'
        BY <1>2, <2>1, <2>2 DEF IInv, Args, Fresh, Moved, Written, Reading, Holding
    <2> QED
        BY <2>3, <2>4 DEF IInv
<1> QED
    BY <1>1, <1>2

LEMMA ParseInv ==
  ASSUME IInv, NEW p \in Procs, parse(p)
  PROVE  IInv'
<1>1. CASE BadArgument(p) \/ SecondOperation(p)
    BY <1>1, ParseErrorInv DEF BadArgument, SecondOperation
<1>2. CASE Help(p)
    BY <1>2, FailInv DEF Help, Parsing, Ended
<1> QED
    BY <1>1, <1>2, TableOptionInv, NewChainInv, DeleteOptionInv, PolicyOptionInv, EndOfArgumentsInv
       DEF parse

-----------------------------------------------------------------------------
(* main() after parse() *)

LEMMA InitHandleInv ==
  ASSUME IInv, NEW p \in Procs, iptc_init(p)
  PROVE  IInv'
<1>1. CASE Fail(p)
    BY <1>1, FailInv DEF Fail, Ended
<1>2. CASE ~Fail(p)
    <2>1. /\ TypeOK /\ pc[p] = "init" /\ h' = [h EXCEPT ![p] = [read |-> table, write |-> table]]
          /\ pc' = [pc EXCEPT ![p] = "change"] /\ UNCHANGED <<table, serial, tool, r, given, since>>
        BY <1>2 DEF IInv, iptc_init, Goto
    <2>2. /\ pc'[p] = "change" /\ h'[p] = [read |-> table, write |-> table]
          /\ \A q \in Procs \ {p} : pc'[q] = pc[q] /\ h'[q] = h[q]
        BY <2>1 DEF TypeOK
    <2>3. TypeOK'
        BY <2>1, <2>2 DEF TypeOK
    <2>4. since'[p] = {} /\ Fresh(p)' /\ Written(p)' /\ Args(p)'
        BY <2>1, <2>2 DEF IInv, Args, Fresh, Moved, Written, Reading, Holding
    <2>5. \A q \in Procs \ {p} : Args(q)' /\ Fresh(q)' /\ Written(q)'
        BY <2>1, <2>2 DEF IInv, Args, Fresh, Moved, Written
    <2> QED
        BY <2>3, <2>4, <2>5 DEF IInv
<1> QED
    BY <1>1, <1>2

LEMMA AgainInv ==
  ASSUME IInv, NEW p \in Procs, Again(p)
  PROVE  IInv'
<1>1. TypeOK /\ pc[p] \in Ended /\ pc' = [pc EXCEPT ![p] = "parse"]
      /\ UNCHANGED <<table, serial, tool, r, h, given, since>>
    BY DEF IInv, Again, Goto, Ended
<1>2. pc'[p] = "parse" /\ \A q \in Procs \ {p} : pc'[q] = pc[q]
    BY <1>1 DEF TypeOK
<1>3. TypeOK'
    BY <1>1, <1>2 DEF TypeOK
<1>4. Args(p)' /\ Fresh(p)' /\ Written(p)'
    BY <1>1, <1>2 DEF IInv, Args, Fresh, Written, Reading, Holding, Ended
<1>5. \A q \in Procs \ {p} : Args(q)' /\ Fresh(q)' /\ Written(q)'
    BY <1>1, <1>2 DEF IInv, Args, Fresh, Moved, Written
<1> QED
    BY <1>3, <1>4, <1>5 DEF IInv

(* The operations on the copy. *)
LEMMA ChangeInv ==
  ASSUME IInv, NEW p \in Procs, pc[p] = "change", NEW possible \in BOOLEAN, NEW t, Change(p, possible, t),
         possible => t \in Tables /\ t.entries = h[p].read.entries + Delta(r[p].operation)
  PROVE  IInv'
<1>1. CASE ~possible
    BY <1>1, FailInv DEF Change, Fail, Ended
<1>2. CASE possible
    <2>1. /\ TypeOK /\ h' = [h EXCEPT ![p].write = t] /\ pc' = [pc EXCEPT ![p] = "commit"]
          /\ UNCHANGED <<table, serial, tool, r, given, since>>
        BY <1>2 DEF IInv, Change, Goto
    <2>2. h[p].read \in Tables /\ h \in [Procs -> [read : Tables \cup {Null}, write : Tables \cup {Null}]]
        BY <2>1 DEF TypeOK
    <2>3. /\ pc'[p] = "commit" /\ h'[p].read = h[p].read /\ h'[p].write = t
          /\ \A q \in Procs \ {p} : pc'[q] = pc[q] /\ h'[q] = h[q]
        BY <2>1, <2>2 DEF TypeOK
    <2>4. h' \in [Procs -> [read : Tables \cup {Null}, write : Tables \cup {Null}]]
        BY <1>2, <2>1, <2>2
    <2>5. TypeOK'
        BY <1>2, <2>1, <2>2, <2>3, <2>4 DEF TypeOK
    <2>6. Args(p)' /\ Fresh(p)' /\ Written(p)'
        BY <1>2, <2>1, <2>3 DEF IInv, Args, Fresh, Moved, Written, Reading, Holding
    <2>7. \A q \in Procs \ {p} : Args(q)' /\ Fresh(q)' /\ Written(q)'
        BY <2>1, <2>3 DEF IInv, Args, Fresh, Moved, Written
    <2> QED
        BY <2>5, <2>6, <2>7 DEF IInv
<1> QED
    BY <1>1, <1>2

LEMMA OperationInv ==
  ASSUME IInv, NEW p \in Procs, delete_rule(p) \/ create_chain(p) \/ change_policy(p)
  PROVE  IInv'
<1> DEFINE t == h[p].write
           c == r[p].chain
           n == r[p].rule_num
           q == r[p].policy
<1>1. TypeOK /\ pc[p] = "change" /\ t \in Tables /\ t = h[p].read
    BY DEF IInv, TypeOK, Written, delete_rule, create_chain, change_policy
<1>2. r[p].operation # "NONE" /\ c \in Chains /\ n \in Nat
    BY <1>1 DEF IInv, TypeOK, Args, Reading, Rules
<1>3. t.entries \in Int
    BY <1>1 DEF Tables
<1>4. CASE delete_rule(p)
    <2> DEFINE possible == Exists(c, t) /\ n < Len(t.rules[c])
    <2>1. Change(p, possible, iptc_delete_num_entry(c, n, t)) /\ r[p].operation = "DELETE_RULE"
        BY <1>4 DEF delete_rule
    <2>2. possible => /\ iptc_delete_num_entry(c, n, t) \in Tables
                      /\ iptc_delete_num_entry(c, n, t).entries = h[p].read.entries + Delta("DELETE_RULE")
        BY <1>1, <1>2, <1>3, DeleteType DEF Delta
    <2>3. possible \in BOOLEAN
        BY DEF Exists
    <2> QED
        BY <1>1, <2>1, <2>2, <2>3, ChangeInv
<1>5. CASE create_chain(p)
    <2>1. Change(p, ~Exists(c, t), iptc_create_chain(c, t)) /\ r[p].operation = "NEW_CHAIN"
        BY <1>5 DEF create_chain
    <2>2. ~Exists(c, t) => /\ iptc_create_chain(c, t) \in Tables
                           /\ iptc_create_chain(c, t).entries = h[p].read.entries + Delta("NEW_CHAIN")
        BY <1>1, <1>2, <1>3, CreateType DEF Delta
    <2> QED
        BY <1>1, <2>1, <2>2, ChangeInv
<1>6. CASE change_policy(p)
    <2> DEFINE possible == Exists(c, t) /\ c \in Builtin
    <2>1. Change(p, possible, iptc_set_policy(c, q, t)) /\ r[p].operation = "CHANGE_POLICY"
        BY <1>6 DEF change_policy
    <2>2. q \in Policies
        BY <1>1, <2>1 DEF IInv, TypeOK, Args, Rules
    <2>3. possible => /\ iptc_set_policy(c, q, t) \in Tables
                      /\ iptc_set_policy(c, q, t).entries = h[p].read.entries + Delta("CHANGE_POLICY")
        BY <1>1, <1>3, <2>2, PolicyType DEF Delta
    <2>4. possible \in BOOLEAN
        BY DEF Exists
    <2> QED
        BY <1>1, <2>1, <2>3, <2>4, ChangeInv
<1> QED
    BY <1>4, <1>5, <1>6

(* One more change of the table goes the way of its kind. *)
LEMMA MovedOn ==
  ASSUME NEW t \in Tables, NEW u \in Tables, NEW v \in Tables,
         NEW kinds \in SUBSET Kinds, NEW kind \in Kinds,
         Moved(u, t, kinds), v.entries = u.entries + Delta(kind)
  PROVE  Moved(v, t, kinds \cup {kind})
<1>1. t.entries \in Int /\ u.entries \in Int /\ v.entries \in Int
    BY DEF Tables
<1>2. kinds \cup {kind} # {}
    OBVIOUS
<1>3. ASSUME kinds \cup {kind} = {"DELETE_RULE"} PROVE v.entries < t.entries
    <2>1. kind = "DELETE_RULE" /\ (kinds = {} \/ kinds = {"DELETE_RULE"})
        BY <1>3
    <2> QED
        BY <1>1, <2>1 DEF Moved, Delta
<1>4. ASSUME kinds \cup {kind} \subseteq {"NEW_CHAIN", "append"} PROVE v.entries > t.entries
    <2>1. kind \in {"NEW_CHAIN", "append"} /\ kinds \subseteq {"NEW_CHAIN", "append"}
        BY <1>4
    <2> QED
        BY <1>1, <2>1 DEF Moved, Delta
<1> QED
    BY <1>2, <1>3, <1>4 DEF Moved

(* What a change of the table leaves of the invariant for those that hold a copy. *)
LEMMA ChangedInv ==
  ASSUME TypeOK, table' \in Tables, NEW kind \in Kinds, table'.entries = table.entries + Delta(kind),
         Changed(kind), NEW q \in Procs, Fresh(q),
         pc'[q] \in Holding => pc'[q] = pc[q] /\ h'[q] = h[q]
  PROVE  Fresh(q)'
<1>1. since'[q] = IF pc'[q] \in Holding THEN since[q] \cup {kind} ELSE {}
    BY DEF Changed, Holding
<1>2. CASE pc'[q] \in Holding
    <2>1. /\ pc[q] \in Holding /\ h'[q] = h[q] /\ table \in Tables /\ h[q].read \in Tables
          /\ since[q] \in SUBSET Kinds /\ Moved(table, h[q].read, since[q])
        BY <1>2 DEF TypeOK, Fresh, Holding
    <2>2. Moved(table', h[q].read, since[q] \cup {kind})
        BY <2>1, MovedOn
    <2>3. since'[q] \subseteq Kinds /\ Moved(table', h'[q].read, since'[q])
        BY <1>1, <1>2, <2>1, <2>2
    <2> QED
        BY <1>2, <2>3 DEF Fresh
<1>3. CASE pc'[q] \notin Holding
    BY <1>1, <1>3 DEF Fresh
<1> QED
    BY <1>2, <1>3

LEMMA SinceType ==
  ASSUME TypeOK, NEW kind \in Kinds, Changed(kind)
  PROVE  since' \in [Procs -> SUBSET (Opcodes \cup {"append"})]
BY DEF TypeOK, Changed, Kinds, Opcodes

LEMMA CommitInv ==
  ASSUME IInv, NEW p \in Procs, iptc_commit(p)
  PROVE  IInv'
<1>1. CASE Fail(p)
    BY <1>1, FailInv DEF Fail, Ended
<1>2. CASE ~Fail(p)
    <2> DEFINE kind == r[p].operation
    <2>1. /\ TypeOK /\ pc[p] = "commit" /\ Taken(p) /\ table' = h[p].write /\ Exit(p, "done")
          /\ Changed(kind) /\ UNCHANGED serial
        BY <1>2 DEF IInv, iptc_commit
    <2>2. table \in Tables /\ h[p].write \in Tables
        BY <2>1 DEF TypeOK
    <2>3. kind \in Kinds
        BY <2>1 DEF IInv, TypeOK, Args, Reading, Rules, Opcodes, Kinds
    <2>4. table'.entries = table.entries + Delta(kind)
        BY <2>1 DEF IInv, Written, Taken
    <2>5. /\ tool' \in [Procs -> {"iptc", "iptcmod"}]
          /\ pc' \in [Procs -> {"parse", "init", "change", "commit", "done", "error", "help"}]
          /\ r' \in [Procs -> Rules]
          /\ given' \in [Procs -> [operations : Nat, tables : Nat]]
          /\ h' \in [Procs -> [read : Tables \cup {Null}, write : Tables \cup {Null}]]
          /\ \A q \in Procs : Args(q)' /\ Written(q)'
          /\ pc'[p] = "done"
          /\ \A q \in Procs \ {p} : pc'[q] = pc[q] /\ h'[q] = h[q]
        BY <2>1, ExitLocal DEF Ended
    <2>6. TypeOK'
        BY <2>1, <2>2, <2>3, <2>5, SinceType DEF TypeOK
    <2>7. \A q \in Procs : Fresh(q)'
        BY <2>1, <2>2, <2>3, <2>4, <2>5, ChangedInv DEF IInv, Holding
    <2> QED
        BY <2>5, <2>6, <2>7 DEF IInv
<1> QED
    BY <1>1, <1>2

LEMMA AppendInv ==
  ASSUME IInv, NEW c \in Chains, Append1(c)
  PROVE  IInv'
<1>1. TypeOK /\ table \in Tables /\ UNCHANGED <<tool, pc, r, h, given>> /\ Changed("append")
    BY DEF IInv, TypeOK, Append1, local
<1>2. serial \in Nat /\ serial' \in Nat /\ table.entries \in Int /\ table.rules \in [Chains -> Seq(Nat)]
    BY <1>1 DEF TypeOK, Append1, Tables
<1>3. /\ table.entries + 1 \in Int
      /\ [table.rules EXCEPT ![c] = Append(@, serial)] \in [Chains -> Seq(Nat)]
    BY <1>2
<1>4. table' \in Tables
    BY <1>1, <1>3, Zenon DEF Append1, Tables
<1>5. table'.entries = table.entries + Delta("append")
    BY <1>1 DEF Append1, Tables, Delta
<1>6. TypeOK'
    BY <1>1, <1>2, <1>4, SinceType DEF TypeOK, Kinds
<1>7. \A q \in Procs : Fresh(q)'
    BY <1>1, <1>4, <1>5, ChangedInv DEF IInv, Kinds
<1>8. \A q \in Procs : Args(q)' /\ Written(q)'
    BY <1>1 DEF IInv, Args, Written
<1> QED
    BY <1>6, <1>7, <1>8 DEF IInv

-----------------------------------------------------------------------------
LEMMA NextInv == IInv /\ [Next]_vars => IInv'
<1> SUFFICES ASSUME IInv, [Next]_vars PROVE IInv'
    OBVIOUS
<1>1. ASSUME NEW p \in Procs, main(p) PROVE IInv'
    BY <1>1, ParseInv, InitHandleInv, OperationInv, CommitInv DEF main
<1>2. CASE UNCHANGED vars
    BY <1>2 DEF vars, local, IInv, TypeOK, Args, Fresh, Moved, Written
<1> QED
    BY <1>1, <1>2, AgainInv, AppendInv DEF Next

THEOREM Invariant == Spec => []IInv
<1> QED
    BY InitInv, NextInv, PTL DEF Spec

(* Everything is of its type, for any number of tools and any table. *)
THEOREM TypeCorrect == Spec => []TypeOK
<1>1. IInv => TypeOK
    BY DEF IInv
<1> QED
    BY <1>1, Invariant, PTL

(* parse() of either tool hands on one complete operation on one table, in   *)
(* whatever order and number the options are given.                          *)
THEOREM Complete == Spec => []CompleteCommand
<1>1. IInv => CompleteCommand
    <2> SUFFICES ASSUME IInv, NEW p \in Procs, pc[p] \in Reading
                 PROVE  /\ given[p] = [operations |-> 1, tables |-> 1]
                        /\ r[p].operation # "NONE" /\ r[p].chain # Null /\ r[p].table # Null
                        /\ r[p].operation = "CHANGE_POLICY" <=> r[p].policy # Null
                        /\ r[p].operation = "CHANGE_POLICY" => tool[p] = "iptcmod"
        BY DEF CompleteCommand, Reading
    <2>1. given[p] \in [operations : Nat, tables : Nat]
        BY DEF IInv, TypeOK
    <2>2. given[p].operations = 1 /\ given[p].tables = 1
        BY DEF IInv, Args
    <2> QED
        BY <2>1, <2>2 DEF IInv, Args
<1> QED
    BY <1>1, Invariant, PTL

(* The number of entries lets through only what it cannot tell: a commit that *)
(* is taken undoes another one's change only if policies were changed or      *)
(* deletions and additions met.                                               *)
THEOREM LosesOnlyMixed == Spec => []LosesOnlyMixedUpdates
<1>1. IInv => LosesOnlyMixedUpdates
    <2> SUFFICES ASSUME IInv, NEW p \in Procs, pc[p] = "commit", Taken(p), ~Mixed(since[p])
                 PROVE  h[p].read = table
        BY DEF LosesOnlyMixedUpdates
    <2>1. since[p] \subseteq Kinds /\ Moved(table, h[p].read, since[p])
        BY DEF IInv, Fresh, Holding
    <2>2. table.entries = h[p].read.entries /\ table.entries \in Int
        BY DEF IInv, TypeOK, Taken, Tables
    <2>3. \/ since[p] = {} \/ since[p] = {"DELETE_RULE"}
          \/ since[p] # {} /\ since[p] \subseteq {"NEW_CHAIN", "append"}
        BY <2>1 DEF Mixed, Kinds
    <2> QED
        BY <2>1, <2>2, <2>3 DEF Moved
<1> QED
    BY <1>1, Invariant, PTL
=============================================================================
