------------------------------ MODULE Palindrome ------------------------------
(***************************************************************************)
(* is_palindrome() of pus-01 (libpalindrome.c): copies the digits of a     *)
(* buffer, skips the leading zeros and compares from both ends.            *)
(*                                                                         *)
(* The positions of buff and tmp are counted from 1.  i is the loop index  *)
(* of the code: of the copying loop, then of the loop over the leading     *)
(* zeros, whose final value the comparison keeps.                          *)
(***************************************************************************)
EXTENDS Integers, Sequences, FiniteSets

CONSTANTS
    Digits,     \* the characters for which isdigit() holds
    Zero,       \* '0'
    Letters,    \* the characters for which isalpha() holds
    Spaces,     \* the characters for which isspace() holds
    Others,     \* punctuation, control characters, the null byte
    MaxLen      \* the longest buffer (bound)

ASSUME PalindromeAssumption ==
    /\ Zero \in Digits
    /\ Digits \cap Letters = {}
    /\ (Digits \cup Letters) \cap (Spaces \cup Others) = {}
    /\ Spaces \cap Others = {}
    /\ MaxLen \in Nat

Chars == Digits \cup Letters \cup Spaces \cup Others

Buffers == UNION {[1..n -> Chars] : n \in 0..MaxLen}

VARIABLES
    buff,       \* the buffer, buff_len long
    tmp,        \* the first j characters of tmp; what follows is not initialised
    i,          \* i + 1
    head,       \* head - tmp + 1
    tail,       \* tail - tmp + 1
    pc,         \* the loop that runs
    result      \* the value returned

vars == <<buff, tmp, i, head, tail, pc, result>>

j == Len(tmp)

(* malloc() has found room for tmp, or has not and exit() is called. *)
Init ==
    /\ buff \in Buffers
    /\ tmp = <<>>
    /\ i = 1
    /\ head = 0
    /\ tail = 0
    /\ pc \in {"copy", "exited"}
    /\ result = 0

Return(value) ==
    /\ pc' = "done"
    /\ result' = value

CopyDigit ==
    /\ pc = "copy"
    /\ i <= Len(buff)
    /\ buff[i] \in Digits
    /\ tmp' = Append(tmp, buff[i])
    /\ i' = i + 1
    /\ UNCHANGED <<buff, head, tail, pc, result>>

Letter ==
    /\ pc = "copy"
    /\ i <= Len(buff)
    /\ buff[i] \in Letters
    /\ Return(-1)
    /\ UNCHANGED <<buff, tmp, i, head, tail>>

Other ==
    /\ pc = "copy"
    /\ i <= Len(buff)
    /\ buff[i] \in Spaces \cup Others
    /\ i' = i + 1
    /\ UNCHANGED <<buff, tmp, head, tail, pc, result>>

(* Mutant of Copied: the loop over the zeros goes on from where the other     *)
(* loop stopped.                                                              *)
CopiedKeepsIndex ==
    /\ pc = "copy"
    /\ i > Len(buff)
    /\ pc' = "zeros"
    /\ UNCHANGED <<buff, tmp, i, head, tail, result>>

Copied ==
    /\ pc = "copy"
    /\ i > Len(buff)
    /\ i' = 1
    /\ pc' = "zeros"
    /\ UNCHANGED <<buff, tmp, head, tail, result>>

(* Mutant of LeadingZero: a while loop that forgets to advance. *)
LeadingZeroStays ==
    /\ pc = "zeros"
    /\ i <= j
    /\ tmp[i] = Zero
    /\ UNCHANGED vars

LeadingZero ==
    /\ pc = "zeros"
    /\ i <= j
    /\ tmp[i] = Zero
    /\ i' = i + 1
    /\ UNCHANGED <<buff, tmp, head, tail, pc, result>>

(* Mutant of SetPointers: the comparison starts behind the first digit. *)
SetPointersLate ==
    /\ pc = "zeros"
    /\ i <= j => tmp[i] # Zero
    /\ head' = i + 1
    /\ tail' = j
    /\ pc' = "compare"
    /\ UNCHANGED <<buff, tmp, i, result>>

SetPointers ==
    /\ pc = "zeros"
    /\ i <= j => tmp[i] # Zero
    /\ head' = i
    /\ tail' = j
    /\ pc' = "compare"
    /\ UNCHANGED <<buff, tmp, i, result>>

(* *head and *tail: a byte outside the copied digits may be anything. *)
Inside(p) == p \in 1..j

MayDiffer == (Inside(head) /\ Inside(tail)) => tmp[head] # tmp[tail]
MayEqual  == (Inside(head) /\ Inside(tail)) => tmp[head] = tmp[tail]

Differ ==
    /\ pc = "compare"
    /\ MayDiffer
    /\ head' = head + 1
    /\ tail' = tail - 1
    /\ Return(0)
    /\ UNCHANGED <<buff, tmp, i>>

(* Mutant of Equal: tail stays at the last digit. *)
EqualHeadOnly ==
    /\ pc = "compare"
    /\ MayEqual
    /\ head' = head + 1
    /\ IF head' <= tail THEN UNCHANGED <<pc, result>> ELSE Return(1)
    /\ UNCHANGED <<buff, tmp, i, tail>>

(* do ... while (head <= tail) *)
Equal ==
    /\ pc = "compare"
    /\ MayEqual
    /\ head' = head + 1
    /\ tail' = tail - 1
    /\ IF head' <= tail' THEN UNCHANGED <<pc, result>> ELSE Return(1)
    /\ UNCHANGED <<buff, tmp, i>>

Next ==
    \/ CopyDigit \/ Letter \/ Other \/ Copied
    \/ LeadingZero \/ SetPointers
    \/ Differ \/ Equal

Spec == Init /\ [][Next]_vars /\ WF_vars(Next)
-------------------------------------------------------------------------------
(* Types; i never passes the end of the loop it belongs to (52, 64). *)
TypeOK ==
    /\ buff \in Buffers
    /\ tmp \in Seq(Digits)
    /\ i \in 1..(IF pc \in {"zeros", "compare"} THEN j ELSE Len(buff)) + 1
    /\ head \in Int
    /\ tail \in Int
    /\ pc \in {"copy", "zeros", "compare", "done", "exited"}
    /\ result \in {-1, 0, 1}

(* The number without its leading zeros reads the same from both ends. *)
Mirrored == \A k \in i..j : tmp[k] = tmp[i + j - k]

(* The meeting pointers decide exactly whether the number that starts behind *)
(* the leading zeros is a palindrome: the middle digit, an even number of    *)
(* digits and a single digit included (70-81).                               *)
ComparisonDecides ==
    pc = "done" /\ result # -1 /\ i <= j => (result = 1 <=> Mirrored)

(* What is compared is what was copied, unless the number is zero or missing. *)
ComparesDigitsOnly ==
    pc = "compare" /\ i <= j => Inside(head) /\ Inside(tail)

Holds(S) == \E k \in DOMAIN buff : buff[k] \in S

(* Where the digits of the number are: white space and leading zeros are       *)
(* passed over (libpalindrome.c 13-14).                                         *)
Significant ==
    {m \in DOMAIN buff : /\ buff[m] \in Digits
                         /\ \E k \in 1..m : buff[k] \in Digits \ {Zero}}

(* Digits with as many before the one as behind the other are the same. *)
IsPalindrome ==
    \A m, n \in Significant :
        Cardinality({k \in Significant : k < m}) = Cardinality({k \in Significant : k > n})
            => buff[m] = buff[n]

(* In a buffer of digits, letters and white space the value returned is 1 for  *)
(* a palindrome and 0 for any other number, wherever white space and zeros are *)
(* strewn in, and -1 exactly when there is a letter (libpalindrome.c 13-14,    *)
(* 24-26, 52-81).  Two kinds of buffer are excepted, for which the code does   *)
(* not do what the comment above it says: other characters, which should give  *)
(* -1 (24) and are passed over (57), and a number that is zero or missing, for *)
(* which a byte that was never written is compared (74).                       *)
ReturnsAsDescribed ==
    pc = "done" /\ ~Holds(Others)
        => /\ result = -1 <=> Holds(Letters)
           /\ ~Holds(Letters) /\ Significant # {} => (result = 1 <=> IsPalindrome)

(* The loops end, on every buffer, unless malloc() fails before them. *)
Terminates == <>(pc \in {"done", "exited"})
===============================================================================
