--------------------------- MODULE PalindromeProofs ---------------------------
(***************************************************************************)
(* is_palindrome() decides rightly, for buffers of any length over any     *)
(* alphabet, and the UDP service around it gives each client the answer to *)
(* its own last line, for any number of clients.                           *)
(***************************************************************************)
EXTENDS Palindrome, PalindromeUdp, FiniteSetTheorems, SequenceTheorems, TLAPS

(***************************************************************************)
(* The loop invariant: the pointers are at the same distance from the two  *)
(* ends of the number, and what lies outside them agrees.                  *)
(***************************************************************************)
Agree(a, b) == \A k \in a..b : tmp[k] = tmp[i + j - k]

Loops ==
    /\ j <= Len(buff)
    /\ pc = "copy" => j < i
    /\ pc = "compare" /\ i <= j => /\ head + tail = i + j
                                   /\ head \in i..tail
                                   /\ Agree(i, head - 1)

Inv == TypeOK /\ Loops /\ ComparisonDecides

(* The half that was compared is the half that was not, read backwards. *)
LEMMA HalfIsEnough ==
    ASSUME TypeOK, i <= j, NEW h \in Int, NEW t \in Int, h + t = i + j, t < h, i <= h,
           Agree(i, h - 1)
    PROVE  Mirrored
<1> SUFFICES ASSUME NEW k \in i..j PROVE tmp[k] = tmp[i + j - k]
    BY DEF Mirrored
<1>0. i \in Int /\ j \in Int
    BY DEF TypeOK, j
<1>1. CASE k <= h - 1
    BY <1>0, <1>1 DEF Agree
<1>2. CASE k >= h
    <2>1. i + j - k \in i..(h - 1)
        BY <1>0, <1>2
    <2>2. i + j - (i + j - k) = k
        BY <1>0
    <2> QED
        BY <2>1, <2>2 DEF Agree
<1> QED
    BY <1>0, <1>1, <1>2

LEMMA InitInv == Init => Inv
<1> SUFFICES ASSUME Init PROVE Inv
    OBVIOUS
<1>1. /\ Len(buff) \in Nat
      /\ j = 0
    BY PalindromeAssumption DEF Init, Buffers, j
<1>2. TypeOK
    BY <1>1 DEF Init, TypeOK
<1>3. Loops /\ ComparisonDecides
    BY <1>1 DEF Init, Loops, ComparisonDecides
<1> QED
    BY <1>2, <1>3 DEF Inv

LEMMA Lengths == TypeOK => Len(buff) \in Nat /\ j \in Nat /\ DOMAIN tmp = 1..j
    BY PalindromeAssumption DEF TypeOK, Buffers, j

LEMMA CopyInv == Inv /\ (CopyDigit \/ Letter \/ Other \/ Copied) => Inv'
<1> SUFFICES ASSUME Inv, CopyDigit \/ Letter \/ Other \/ Copied PROVE Inv'
    OBVIOUS
<1>0. TypeOK /\ Loops /\ ComparisonDecides /\ Len(buff) \in Nat /\ j \in Nat /\ tmp \in Seq(Digits)
    BY Lengths DEF Inv, TypeOK
<1>1. CASE CopyDigit
    <2>1. tmp' \in Seq(Digits) /\ j' = j + 1
        BY <1>0, <1>1 DEF CopyDigit, j
    <2> QED
        BY <1>0, <1>1, <2>1 DEF CopyDigit, Inv, TypeOK, Loops, ComparisonDecides
<1>2. CASE Letter
    BY <1>0, <1>2 DEF Letter, Return, Inv, TypeOK, Loops, ComparisonDecides, j
<1>3. CASE Other
    BY <1>0, <1>3 DEF Other, Inv, TypeOK, Loops, ComparisonDecides, j
<1>4. CASE Copied
    BY <1>0, <1>4 DEF Copied, Inv, TypeOK, Loops, ComparisonDecides, j
<1> QED
    BY <1>1, <1>2, <1>3, <1>4

LEMMA ZerosInv == Inv /\ (LeadingZero \/ SetPointers) => Inv'
<1> SUFFICES ASSUME Inv, LeadingZero \/ SetPointers PROVE Inv'
    OBVIOUS
<1>0. TypeOK /\ Loops /\ ComparisonDecides /\ Len(buff) \in Nat /\ j \in Nat
    BY Lengths DEF Inv
<1>1. CASE LeadingZero
    BY <1>0, <1>1 DEF LeadingZero, Inv, TypeOK, Loops, ComparisonDecides, j
<1>2. CASE SetPointers
    <2>1. j' = j /\ tmp' = tmp /\ i' = i /\ buff' = buff /\ head' = i /\ tail' = j
          /\ pc = "zeros" /\ pc' = "compare" /\ result' = result
        BY <1>2 DEF SetPointers, j
    <2>2. TypeOK'
        BY <1>0, <2>1 DEF TypeOK
    <2>3. Loops'
        BY <1>0, <2>1 DEF Loops, Agree, TypeOK
    <2>4. ComparisonDecides'
        BY <2>1 DEF ComparisonDecides
    <2> QED
        BY <2>2, <2>3, <2>4 DEF Inv
<1> QED
    BY <1>1, <1>2

LEMMA CompareInv == Inv /\ (Differ \/ Equal) => Inv'
<1> SUFFICES ASSUME Inv, Differ \/ Equal PROVE Inv'
    OBVIOUS
<1>0. TypeOK /\ Loops /\ ComparisonDecides /\ Len(buff) \in Nat /\ j \in Nat
    BY Lengths DEF Inv
<1>1. /\ j' = j /\ tmp' = tmp /\ i' = i /\ buff' = buff
      /\ head' = head + 1 /\ tail' = tail - 1 /\ pc = "compare"
    BY DEF Differ, Equal, j
<1>2. i \in Int /\ head \in Int /\ tail \in Int /\ i >= 1
    BY <1>0 DEF TypeOK
<1>3. i <= j => /\ head + tail = i + j /\ head \in i..tail /\ Agree(i, head - 1)
                /\ Inside(head) /\ Inside(tail)
    BY <1>0, <1>1, <1>2 DEF Loops, Inside
<1>4. CASE Differ
    <2>1. pc' = "done" /\ result' = 0
        BY <1>4 DEF Differ, Return
    <2>2. TypeOK'
        BY <1>0, <1>1, <2>1 DEF TypeOK, Loops
    <2>3. i <= j => ~Mirrored
        <3> SUFFICES ASSUME i <= j PROVE ~Mirrored
            OBVIOUS
        <3>1. tmp[head] # tmp[tail] /\ tail = i + j - head /\ head \in i..j
            BY <1>0, <1>2, <1>3, <1>4 DEF Differ, MayDiffer, Inside
        <3> QED
            BY <3>1 DEF Mirrored
    <2>4. ComparisonDecides'
        BY <1>1, <2>1, <2>3 DEF ComparisonDecides, Mirrored
    <2> QED
        BY <1>0, <1>1, <2>1, <2>2, <2>4 DEF Inv, Loops
<1>5. CASE Equal
    <2>1. i <= j => Agree(i, head)
        <3> SUFFICES ASSUME i <= j, NEW k \in i..head PROVE tmp[k] = tmp[i + j - k]
            BY DEF Agree
        <3>1. tmp[head] = tmp[tail] /\ tail = i + j - head
            BY <1>0, <1>2, <1>3, <1>5 DEF Equal, MayEqual
        <3> QED
            BY <1>2, <1>3, <3>1 DEF Agree
    <2>2. i <= j => Agree(i, head' - 1)
        BY <1>1, <1>2, <2>1
    <2>3. CASE head' <= tail' /\ UNCHANGED <<pc, result>>
        <3>1. TypeOK'
            BY <1>0, <1>1, <2>3 DEF TypeOK
        <3>2. Loops'
            BY <1>0, <1>1, <1>2, <1>3, <2>2, <2>3 DEF Loops, Agree
        <3>3. ComparisonDecides'
            BY <1>1, <2>3 DEF ComparisonDecides
        <3> QED
            BY <3>1, <3>2, <3>3 DEF Inv
    <2>4. CASE ~(head' <= tail') /\ pc' = "done" /\ result' = 1
        <3>1. TypeOK'
            BY <1>0, <1>1, <2>4 DEF TypeOK, Loops
        <3>2. i <= j => Mirrored
            <4> SUFFICES ASSUME i <= j PROVE Mirrored
                OBVIOUS
            <4>1. /\ head' \in Int /\ tail' \in Int /\ head' + tail' = i + j
                  /\ tail' < head' /\ i <= head'
                BY <1>1, <1>2, <1>3, <2>4
            <4> QED
                BY <1>0, <2>2, <4>1, HalfIsEnough
        <3>3. ComparisonDecides'
            BY <1>1, <2>4, <3>2 DEF ComparisonDecides, Mirrored
        <3> QED
            BY <1>0, <1>1, <2>4, <3>1, <3>3 DEF Inv, Loops
    <2> QED
        BY <1>5, <2>3, <2>4 DEF Equal, Return
<1> QED
    BY <1>4, <1>5

LEMMA Invariance == Spec => []Inv
<1>1. Inv /\ [Next]_vars => Inv'
    <2> SUFFICES ASSUME Inv, [Next]_vars PROVE Inv'
        OBVIOUS
    <2>1. CASE UNCHANGED vars
        BY <2>1 DEF vars, Inv, TypeOK, Loops, Agree, ComparisonDecides, Mirrored, j
    <2> QED
        BY <2>1, CopyInv, ZerosInv, CompareInv DEF Next
<1> QED
    BY <1>1, InitInv, PTL DEF Spec

(* Whatever the length of the buffer, is_palindrome() returns 1 exactly for a *)
(* number that reads the same from both ends (libpalindrome.c 63-81).         *)
THEOREM DecidesPalindromes == Spec => []ComparisonDecides
<1>1. Inv => ComparisonDecides
    BY DEF Inv
<1> QED
    BY <1>1, Invariance, PTL

(* As long as the number is not zero, the comparison reads digits it copied   *)
(* and nothing else (73-78).                                                  *)
THEOREM ReadsCopiedDigits == Spec => []ComparesDigitsOnly
<1>1. Inv => ComparesDigitsOnly
    BY Lengths DEF Inv, TypeOK, Loops, ComparesDigitsOnly, Inside
<1> QED
    BY <1>1, Invariance, PTL

(* Types: no loop index passes the end of what it runs over (52, 64).         *)
THEOREM TypeCorrect == Spec => []TypeOK
<1>1. Inv => TypeOK
    BY DEF Inv
<1> QED
    BY <1>1, Invariance, PTL

(* How many steps are left at most. *)
StepsLeft ==
    CASE pc = "copy"    -> (Len(buff) + 1 - i) + 2 * Len(buff) + 5
      [] pc = "zeros"   -> (j + 1 - i) + Len(buff) + 4
      [] pc = "compare" -> IF head <= tail THEN tail - head + 2 ELSE 1
      [] OTHER          -> 0

LEMMA LeftIsNat == Inv => StepsLeft \in Nat
<1> SUFFICES ASSUME Inv PROVE StepsLeft \in Nat
    OBVIOUS
<1>1. TypeOK /\ Len(buff) \in Nat /\ j \in Nat
    BY Lengths DEF Inv
<1>2. CASE pc = "copy"
    BY <1>1, <1>2 DEF TypeOK, StepsLeft
<1>3. CASE pc = "zeros"
    BY <1>1, <1>3 DEF TypeOK, StepsLeft
<1>4. CASE pc = "compare"
    BY <1>1, <1>4 DEF TypeOK, StepsLeft
<1>5. CASE pc \in {"done", "exited"}
    BY <1>5 DEF StepsLeft
<1> QED
    BY <1>1, <1>2, <1>3, <1>4, <1>5 DEF TypeOK

(* Each step of each loop leaves fewer to take, so that none of them runs for  *)
(* ever, whatever is in the buffer (52, 64, 73-78).                             *)
THEOREM EveryStepCounts == Spec => [](StepsLeft \in Nat) /\ [][(StepsLeft' < StepsLeft)]_vars
<1>1. ASSUME Inv, Inv', Next PROVE (StepsLeft' < StepsLeft)
    <2>0. TypeOK /\ Loops /\ Len(buff) \in Nat /\ j \in Nat /\ i \in Int /\ i >= 1 /\ StepsLeft \in Nat
        BY <1>1, Lengths, LeftIsNat DEF Inv, TypeOK
    <2>2. CASE CopyDigit \/ Other
        <3>1. /\ pc = "copy" /\ pc' = "copy" /\ i' = i + 1 /\ buff' = buff
            BY <2>2 DEF CopyDigit, Other
        <3> QED
            BY <2>0, <3>1 DEF StepsLeft
    <2>3. CASE Letter \/ Differ
        <3>1. pc' = "done" /\ pc \in {"copy", "compare"}
            BY <2>3 DEF Letter, Differ, Return
        <3>2. StepsLeft' = 0
            BY <3>1 DEF StepsLeft
        <3>3. StepsLeft > 0
            BY <2>0, <3>1 DEF StepsLeft, TypeOK
        <3> QED
            BY <2>0, <3>2, <3>3
    <2>4. CASE Copied
        <3>1. /\ pc = "copy" /\ pc' = "zeros" /\ i' = 1 /\ i = Len(buff) + 1
              /\ buff' = buff /\ j' = j
            BY <2>0, <2>4 DEF Copied, TypeOK, j
        <3>2. j <= Len(buff)
            BY <2>0 DEF Loops
        <3> QED
            BY <2>0, <3>1, <3>2 DEF StepsLeft
    <2>5. CASE LeadingZero
        <3>1. pc = "zeros" /\ pc' = "zeros" /\ i' = i + 1 /\ buff' = buff /\ j' = j
            BY <2>5 DEF LeadingZero, j
        <3> QED
            BY <2>0, <3>1 DEF StepsLeft
    <2>6. CASE SetPointers
        <3>1. /\ pc = "zeros" /\ pc' = "compare" /\ head' = i /\ tail' = j /\ i <= j + 1
            BY <2>0, <2>6 DEF SetPointers, TypeOK
        <3>2. j <= Len(buff)
            BY <2>0 DEF Loops
        <3> QED
            BY <2>0, <3>1, <3>2 DEF StepsLeft
    <2>7. CASE Equal
        <3>1. /\ pc = "compare" /\ head' = head + 1 /\ tail' = tail - 1
              /\ head \in Int /\ tail \in Int
            BY <2>0, <2>7 DEF Equal, TypeOK
        <3>2. CASE head' <= tail' /\ pc' = pc
            BY <3>1, <3>2 DEF StepsLeft
        <3>3. CASE pc' = "done"
            BY <3>1, <3>3 DEF StepsLeft
        <3> QED
            BY <2>0, <2>7, <3>2, <3>3 DEF Equal, Return
    <2> QED
        BY <1>1, <2>0, <2>2, <2>3, <2>4, <2>5, <2>6, <2>7 DEF Next
<1> QED
    BY <1>1, LeftIsNat, Invariance, PTL DEF Spec

-------------------------------------------------------------------------------
(***************************************************************************)
(* The value returned, against what is in the buffer.  The digit at m is   *)
(* copied to the place that is its rank among the digits, so distances     *)
(* within tmp are numbers of digits in buff.                               *)
(***************************************************************************)
DigitAt == {m \in DOMAIN buff : buff[m] \in Digits}

UpTo(n) == {k \in DigitAt : k <= n}

Rank(n) == Cardinality(UpTo(n))

(* The first n characters have been copied. *)
Copies(n) ==
    /\ j = Rank(n)
    /\ \A k \in 1..n : buff[k] \notin Letters
    /\ \A m \in UpTo(n) : tmp[Rank(m)] = buff[m]
    /\ \A r \in 1..j : \E m \in UpTo(n) : Rank(m) = r

Skipped ==
    /\ \A r \in 1..(i - 1) : r <= j /\ tmp[r] = Zero
    /\ pc # "zeros" /\ i <= j => tmp[i] # Zero

Copying == pc \in {"copy", "exited"}

Seen == IF Copying THEN i - 1 ELSE Len(buff)

Reads ==
    /\ pc # "done" => result = 0
    /\ result = -1 => Holds(Letters)
    /\ result # -1 => \A n \in Nat : n = Seen => Copies(n)
    /\ ~Copying /\ result # -1 => Skipped

LEMMA Buffer ==
    ASSUME TypeOK
    PROVE  /\ Len(buff) \in Nat /\ DOMAIN buff = 1..Len(buff) /\ j \in Nat
           /\ DigitAt \subseteq 1..Len(buff)
           /\ \A k \in 1..Len(buff) : buff[k] \in Digits \cup Letters \cup Spaces \cup Others
<1>1. Len(buff) \in Nat /\ DOMAIN buff = 1..Len(buff) /\ j \in Nat
      /\ \A k \in 1..Len(buff) : buff[k] \in Chars
    BY PalindromeAssumption DEF TypeOK, Buffers, j
<1> QED
    BY <1>1 DEF DigitAt, Chars

LEMMA RankIsNat == TypeOK => \A n : IsFiniteSet(UpTo(n)) /\ Rank(n) \in Nat
<1> SUFFICES ASSUME TypeOK, NEW n PROVE IsFiniteSet(UpTo(n)) /\ Rank(n) \in Nat
    OBVIOUS
<1>1. UpTo(n) \subseteq 1..Len(buff) /\ IsFiniteSet(1..Len(buff))
    BY Buffer, FS_Interval DEF UpTo
<1> QED
    BY <1>1, FS_Subset, FS_CardinalityType DEF Rank

(* One more character is looked at. *)
LEMMA RankStep ==
    ASSUME TypeOK, NEW n \in 1..Len(buff)
    PROVE  /\ n \in DigitAt => UpTo(n) = UpTo(n - 1) \cup {n} /\ Rank(n) = Rank(n - 1) + 1
           /\ n \notin DigitAt => UpTo(n) = UpTo(n - 1) /\ Rank(n) = Rank(n - 1)
<1>1. /\ n \in Int /\ \A k \in DigitAt : k \in Int
      /\ \A k \in DigitAt : k <= n <=> k <= n - 1 \/ k = n
      /\ ~(n <= n - 1)
    <2>1. n \in Int /\ \A k \in DigitAt : k \in Int
        BY Buffer
    <2> QED
        BY <2>1
<1>2. n \in DigitAt => UpTo(n) = UpTo(n - 1) \cup {n}
    BY <1>1, Zenon DEF UpTo
<1>3. n \notin DigitAt => UpTo(n) = UpTo(n - 1)
    BY <1>1, Zenon DEF UpTo
<1>4. n \notin UpTo(n - 1) /\ IsFiniteSet(UpTo(n - 1))
    BY <1>1, RankIsNat, Zenon DEF UpTo
<1> QED
    BY <1>2, <1>3, <1>4, FS_AddElement DEF Rank

LEMMA RankGrows ==
    ASSUME TypeOK, NEW m \in DigitAt, NEW n \in DigitAt
    PROVE  /\ m < n => Rank(m) < Rank(n)
           /\ m <= n <=> Rank(m) <= Rank(n)
           /\ Rank(m) = Rank(n) => m = n
<1>1. ASSUME NEW k \in DigitAt, NEW l \in DigitAt, k < l PROVE Rank(k) < Rank(l)
    <2>1. l <= l /\ ~(l <= k) /\ \A m1 \in DigitAt : m1 <= k => m1 <= l
        <3>1. l \in Int /\ k \in Int /\ \A m1 \in DigitAt : m1 \in Int
            BY Buffer
        <3> QED
            BY <1>1, <3>1
    <2>2. UpTo(k) \subseteq UpTo(l) /\ l \in UpTo(l) /\ l \notin UpTo(k)
        BY <1>1, <2>1, Zenon DEF UpTo
    <2>3. Rank(k) <= Rank(l) /\ Rank(k) # Rank(l)
        BY <2>2, RankIsNat, FS_Subset DEF Rank
    <2> QED
        BY <2>3, RankIsNat
<1>2. m \in Nat /\ n \in Nat /\ Rank(m) \in Nat /\ Rank(n) \in Nat
    BY Buffer, RankIsNat
<1> QED
    BY <1>1, <1>2

LEMMA RankRange ==
    ASSUME TypeOK, NEW n \in Nat, NEW m \in UpTo(n)
    PROVE  Rank(m) \in 1..Rank(n)
<1>1. m \in DigitAt /\ m <= m /\ \A k \in DigitAt : k <= m => k <= n
    <2>1. m \in DigitAt /\ m <= n /\ m \in Int /\ \A k \in DigitAt : k \in Int
        BY Buffer DEF UpTo
    <2> QED
        BY <2>1
<1>2. m \in UpTo(m) /\ UpTo(m) \subseteq UpTo(n)
    BY <1>1, Zenon DEF UpTo
<1>3. Rank(m) # 0 /\ Rank(m) <= Rank(n)
    BY <1>2, RankIsNat, FS_EmptySet, FS_Subset DEF Rank
<1> QED
    BY <1>3, RankIsNat

LEMMA RankKept ==
    ASSUME buff' = buff
    PROVE  DigitAt' = DigitAt /\ \A n : UpTo(n)' = UpTo(n) /\ Rank(n)' = Rank(n)
BY DEF Rank, UpTo, DigitAt

LEMMA CopiesKept == ASSUME buff' = buff, tmp' = tmp, NEW n, Copies(n) PROVE Copies(n)'
<1>1. \A k : UpTo(k)' = UpTo(k) /\ Rank(k)' = Rank(k)
    BY RankKept
<1>2. j' = j
    BY DEF j
<1> QED
    BY <1>1, <1>2 DEF Copies

LEMMA CopiesDigit ==
    ASSUME TypeOK, NEW n \in 1..Len(buff), buff[n] \in Digits, Copies(n - 1),
           buff' = buff, tmp' = Append(tmp, buff[n])
    PROVE  Copies(n)'
<1>0. /\ n \in DigitAt /\ n - 1 \in Nat /\ j \in Nat /\ tmp \in Seq(Digits)
      /\ buff[n] \notin Letters /\ n \in Nat
    BY Buffer, PalindromeAssumption DEF DigitAt, TypeOK
<1>1. /\ j = Rank(n - 1) /\ \A k \in 1..(n - 1) : buff[k] \notin Letters
      /\ \A m \in UpTo(n - 1) : tmp[Rank(m)] = buff[m]
      /\ \A r \in 1..j : \E m \in UpTo(n - 1) : Rank(m) = r
    BY DEF Copies
<1>2. UpTo(n) = UpTo(n - 1) \cup {n} /\ Rank(n) = j + 1
    BY <1>0, <1>1, RankStep
<1>3. /\ j' = j + 1 /\ tmp'[j + 1] = buff[n] /\ \A r \in 1..j : tmp'[r] = tmp[r]
    BY <1>0, AppendProperties DEF j
<1>4. j' = Rank(n) /\ \A k \in 1..n : buff[k] \notin Letters
    BY <1>0, <1>1, <1>2, <1>3
<1>5. \A m \in UpTo(n) : tmp'[Rank(m)] = buff[m]
    <2>1. \A m \in UpTo(n - 1) : Rank(m) \in 1..j
        BY <1>0, <1>1, RankRange
    <2>2. \A m \in UpTo(n - 1) : tmp'[Rank(m)] = buff[m]
        BY <1>1, <1>3, <2>1
    <2> QED
        BY <1>2, <1>3, <2>2
<1>6. \A r \in 1..j' : \E m \in UpTo(n) : Rank(m) = r
    <2>1. \A r \in 1..j' : r \in 1..j \/ r = j + 1
        BY <1>0, <1>3
    <2> QED
        BY <1>1, <1>2, <2>1
<1> QED
    BY <1>4, <1>5, <1>6, RankKept DEF Copies

LEMMA CopiesOther ==
    ASSUME TypeOK, NEW n \in 1..Len(buff), buff[n] \in Spaces \cup Others, Copies(n - 1),
           buff' = buff, tmp' = tmp
    PROVE  Copies(n)'
<1>0. n \notin DigitAt /\ buff[n] \notin Letters /\ n \in Nat
    BY Buffer, PalindromeAssumption DEF DigitAt
<1>1. UpTo(n) = UpTo(n - 1) /\ Rank(n) = Rank(n - 1)
    BY <1>0, RankStep
<1>2. \A k \in 1..n : k \in 1..(n - 1) \/ k = n
    BY <1>0
<1>3. Copies(n)
    BY <1>0, <1>1, <1>2 DEF Copies
<1> QED
    BY <1>3, CopiesKept

LEMMA InitReads == Init => Reads
<1> SUFFICES ASSUME Init PROVE Reads
    OBVIOUS
<1>1. TypeOK /\ Seen = 0 /\ j = 0 /\ Copying /\ pc # "done" /\ result = 0
    BY InitInv DEF Init, Inv, Seen, Copying, j
<1>2. UpTo(0) = {}
    BY <1>1, Buffer DEF UpTo
<1>3. Rank(0) = 0
    BY <1>2, FS_EmptySet DEF Rank
<1>4. Copies(0)
    BY <1>1, <1>2, <1>3 DEF Copies
<1> QED
    BY <1>1, <1>4 DEF Reads

LEMMA NextReads == Inv /\ Reads /\ [Next]_vars => Reads'
<1> SUFFICES ASSUME Inv, Reads, [Next]_vars PROVE Reads'
    OBVIOUS
<1>0. TypeOK /\ Loops /\ Len(buff) \in Nat /\ DOMAIN buff = 1..Len(buff) /\ j \in Nat /\ i \in Int
    BY Buffer DEF Inv, TypeOK
<1>1. CASE CopyDigit
    <2>1. /\ pc = "copy" /\ pc' = "copy" /\ result = 0 /\ result' = 0 /\ buff' = buff
          /\ i \in 1..Len(buff) /\ buff[i] \in Digits /\ tmp' = Append(tmp, buff[i]) /\ i' = i + 1
        BY <1>0, <1>1 DEF CopyDigit, Reads, TypeOK
    <2>2. PICK n \in 1..Len(buff) : n = i
        BY <2>1
    <2>3. Copies(n - 1)
        BY <2>1, <2>2 DEF Reads, Seen, Copying
    <2>4. Copies(n)'
        BY <1>0, <2>1, <2>2, <2>3, CopiesDigit
    <2>5. Seen' = n
        BY <1>0, <2>1, <2>2 DEF Seen, Copying
    <2> QED
        BY <2>1, <2>4, <2>5 DEF Reads, Copying
<1>2. CASE Letter
    <2>1. result' = -1 /\ pc' = "done" /\ i \in 1..Len(buff) /\ buff[i] \in Letters /\ buff' = buff
        BY <1>0, <1>2 DEF Letter, Return, TypeOK
    <2>2. Holds(Letters)'
        BY <1>0, <2>1 DEF Holds
    <2> QED
        BY <2>1, <2>2 DEF Reads, Copying
<1>3. CASE Other
    <2>1. /\ pc = "copy" /\ pc' = "copy" /\ result = 0 /\ result' = 0 /\ buff' = buff
          /\ i \in 1..Len(buff) /\ buff[i] \in Spaces \cup Others /\ tmp' = tmp /\ i' = i + 1
        BY <1>0, <1>3 DEF Other, Reads, TypeOK
    <2>2. PICK n \in 1..Len(buff) : n = i
        BY <2>1
    <2>3. Copies(n - 1)
        BY <2>1, <2>2 DEF Reads, Seen, Copying
    <2>4. Copies(n)'
        BY <1>0, <2>1, <2>2, <2>3, CopiesOther
    <2>5. Seen' = n
        BY <1>0, <2>1, <2>2 DEF Seen, Copying
    <2> QED
        BY <2>1, <2>4, <2>5 DEF Reads, Copying
<1>4. ASSUME tmp' = tmp, buff' = buff, Seen' = Seen, pc # "done" \/ result' = result,
             (pc' # "done" => result' = 0) /\ result' # -1 /\ (~Copying' => Skipped')
      PROVE  result # -1 => Reads'
    <2>1. \A n \in Nat : n = Seen /\ Copies(n) => Copies(n)'
        BY <1>4, CopiesKept
    <2> QED
        BY <1>4, <2>1 DEF Reads, Copying
<1>5. CASE Copied
    <2>1. /\ tmp' = tmp /\ buff' = buff /\ pc = "copy" /\ pc' = "zeros" /\ i' = 1
          /\ result = 0 /\ result' = 0 /\ i = Len(buff) + 1
        BY <1>0, <1>5 DEF Copied, Reads, TypeOK
    <2>2. Seen' = Seen
        BY <1>0, <2>1 DEF Seen, Copying
    <2>3. Skipped'
        BY <2>1 DEF Skipped
    <2> QED
        BY <1>4, <2>1, <2>2, <2>3
<1>6. CASE LeadingZero
    <2>1. /\ tmp' = tmp /\ buff' = buff /\ pc = "zeros" /\ pc' = "zeros" /\ i' = i + 1
          /\ result = 0 /\ result' = 0 /\ i <= j /\ tmp[i] = Zero /\ Skipped
        BY <1>0, <1>6 DEF LeadingZero, Reads, Copying
    <2>2. Seen' = Seen
        BY <2>1 DEF Seen, Copying
    <2>3. Skipped'
        <3>1. \A r \in 1..(i' - 1) : r \in 1..(i - 1) \/ r = i
            BY <1>0, <2>1
        <3> QED
            BY <2>1, <3>1 DEF Skipped, j
    <2> QED
        BY <1>4, <2>1, <2>2, <2>3
<1>7. CASE SetPointers
    <2>1. /\ tmp' = tmp /\ buff' = buff /\ pc = "zeros" /\ pc' = "compare" /\ i' = i
          /\ result = 0 /\ result' = 0 /\ (i <= j => tmp[i] # Zero) /\ Skipped
        BY <1>7 DEF SetPointers, Reads, Copying
    <2>2. Seen' = Seen
        BY <2>1 DEF Seen, Copying
    <2>3. Skipped'
        BY <2>1 DEF Skipped, j
    <2> QED
        BY <1>4, <2>1, <2>2, <2>3
<1>8. CASE Differ \/ Equal
    <2>1. /\ tmp' = tmp /\ buff' = buff /\ pc = "compare" /\ pc' \in {"compare", "done"} /\ i' = i
          /\ result = 0 /\ result' \in {0, 1} /\ (pc' # "done" => result' = 0) /\ Skipped
        BY <1>8 DEF Differ, Equal, Return, Reads, Copying
    <2>2. Seen' = Seen
        BY <2>1 DEF Seen, Copying
    <2>3. Skipped'
        BY <2>1 DEF Skipped, j
    <2> QED
        BY <1>4, <2>1, <2>2, <2>3
<1>9. CASE UNCHANGED vars
    <2>1. /\ UNCHANGED <<buff, tmp, i, pc, result>> /\ Seen' = Seen
        BY <1>9 DEF vars, Seen, Copying
    <2>2. \A n \in Nat : Copies(n) => Copies(n)'
        BY <2>1, CopiesKept
    <2> QED
        BY <2>1, <2>2 DEF Reads, Copying, Skipped, Holds, j
<1> QED
    BY <1>1, <1>2, <1>3, <1>5, <1>6, <1>7, <1>8, <1>9 DEF Next

(* The digits before the first significant one are the zeros skipped. *)
LEMMA FirstDigit ==
    ASSUME TypeOK, Copies(Len(buff)), Skipped, pc # "zeros"
    PROVE  /\ \A m \in DigitAt : Rank(m) \in 1..j /\ tmp[Rank(m)] = buff[m]
           /\ \A r \in 1..j : \E m \in DigitAt : Rank(m) = r
           /\ \A m : m \in Significant <=> m \in DigitAt /\ Rank(m) >= i
<1>0. /\ UpTo(Len(buff)) = DigitAt /\ Len(buff) \in Nat /\ DOMAIN buff = 1..Len(buff)
      /\ i \in Nat \ {0} /\ j \in Nat
    <2>1. Len(buff) \in Nat /\ DOMAIN buff = 1..Len(buff) /\ j \in Nat
        BY Buffer
    <2>2. \A k \in DigitAt : k <= Len(buff)
        BY Buffer
    <2>3. UpTo(Len(buff)) = DigitAt
        BY <2>2, Zenon DEF UpTo
    <2> QED
        BY <2>1, <2>3 DEF TypeOK
<1>1. ASSUME NEW m \in DigitAt PROVE Rank(m) \in 1..j /\ tmp[Rank(m)] = buff[m]
    BY <1>0, RankRange DEF Copies
<1>2. \A r \in 1..j : \E m \in DigitAt : Rank(m) = r
    BY <1>0 DEF Copies
<1>3. ASSUME NEW m \in Significant PROVE m \in DigitAt /\ Rank(m) >= i
    <2>1. PICK k \in 1..m : buff[k] \in Digits \ {Zero}
        BY DEF Significant
    <2>2. m \in DigitAt /\ k \in DigitAt /\ k <= m
        <3>1. m \in DigitAt /\ m \in 1..Len(buff)
            BY <1>0 DEF Significant, DigitAt
        <3>2. k \in DOMAIN buff /\ k <= m
            BY <1>0, <3>1
        <3> QED
            BY <2>1, <3>1, <3>2 DEF DigitAt
    <2>3. Rank(k) <= Rank(m) /\ Rank(k) \in 1..j /\ Rank(m) \in 1..j /\ tmp[Rank(k)] # Zero
        BY <1>1, <2>1, <2>2, RankGrows
    <2>4. Rank(k) \notin 1..(i - 1)
        BY <2>3 DEF Skipped
    <2> QED
        BY <1>0, <2>2, <2>3, <2>4
<1>4. ASSUME NEW m \in DigitAt, Rank(m) >= i PROVE m \in Significant
    <2>1. i \in 1..j /\ tmp[i] # Zero
        BY <1>0, <1>1, <1>4 DEF Skipped
    <2>2. PICK k \in DigitAt : Rank(k) = i
        BY <1>2, <2>1
    <2>3. buff[k] \in Digits \ {Zero} /\ k <= m /\ k \in 1..Len(buff) /\ m \in 1..Len(buff)
        BY <1>0, <1>1, <1>4, <2>1, <2>2, RankGrows DEF DigitAt
    <2>4. k \in 1..m
        BY <1>0, <2>3
    <2> QED
        BY <2>3, <2>4 DEF Significant, DigitAt
<1> QED
    BY <1>1, <1>2, <1>3, <1>4

LEMMA PartRemoved ==
    ASSUME NEW S, NEW T \in SUBSET S, IsFiniteSet(S)
    PROVE  Cardinality(S \ T) = Cardinality(S) - Cardinality(T)
<1>1. S \cap T = T
    OBVIOUS
<1> QED
    BY <1>1, FS_Difference

(* How many digits stand before and behind one of the number. *)
LEMMA Distances ==
    ASSUME TypeOK, Copies(Len(buff)), Skipped, pc # "zeros", NEW m \in Significant
    PROVE  /\ Cardinality({k \in Significant : k < m}) = Rank(m) - i
           /\ Cardinality({k \in Significant : k > m}) = j - Rank(m)
<1>0. /\ m \in DigitAt /\ i <= Rank(m) /\ Rank(m) \in 1..j /\ i \in 1..j
      /\ \A k : k \in Significant <=> k \in DigitAt /\ Rank(k) >= i
      /\ \A k \in DigitAt : Rank(k) \in 1..j /\ k \in Int
      /\ j = Rank(Len(buff)) /\ j \in Nat
    <2>1. i \in Nat \ {0} /\ j \in Nat
        BY Buffer DEF TypeOK
    <2>2. /\ m \in DigitAt /\ i <= Rank(m) /\ Rank(m) \in 1..j
          /\ \A k : k \in Significant <=> k \in DigitAt /\ Rank(k) >= i
          /\ \A k \in DigitAt : Rank(k) \in 1..j
        BY FirstDigit
    <2> QED
        BY <2>1, <2>2, Buffer DEF Copies
<1>1. PICK p \in DigitAt : Rank(p) = i
    BY <1>0, FirstDigit
<1>2. \A k \in DigitAt : /\ (k <= p <=> Rank(k) <= i)
                         /\ (k <= m <=> Rank(k) <= Rank(m))
                         /\ (k = p <=> Rank(k) = i)
                         /\ (k = m <=> Rank(k) = Rank(m))
    BY <1>0, <1>1, RankGrows
<1>3. \A k \in DigitAt :
          /\ k <= p => k <= m
          /\ k < m <=> k <= m /\ k # m
          /\ k > m <=> ~(k <= m)
          /\ Rank(k) >= i <=> ~(k <= p) \/ k = p
          /\ ~(k <= m) => ~(k <= p)
    <2> SUFFICES ASSUME NEW k \in DigitAt
                 PROVE  /\ k <= p => k <= m
                        /\ k < m <=> k <= m /\ k # m
                        /\ k > m <=> ~(k <= m)
                        /\ Rank(k) >= i <=> ~(k <= p) \/ k = p
                        /\ ~(k <= m) => ~(k <= p)
        OBVIOUS
    <2>1. k \in Int /\ m \in Int /\ p \in Int /\ Rank(k) \in Int /\ i \in Int /\ Rank(m) \in Int
        BY <1>0
    <2> QED
        BY <1>0, <1>2, <2>1
<1>4. /\ {k \in Significant : k < m} = (UpTo(m) \ {m}) \ (UpTo(p) \ {p})
      /\ UpTo(p) \ {p} \subseteq UpTo(m) \ {m}
      /\ p \in UpTo(p) /\ m \in UpTo(m)
    <2>1. p <= p /\ m <= m /\ (m <= p => m = p)
        BY <1>0, <1>2
    <2>2. \A k \in DigitAt : k \in Significant <=> ~(k <= p) \/ k = p
        BY <1>0, <1>3
    <2>3. \A k : k \in Significant => k \in DigitAt
        BY <1>0
    <2>4. \A k \in DigitAt : k = m /\ k <= p => k = p
        BY <2>1
    <2> QED
        BY <1>0, <1>1, <1>3, <2>1, <2>2, <2>3, <2>4, Zenon DEF UpTo
<1>5. /\ {k \in Significant : k > m} = UpTo(Len(buff)) \ UpTo(m)
      /\ UpTo(m) \subseteq UpTo(Len(buff))
    <2>1. \A k \in DigitAt : k <= Len(buff)
        BY Buffer
    <2>2. \A k \in DigitAt : k \in Significant <=> ~(k <= p) \/ k = p
        BY <1>0, <1>3
    <2>3. \A k : k \in Significant => k \in DigitAt
        BY <1>0
    <2> QED
        BY <1>3, <2>1, <2>2, <2>3, Zenon DEF UpTo
<1>6. Cardinality({k \in Significant : k < m}) = Rank(m) - i
    <2> DEFINE M == UpTo(m) \ {m}
               P == UpTo(p) \ {p}
               L == {k \in Significant : k < m}
    <2>1. /\ IsFiniteSet(M) /\ Cardinality(M) = Rank(m) - 1
          /\ Cardinality(P) = i - 1
        BY <1>1, <1>4, RankIsNat, FS_RemoveElement DEF Rank
    <2>2. P \subseteq M /\ L = M \ P
        BY <1>4
    <2> HIDE DEF M, P, L
    <2>3. Cardinality(L) = Cardinality(M) - Cardinality(P)
        BY <2>1, <2>2, PartRemoved
    <2>4. Rank(m) \in Int /\ i \in Int
        BY <1>0
    <2>5. Cardinality(L) = Rank(m) - i
        BY <2>1, <2>3, <2>4
    <2> QED
        BY <2>5 DEF L
<1>7. Cardinality({k \in Significant : k > m}) = j - Rank(m)
    BY <1>0, <1>5, RankIsNat, PartRemoved DEF Rank
<1> QED
    BY <1>6, <1>7

LEMMA MirroredIsPalindrome ==
    ASSUME TypeOK, Copies(Len(buff)), Skipped, pc # "zeros"
    PROVE  /\ Significant # {} => i <= j
           /\ Mirrored <=> IsPalindrome
<1>0. i \in Int /\ j \in Int /\ i >= 1
    BY Buffer DEF TypeOK
<1>1. \A m \in Significant :
          m \in DigitAt /\ Rank(m) \in i..j /\ tmp[Rank(m)] = buff[m]
    BY <1>0, FirstDigit
<1>2. \A m, n \in Significant :
          Cardinality({k \in Significant : k < m}) = Cardinality({k \in Significant : k > n})
              <=> Rank(n) = i + j - Rank(m)
    <2> SUFFICES ASSUME NEW m \in Significant, NEW n \in Significant
                 PROVE  Cardinality({k \in Significant : k < m})
                            = Cardinality({k \in Significant : k > n})
                        <=> Rank(n) = i + j - Rank(m)
        OBVIOUS
    <2>1. Rank(m) \in Int /\ Rank(n) \in Int
        BY <1>0, <1>1
    <2>2. /\ Cardinality({k \in Significant : k < m}) = Rank(m) - i
          /\ Cardinality({k \in Significant : k > n}) = j - Rank(n)
        BY Distances
    <2> QED
        BY <1>0, <2>1, <2>2
<1>3. ASSUME Mirrored PROVE IsPalindrome
    <2> SUFFICES ASSUME NEW m \in Significant, NEW n \in Significant, Rank(n) = i + j - Rank(m)
                 PROVE  buff[m] = buff[n]
        BY <1>2 DEF IsPalindrome
    <2> QED
        BY <1>1, <1>3 DEF Mirrored
<1>4. ASSUME IsPalindrome PROVE Mirrored
    <2> SUFFICES ASSUME NEW k \in i..j PROVE tmp[k] = tmp[i + j - k]
        BY DEF Mirrored
    <2>1. k \in 1..j /\ i + j - k \in 1..j /\ i + j - k >= i /\ k >= i
        BY <1>0
    <2>2. PICK m \in DigitAt : Rank(m) = k
        BY <2>1, FirstDigit
    <2>3. PICK n \in DigitAt : Rank(n) = i + j - k
        BY <2>1, FirstDigit
    <2>4. m \in Significant /\ n \in Significant
        BY <2>1, <2>2, <2>3, FirstDigit
    <2>5. buff[m] = buff[n]
        BY <1>2, <1>4, <2>2, <2>3, <2>4 DEF IsPalindrome
    <2> QED
        BY <1>1, <2>2, <2>3, <2>4, <2>5
<1>5. Significant # {} => i <= j
    BY <1>0, <1>1
<1> QED
    BY <1>3, <1>4, <1>5

(* In a buffer of digits, letters and white space is_palindrome() returns 1   *)
(* for a palindrome, 0 for any other number with a significant digit, and -1  *)
(* exactly when there is a letter, whatever the length of the buffer and      *)
(* wherever white space and zeros are strewn in (libpalindrome.c 13-14,       *)
(* 24-26, 52-81).                                                             *)
THEOREM ReturnValue == Spec => []ReturnsAsDescribed
<1>1. Inv /\ Reads => ReturnsAsDescribed
    <2> SUFFICES ASSUME Inv, Reads, pc = "done"
                 PROVE  /\ result = -1 <=> Holds(Letters)
                        /\ ~Holds(Letters) /\ Significant # {} => (result = 1 <=> IsPalindrome)
        BY DEF ReturnsAsDescribed
    <2>0. TypeOK /\ ComparisonDecides /\ Len(buff) \in Nat /\ DOMAIN buff = 1..Len(buff)
        BY Buffer DEF Inv
    <2>1. result # -1 => Copies(Len(buff)) /\ Skipped
        BY <2>0 DEF Reads, Seen, Copying
    <2>2. result # -1 => ~Holds(Letters)
        BY <2>0, <2>1 DEF Copies, Holds
    <2>3. result = -1 => Holds(Letters)
        BY DEF Reads
    <2>4. result # -1 /\ Significant # {} => (result = 1 <=> IsPalindrome)
        BY <2>0, <2>1, MirroredIsPalindrome DEF ComparisonDecides
    <2> QED
        BY <2>2, <2>3, <2>4
<1> QED
    BY <1>1, InitReads, NextReads, Invariance, PTL DEF Spec

-------------------------------------------------------------------------------
(***************************************************************************)
(* The UDP service around the function, for any number of clients, lines   *)
(* and datagrams that fit into the queue.  The inductive invariant follows *)
(* the one datagram a client has under way: it carries what the client     *)
(* sent last, or its answer, and it is in one place only.                  *)
(***************************************************************************)
Datagrams == [from : Clients, frame : Frames]

UdpTypes ==
    /\ cpc \in [Clients -> {"fgets", "recv", "done", "failed"}]
    /\ last \in [Clients -> Frames]
    /\ heard \in [Clients -> Seq([to : Frames, answer : Answers])]
    /\ queue \in Seq(Datagrams)
    /\ reply \in [Clients -> Seq(Answers)]
    /\ refused \in [Clients -> BOOLEAN]
    /\ peer \in Clients
    /\ mess \in Answers

From(c) == {k \in DOMAIN queue : queue[k].from = c}

Served(c) == spc = "sendto" /\ peer = c

(* Queued, being answered, or answered, and only one of these. *)
OnePlace(c) ==
    /\ cpc[c] \in {"fgets", "failed"} => From(c) = {} /\ ~Served(c) /\ reply[c] = <<>>
    /\ From(c) # {} => ~Served(c) /\ reply[c] = <<>>
    /\ Served(c) => reply[c] = <<>>
    /\ \A k, l \in From(c) : k = l
    /\ Len(reply[c]) <= 1
    /\ refused[c] => spc = "stopped" /\ From(c) = {} /\ reply[c] = <<>>

OfLastLine(c) ==
    /\ \A k \in From(c) : queue[k].frame = last[c]
    /\ Served(c) => Fits(last[c], mess)
    /\ reply[c] # <<>> => Fits(last[c], reply[c][1])
    /\ \A k \in DOMAIN heard[c] : Fits(heard[c][k].to, heard[c][k].answer)

UdpInv == UdpTypes /\ \A c \in Clients : OnePlace(c) /\ OfLastLine(c)

LEMMA UdpInit == ServiceInit => UdpInv
<1> SUFFICES ASSUME ServiceInit PROVE UdpInv
    OBVIOUS
<1>0. DOMAIN << >> = {} /\ \A S : << >> \in Seq(S)
    BY EmptySeq
<1>1. UdpTypes
    <2>1. /\ cpc \in [Clients -> {"fgets", "recv", "done", "failed"}]
          /\ last \in [Clients -> Frames]
          /\ refused \in [Clients -> BOOLEAN]
          /\ peer \in Clients /\ mess \in Answers
        BY DEF ServiceInit, Frames, Answers
    <2>2. heard \in [Clients -> Seq([to : Frames, answer : Answers])]
        BY <1>0 DEF ServiceInit
    <2>3. reply \in [Clients -> Seq(Answers)] /\ queue \in Seq(Datagrams)
        BY <1>0 DEF ServiceInit
    <2> QED
        BY <2>1, <2>2, <2>3 DEF UdpTypes
<1>2. ASSUME NEW c \in Clients PROVE OnePlace(c) /\ OfLastLine(c)
    <2>1. From(c) = {}
        BY <1>0 DEF ServiceInit, From
    <2>2. ~Served(c) /\ reply[c] = << >> /\ ~refused[c] /\ heard[c] = << >>
          /\ cpc[c] = "fgets"
        BY DEF ServiceInit, Served
    <2>3. Len(reply[c]) = 0 /\ DOMAIN heard[c] = {}
        BY <1>0, <2>2
    <2>4. OnePlace(c)
        BY <2>1, <2>2, <2>3 DEF OnePlace
    <2> QED
        BY <2>1, <2>2, <2>3, <2>4 DEF OfLastLine
<1> QED
    BY <1>1, <1>2 DEF UdpInv

(* The step of a client that sends: its line goes last into the queue. *)
LEMMA SendKeeps ==
    ASSUME UdpInv, NEW c \in Clients, NEW f \in Frames, Send(c, f), cpc[c] = "fgets",
           NEW s \in {"recv", "done"}, cpc' = [cpc EXCEPT ![c] = s],
           UNCHANGED <<heard, reply, spc, peer, mess>>
    PROVE  UdpInv'
<1> DEFINE d == [from |-> c, frame |-> f]
<1>1. UdpTypes /\ OnePlace(c) /\ From(c) = {} /\ ~Served(c) /\ reply[c] = <<>>
    BY DEF UdpInv, OnePlace
<1>2. d \in Datagrams
    BY DEF Datagrams
<1>3. /\ last' = [last EXCEPT ![c] = f]
      /\ \/ spc = "stopped" /\ refused' = [refused EXCEPT ![c] = TRUE] /\ queue' = queue
         \/ spc # "stopped" /\ refused' = refused /\ queue' = Append(queue, d)
         \/ spc # "stopped" /\ refused' = refused /\ queue' = queue
    BY DEF Send
<1>4. UdpTypes'
    <2>1. queue' \in Seq(Datagrams)
        <3>1. queue \in Seq(Datagrams)
            BY <1>1 DEF UdpTypes
        <3>2. Append(queue, d) \in Seq(Datagrams)
            <4> HIDE DEF d
            <4> QED
                BY <1>2, <3>1, AppendProperties
        <3> QED
            BY <1>3, <3>1, <3>2
    <2>2. refused' \in [Clients -> BOOLEAN] /\ last' \in [Clients -> Frames]
          /\ cpc' \in [Clients -> {"fgets", "recv", "done", "failed"}]
        BY <1>1, <1>3 DEF UdpTypes
    <2> QED
        BY <1>1, <2>1, <2>2 DEF UdpTypes
<1>5. ASSUME NEW e \in Clients, e # c PROVE OnePlace(e)' /\ OfLastLine(e)'
    <2>1. OnePlace(e) /\ OfLastLine(e)
        BY DEF UdpInv
    <2>2. /\ cpc'[e] = cpc[e] /\ last'[e] = last[e] /\ refused'[e] = refused[e]
          /\ reply'[e] = reply[e] /\ heard'[e] = heard[e] /\ Served(e)' = Served(e)
        BY <1>1, <1>3, <1>5 DEF UdpTypes, Served
    <2>3. From(e)' = From(e) /\ \A k \in From(e) : queue'[k] = queue[k]
        <3>1. CASE queue' = queue
            BY <3>1 DEF From
        <3>2. CASE queue' = Append(queue, d)
            <4>1. /\ Len(queue) \in Nat /\ DOMAIN queue = 1..Len(queue)
                  /\ DOMAIN queue' = (1..Len(queue)) \cup {Len(queue) + 1}
                  /\ queue'[Len(queue) + 1] = d
                  /\ \A k \in 1..Len(queue) : queue'[k] = queue[k]
                BY <1>1, <1>2, <3>2, AppendProperties DEF UdpTypes
            <4>2. d.from # e
                BY <1>5
            <4> HIDE DEF d
            <4> QED
                BY <4>1, <4>2 DEF From
        <3> QED
            BY <1>3, <3>1, <3>2
    <2> QED
        BY <2>1, <2>2, <2>3 DEF OnePlace, OfLastLine
<1>6. OnePlace(c)' /\ OfLastLine(c)'
    <2>1. /\ cpc'[c] = s /\ last'[c] = f /\ reply'[c] = <<>> /\ heard'[c] = heard[c] /\ ~Served(c)'
        BY <1>1, <1>3 DEF UdpTypes, Served
    <2>2. /\ \A k, l \in From(c)' : k = l
          /\ \A k \in From(c)' : queue'[k].frame = f
          /\ queue' = queue => From(c)' = {}
        <3>1. CASE queue' = queue
            BY <1>1, <3>1 DEF From
        <3>2. CASE queue' = Append(queue, d)
            <4>1. /\ Len(queue) \in Nat /\ DOMAIN queue = 1..Len(queue)
                  /\ DOMAIN queue' = (1..Len(queue)) \cup {Len(queue) + 1}
                  /\ queue'[Len(queue) + 1] = d
                  /\ \A k \in 1..Len(queue) : queue'[k] = queue[k]
                BY <1>1, <1>2, <3>2, AppendProperties DEF UdpTypes
            <4>2. \A k \in From(c)' : k = Len(queue) + 1
                BY <1>1, <4>1 DEF From
            <4>3. queue' # queue
                <5>1. Len(queue) + 1 \notin 1..Len(queue)
                    BY <4>1
                <5> QED
                    BY <4>1, <5>1
            <4> QED
                BY <4>1, <4>2, <4>3
        <3> QED
            BY <1>3, <3>1, <3>2
    <2>3. refused'[c] => spc' = "stopped" /\ From(c)' = {}
        BY <1>1, <1>3, <2>2 DEF OnePlace, UdpTypes
    <2>4. \A k \in DOMAIN heard[c] : Fits(heard[c][k].to, heard[c][k].answer)
        BY DEF UdpInv, OfLastLine
    <2> QED
        BY <2>1, <2>2, <2>3, <2>4 DEF OnePlace, OfLastLine
<1> QED
    BY <1>4, <1>5, <1>6 DEF UdpInv

LEMMA PrintAnswerKeeps ==
    ASSUME UdpInv, NEW c \in Clients, PrintAnswer(c)
    PROVE  UdpInv'
<1> DEFINE new == [to |-> last[c], answer |-> Head(reply[c])]
<1>0. UdpTypes /\ OnePlace(c) /\ OfLastLine(c)
    BY DEF UdpInv
<1>1. /\ reply[c] # << >> /\ From(c) = {} /\ ~Served(c) /\ ~refused[c]
      /\ reply[c] \in Seq(Answers) /\ Len(reply[c]) <= 1
    BY <1>0 DEF PrintAnswer, OnePlace, UdpTypes
<1>2. reply[c][1] \in Answers /\ Head(reply[c]) = reply[c][1] /\ Tail(reply[c]) = << >>
    <2>1. Len(reply[c]) = 1
        <3>1. \A s \in Seq(Answers) : s # << >> => Len(s) \in Nat \ {0}
            BY EmptySeq
        <3> DEFINE n == Len(reply[c])
        <3>2. n \in Nat \ {0} /\ n <= 1
            BY <1>1, <3>1
        <3> HIDE DEF n
        <3>3. n = 1
            BY <3>2
        <3> QED
            BY <3>3 DEF n
    <2>4. Tail(reply[c]) \in Seq(Answers) /\ Len(Tail(reply[c])) = 0
        BY <1>1, <2>1, HeadTailProperties
    <2>2. Tail(reply[c]) = << >>
        BY <2>4, EmptySeq
    <2> QED
        BY <1>1, <2>1, <2>2, ElementOfSeq, HeadTailProperties
<1>3. /\ heard' = [heard EXCEPT ![c] = Append(heard[c], new)]
      /\ reply' = [reply EXCEPT ![c] = << >>]
      /\ cpc' = [cpc EXCEPT ![c] = "fgets"]
      /\ UNCHANGED <<last, queue, refused, spc, peer, mess>>
    BY <1>2 DEF PrintAnswer
<1>4. /\ new \in [to : Frames, answer : Answers]
      /\ Fits(new.to, new.answer)
    BY <1>0, <1>1, <1>2 DEF UdpTypes, OfLastLine
<1>5. /\ Append(heard[c], new) \in Seq([to : Frames, answer : Answers])
      /\ DOMAIN Append(heard[c], new) = DOMAIN heard[c] \cup {Len(heard[c]) + 1}
      /\ \A k \in DOMAIN heard[c] : Append(heard[c], new)[k] = heard[c][k]
      /\ Append(heard[c], new)[Len(heard[c]) + 1] = new
    <2>1. heard[c] \in Seq([to : Frames, answer : Answers])
        BY <1>0 DEF UdpTypes
    <2> HIDE DEF new
    <2> QED
        BY <1>4, <2>1, AppendProperties, LenProperties
<1> HIDE DEF new
<1>6. UdpTypes'
    BY <1>0, <1>3, <1>5, EmptySeq DEF UdpTypes
<1>7. ASSUME NEW e \in Clients, e # c PROVE OnePlace(e)' /\ OfLastLine(e)'
    <2>1. OnePlace(e) /\ OfLastLine(e)
        BY DEF UdpInv
    <2>2. /\ cpc'[e] = cpc[e] /\ reply'[e] = reply[e] /\ heard'[e] = heard[e]
          /\ Served(e)' = Served(e) /\ From(e)' = From(e)
          /\ last' = last /\ queue' = queue /\ refused' = refused /\ spc' = spc /\ mess' = mess
        BY <1>0, <1>3, <1>7 DEF UdpTypes, Served, From
    <2> QED
        BY <2>1, <2>2 DEF OnePlace, OfLastLine
<1>8. OnePlace(c)' /\ OfLastLine(c)'
    <2>1. /\ reply'[c] = << >> /\ heard'[c] = Append(heard[c], new) /\ cpc'[c] = "fgets"
          /\ ~Served(c)' /\ From(c)' = {} /\ ~refused'[c]
        BY <1>0, <1>1, <1>3 DEF UdpTypes, Served, From
    <2>2. \A k \in DOMAIN heard'[c] : Fits(heard'[c][k].to, heard'[c][k].answer)
        BY <1>0, <1>4, <1>5, <2>1 DEF OfLastLine
    <2>3. OnePlace(c)'
        BY <2>1, EmptySeq DEF OnePlace
    <2> QED
        BY <2>1, <2>2, <2>3 DEF OfLastLine
<1> QED
    BY <1>6, <1>7, <1>8 DEF UdpInv

LEMMA RefusedKeeps ==
    ASSUME UdpInv, NEW c \in Clients, Refused(c)
    PROVE  UdpInv'
<1>0. UdpTypes /\ OnePlace(c) /\ refused[c]
    BY DEF UdpInv, Refused
<1>1. /\ cpc' = [cpc EXCEPT ![c] = "failed"] /\ refused' = [refused EXCEPT ![c] = FALSE]
      /\ UNCHANGED <<last, heard, queue, reply, spc, peer, mess>>
    BY DEF Refused
<1>2. UdpTypes'
    BY <1>0, <1>1 DEF UdpTypes
<1>3. ASSUME NEW e \in Clients PROVE OnePlace(e)' /\ OfLastLine(e)'
    <2>1. OnePlace(e) /\ OfLastLine(e)
        BY DEF UdpInv
    <2>2. Served(e)' = Served(e) /\ From(e)' = From(e)
        BY <1>1 DEF Served, From
    <2>3. OfLastLine(e)'
        BY <1>1, <2>1, <2>2 DEF OfLastLine
    <2>4. CASE e = c
        <3>1. From(c) = {} /\ ~Served(c) /\ reply[c] = << >> /\ ~refused'[c]
            BY <1>0, <1>1 DEF OnePlace, Served, UdpTypes
        <3>2. OnePlace(c)'
            BY <1>1, <2>2, <2>4, <3>1, EmptySeq DEF OnePlace
        <3> QED
            BY <2>3, <2>4, <3>2
    <2>5. CASE e # c
        <3>1. cpc'[e] = cpc[e] /\ refused'[e] = refused[e]
            BY <1>0, <1>1, <2>5 DEF UdpTypes
        <3> QED
            BY <1>1, <2>1, <2>2, <2>3, <3>1 DEF OnePlace
    <2> QED
        BY <2>4, <2>5
<1> QED
    BY <1>2, <1>3 DEF UdpInv

(* The datagram at the head of the queue is the only one of its sender; the   *)
(* others move up by one place.                                                *)
LEMMA Dequeued ==
    ASSUME UdpInv, queue # << >>, queue' = Tail(queue),
           NEW h \in Clients, Head(queue).from = h
    PROVE  /\ Head(queue) \in Datagrams /\ Head(queue).frame = last[h]
           /\ cpc[h] \in {"recv", "done"} /\ reply[h] = << >> /\ ~refused[h]
           /\ From(h)' = {}
           /\ queue' \in Seq(Datagrams)
           /\ \A e \in Clients : \A k \in From(e)' :
                 k \in Nat /\ k + 1 \in From(e) /\ queue'[k] = queue[k + 1]
<1>1. queue \in Seq(Datagrams) /\ cpc[h] \in {"fgets", "recv", "done", "failed"}
    BY DEF UdpInv, UdpTypes
<1>2. /\ Len(queue) \in Nat \ {0} /\ DOMAIN queue = 1..Len(queue)
      /\ queue' \in Seq(Datagrams) /\ DOMAIN queue' = 1..(Len(queue) - 1)
      /\ \A k \in 1..(Len(queue) - 1) : queue'[k] = queue[k + 1]
      /\ Head(queue) = queue[1]
    BY <1>1, EmptySeq, LenProperties, HeadTailProperties
<1>3. Head(queue) \in Datagrams
    BY <1>1, <1>2, ElementOfSeq
<1>4. \A e \in Clients : \A k \in From(e)' :
         k \in Nat \ {0} /\ k + 1 \in From(e) /\ queue'[k] = queue[k + 1]
    BY <1>2 DEF From
<1>5. 1 \in From(h)
    BY <1>2 DEF From
<1>6. From(h)' = {}
    <2>1. \A k, l \in From(h) : k = l
        BY DEF UdpInv, OnePlace
    <2>2. \A k \in From(h)' : k + 1 = 1 /\ k \in Nat \ {0}
        BY <1>4, <1>5, <2>1
    <2> QED
        BY <2>2
<1>7. /\ Head(queue).frame = last[h]
      /\ cpc[h] \in {"recv", "done"} /\ reply[h] = << >> /\ ~refused[h]
    <2>1. OnePlace(h) /\ OfLastLine(h) /\ From(h) # {}
        BY <1>5 DEF UdpInv
    <2> QED
        BY <1>1, <1>2, <1>5, <2>1 DEF OnePlace, OfLastLine
<1> QED
    BY <1>2, <1>3, <1>4, <1>6, <1>7

LEMMA RecvfromKeeps == UdpInv /\ Recvfrom => UdpInv'
<1> SUFFICES ASSUME UdpInv, Recvfrom PROVE UdpInv'
    OBVIOUS
<1>0. UdpTypes /\ queue # << >> /\ queue' = Tail(queue) /\ spc = "recvfrom"
    BY DEF UdpInv, Recvfrom
<1> DEFINE h == Head(queue).from
           f == Head(queue).frame
<1>1. Head(queue) \in Datagrams
    BY <1>0, EmptySeq, HeadTailProperties DEF UdpTypes
<1>2. /\ h \in Clients /\ f \in Frames
      /\ peer' = h /\ f # "empty" /\ spc' = "sendto"
      /\ UNCHANGED <<cpc, last, heard, reply, refused>>
    BY <1>1 DEF Datagrams, Recvfrom, client
<1>3. mess' \in Answers /\ Fits(f, mess')
    <2>0. flag' = CheckDigits(f)
        BY DEF Recvfrom
    <2>1. /\ flag' = 0 => \E r \in is_palindrome(f) :
                             mess' = IF r # 0 THEN "palindrome" ELSE "not palindrome"
          /\ flag' # 0 => mess' = "not digits"
        BY DEF Recvfrom
    <2> HIDE DEF f
    <2>2. f \in {"mirror", "plain", "zeros", "text", "chunk"}
        BY <1>2 DEF Frames
    <2>3. CASE f \in {"text", "chunk"}
        <3>0. flag' # 0
            BY <2>0, <2>3 DEF CheckDigits
        <3>1. mess' = "not digits"
            BY <2>1, <3>0
        <3> QED
            BY <2>3, <3>1 DEF Fits, Answers
    <2>4. CASE f \notin {"text", "chunk"}
        <3>1. PICK r \in is_palindrome(f) :
                  mess' = IF r # 0 THEN "palindrome" ELSE "not palindrome"
            BY <2>0, <2>1, <2>4 DEF CheckDigits
        <3>2. CASE f = "mirror"
            BY <3>1, <3>2 DEF is_palindrome, Fits, Answers
        <3>3. CASE f = "plain"
            BY <3>1, <3>3 DEF is_palindrome, Fits, Answers
        <3>4. CASE f = "zeros"
            BY <3>1, <3>4 DEF Fits, Answers
        <3> QED
            BY <2>2, <2>4, <3>2, <3>3, <3>4
    <2> QED
        BY <2>3, <2>4
<1> HIDE DEF h, f
<1>4. PICK c \in Clients : c = h
    BY <1>2
<1>5. /\ f = last[c] /\ cpc[c] \in {"recv", "done"} /\ reply[c] = << >> /\ ~refused[c]
      /\ From(c)' = {} /\ queue' \in Seq(Datagrams)
      /\ \A e \in Clients : \A k \in From(e)' :
            k \in Nat /\ k + 1 \in From(e) /\ queue'[k] = queue[k + 1]
    BY <1>0, <1>4, Dequeued DEF h, f
<1>6. UdpTypes'
    BY <1>0, <1>2, <1>3, <1>5 DEF UdpTypes
<1>7. ASSUME NEW e \in Clients, e # c PROVE OnePlace(e)' /\ OfLastLine(e)'
    <2>1. OnePlace(e) /\ OfLastLine(e)
        BY DEF UdpInv
    <2>2. ~Served(e)'
        BY <1>2, <1>4, <1>7 DEF Served
    <2>3. /\ \A k \in From(e)' : k \in Nat /\ k + 1 \in From(e) /\ queue'[k] = queue[k + 1]
          /\ From(e)' # {} => From(e) # {}
        BY <1>5
    <2>4. \A k, l \in From(e)' : k = l
        <3> SUFFICES ASSUME NEW k \in From(e)', NEW l \in From(e)' PROVE k = l
            OBVIOUS
        <3>1. k + 1 = l + 1 /\ k \in Nat /\ l \in Nat
            BY <2>1, <2>3 DEF OnePlace
        <3> QED
            BY <3>1
    <2>5. ~refused[e]
        BY <1>0, <2>1 DEF OnePlace
    <2>6. OnePlace(e)'
        BY <1>2, <2>1, <2>2, <2>3, <2>4, <2>5 DEF OnePlace
    <2>7. OfLastLine(e)'
        BY <1>2, <2>1, <2>2, <2>3 DEF OfLastLine
    <2> QED
        BY <2>6, <2>7
<1>8. OnePlace(c)' /\ OfLastLine(c)'
    <2>1. OfLastLine(c)
        BY DEF UdpInv
    <2> QED
        BY <1>2, <1>3, <1>5, <2>1, EmptySeq DEF OnePlace, OfLastLine
<1> QED
    BY <1>6, <1>7, <1>8 DEF UdpInv

LEMMA StopKeeps == UdpInv /\ Stop => UdpInv'
<1> SUFFICES ASSUME UdpInv, Stop PROVE UdpInv'
    OBVIOUS
<1>0. /\ UdpTypes /\ queue # << >> /\ queue' = << >> /\ spc = "recvfrom" /\ spc' = "stopped"
      /\ peer' = Head(queue).from /\ UNCHANGED <<cpc, last, heard, reply, refused, mess>>
    BY DEF UdpInv, Stop, client
<1>1. Head(queue) \in Datagrams
    BY <1>0, EmptySeq, HeadTailProperties DEF UdpTypes
<1>2. UdpTypes'
    BY <1>0, <1>1, EmptySeq DEF UdpTypes, Datagrams
<1>3. ASSUME NEW e \in Clients PROVE OnePlace(e)' /\ OfLastLine(e)'
    <2>1. OnePlace(e) /\ OfLastLine(e)
        BY DEF UdpInv
    <2>2. From(e)' = {} /\ ~Served(e)' /\ ~Served(e) /\ ~refused[e]
        <3>1. DOMAIN << >> = {}
            OBVIOUS
        <3> QED
            BY <1>0, <2>1, <3>1 DEF From, Served, OnePlace
    <2> QED
        BY <1>0, <2>1, <2>2 DEF OnePlace, OfLastLine
<1> QED
    BY <1>2, <1>3 DEF UdpInv

LEMMA SendtoKeeps == UdpInv /\ Sendto => UdpInv'
<1> SUFFICES ASSUME UdpInv, Sendto PROVE UdpInv'
    OBVIOUS
<1>0. /\ UdpTypes /\ spc = "sendto" /\ spc' = "recvfrom" /\ peer \in Clients
      /\ reply' = [reply EXCEPT ![peer] = Append(reply[peer], mess)]
      /\ UNCHANGED <<cpc, last, heard, queue, refused, peer, mess>>
    BY DEF UdpInv, UdpTypes, Sendto, client
<1>1. PICK c \in Clients : c = peer
    BY <1>0
<1>2. OnePlace(c) /\ OfLastLine(c) /\ Served(c)
    BY <1>0, <1>1 DEF UdpInv, Served
<1>3. /\ From(c) = {} /\ reply[c] = << >> /\ ~refused[c] /\ cpc[c] \notin {"fgets", "failed"}
      /\ Fits(last[c], mess) /\ mess \in Answers
    BY <1>0, <1>2 DEF OnePlace, OfLastLine, UdpTypes
<1>4. /\ Append(<< >>, mess) \in Seq(Answers)
      /\ Len(Append(<< >>, mess)) = 1 /\ Append(<< >>, mess)[1] = mess
      /\ reply' = [reply EXCEPT ![c] = Append(<< >>, mess)]
    BY <1>0, <1>1, <1>3, EmptySeq, AppendProperties
<1> DEFINE a == Append(<< >>, mess)
<1> HIDE DEF a
<1>5. UdpTypes'
    BY <1>0, <1>4 DEF UdpTypes
<1>6. ASSUME NEW e \in Clients, e # c PROVE OnePlace(e)' /\ OfLastLine(e)'
    <2>1. OnePlace(e) /\ OfLastLine(e)
        BY DEF UdpInv
    <2>2. ~Served(e)' /\ From(e)' = From(e) /\ reply'[e] = reply[e]
        BY <1>0, <1>1, <1>4, <1>6 DEF Served, From, UdpTypes
    <2>3. ~refused[e]
        BY <1>0, <2>1 DEF OnePlace
    <2> QED
        BY <1>0, <2>1, <2>2, <2>3 DEF OnePlace, OfLastLine
<1>7. OnePlace(c)' /\ OfLastLine(c)'
    <2>1. ~Served(c)' /\ From(c)' = {} /\ reply'[c] = Append(<< >>, mess)
        BY <1>0, <1>3, <1>4 DEF Served, From, UdpTypes
    <2>2. Len(reply'[c]) = 1 /\ reply'[c][1] = mess
        BY <1>4, <2>1
    <2>3. OnePlace(c)'
        BY <1>0, <1>3, <2>1, <2>2 DEF OnePlace
    <2>4. OfLastLine(c)'
        BY <1>0, <1>2, <1>3, <2>1, <2>2 DEF OfLastLine
    <2> QED
        BY <2>3, <2>4
<1> QED
    BY <1>5, <1>6, <1>7 DEF UdpInv

LEMMA UdpNext == UdpInv /\ [ServiceNext]_serviceVars => UdpInv'
<1> SUFFICES ASSUME UdpInv, [ServiceNext]_serviceVars PROVE UdpInv'
    OBVIOUS
<1>1. CASE UNCHANGED serviceVars
    <2>1. UNCHANGED <<cpc, last, heard, queue, reply, refused, spc, peer, mess>>
        BY <1>1 DEF serviceVars
    <2>2. UdpTypes'
        BY <2>1 DEF UdpInv, UdpTypes
    <2>3. ASSUME NEW c \in Clients PROVE OnePlace(c)' /\ OfLastLine(c)'
        <3>1. From(c)' = From(c) /\ Served(c)' = Served(c) /\ OnePlace(c) /\ OfLastLine(c)
            BY <2>1 DEF From, Served, UdpInv
        <3> QED
            BY <2>1, <3>1 DEF OnePlace, OfLastLine
    <2> QED
        BY <2>2, <2>3 DEF UdpInv
<1>2. CASE Server
    BY <1>2, RecvfromKeeps, StopKeeps, SendtoKeeps DEF Server
<1>3. ASSUME NEW c \in Clients, Client(c) PROVE UdpInv'
    <2>1. CASE ReadLine(c)
        <3>1. PICK line \in Lines :
                /\ cpc[c] = "fgets"
                /\ IF line = "enter" THEN SendEmpty(c) ELSE Ask(c, FrameOf(line))
                /\ UNCHANGED <<heard, reply, spc, peer, mess>>
            BY <2>1 DEF ReadLine
        <3>2. CASE line = "enter"
            BY <3>1, <3>2, SendKeeps DEF SendEmpty, Frames
        <3>3. CASE line # "enter"
            <4>1. FrameOf(line) \in Frames
                BY <3>3 DEF Lines, FrameOf, Frames
            <4> QED
                BY <3>1, <3>3, <4>1, SendKeeps DEF Ask
        <3> QED
            BY <3>2, <3>3
    <2> QED
        BY <1>3, <2>1, PrintAnswerKeeps, RefusedKeeps DEF Client
<1> QED
    BY <1>1, <1>2, <1>3 DEF ServiceNext

LEMMA UdpInvariance == ServiceSpec => []UdpInv
BY UdpInit, UdpNext, PTL DEF ServiceSpec

(* A client that reads its next line has nothing under way and one that waits *)
(* at most one datagram, whoever else asks and however short the server's     *)
(* queue is (client3.c 69-82, server3.c 74-130).                               *)
THEOREM OneQuestionAtATime == ServiceSpec => []LockStep
<1>1. UdpInv => LockStep
    <2> SUFFICES ASSUME UdpInv, NEW c \in Clients
                 PROVE  UnderWay(c) <= (IF cpc[c] \in {"recv", "done"} THEN 1 ELSE 0)
        BY DEF LockStep
    <2>1. UdpTypes /\ OnePlace(c)
        BY DEF UdpInv
    <2>2. UnderWay(c) = Cardinality(From(c)) + Len(reply[c]) + (IF Served(c) THEN 1 ELSE 0)
        BY DEF UnderWay, From, Served, Cardinality, Cardinality
    <2>3. /\ From(c) = {} => Cardinality(From(c)) = 0
          /\ From(c) # {} => Cardinality(From(c)) = 1
        <3>1. ASSUME From(c) # {} PROVE \E k : From(c) = {k}
            BY <2>1, <3>1 DEF OnePlace
        <3> QED
            BY <3>1, FS_EmptySet, FS_Singleton
    <2>4. Len(reply[c]) \in {0, 1} /\ (reply[c] = << >> => Len(reply[c]) = 0)
        <3> DEFINE n == Len(reply[c])
        <3>1. n \in Nat
            BY <2>1, LenProperties DEF UdpTypes
        <3>2. n <= 1
            BY <2>1 DEF OnePlace
        <3>3. reply[c] = << >> => n = 0
            BY EmptySeq
        <3> HIDE DEF n
        <3>4. n \in {0, 1} /\ (reply[c] = << >> => n = 0)
            BY <3>1, <3>2, <3>3
        <3> QED
            BY <3>4 DEF n
    <2>5. cpc[c] \in {"fgets", "recv", "done", "failed"}
        BY <2>1 DEF UdpTypes
    <2> QED
        BY <2>1, <2>2, <2>3, <2>4, <2>5 DEF OnePlace
<1> QED
    BY <1>1, UdpInvariance, PTL

(* What a client prints is the answer to the line it sent last: no flag, no   *)
(* message and no address of one datagram is used for another                 *)
(* (server3.c 67-68, 98-130).                                                  *)
THEOREM RightAnswer == ServiceSpec => []AnswersFit
<1>1. UdpInv => AnswersFit
    BY DEF UdpInv, OfLastLine, AnswersFit
<1> QED
    BY <1>1, UdpInvariance, PTL

-------------------------------------------------------------------------------
(***************************************************************************)
(* The wait of a client whose line is queued: every step of the server     *)
(* brings it one step nearer to its answer, and nobody else can put it     *)
(* back.  That the server takes steps is the fairness of ServiceSpec.      *)
(***************************************************************************)
Pending(c) == From(c) # {} \/ Served(c)

Place(c) == CHOOSE k \in From(c) : TRUE

(* The steps of the server up to the sendto() for c. *)
StepsToAnswer(c) ==
    IF Served(c) THEN 1 ELSE 2 * Place(c) + (IF spc = "sendto" THEN 1 ELSE 0)

(* The server finds something to do as long as a line is queued. *)
QueueInv ==
    /\ Len(queue) <= RcvBuf
    /\ spc \in {"recvfrom", "sendto", "stopped"}
    /\ spc = "stopped" => queue = << >>

LEMMA QueueLength == ASSUME UdpTypes PROVE Len(queue) \in Nat /\ DOMAIN queue = 1..Len(queue)
BY LenProperties DEF UdpTypes

LEMMA QueueInvInit == ServiceInit => QueueInv
<1> SUFFICES ASSUME ServiceInit PROVE QueueInv
    OBVIOUS
<1> DEFINE n == Len(queue)
<1>1. n = 0 /\ RcvBuf \in Nat
    BY EmptySeq, UdpAssumption DEF ServiceInit
<1> HIDE DEF n
<1>2. n <= RcvBuf
    BY <1>1
<1> QED
    BY <1>2 DEF ServiceInit, QueueInv, n

LEMMA QueueInvSend ==
    ASSUME UdpTypes, QueueInv, NEW c \in Clients, NEW f \in Frames, Send(c, f), UNCHANGED spc
    PROVE  QueueInv'
<1> DEFINE d == [from |-> c, frame |-> f]
<1>1. d \in Datagrams /\ queue \in Seq(Datagrams) /\ RcvBuf \in Nat
    BY UdpAssumption DEF Datagrams, UdpTypes
<1>2. \/ queue' = queue
      \/ spc # "stopped" /\ Len(queue) < RcvBuf /\ queue' = Append(queue, d)
    BY DEF Send
<1> HIDE DEF d
<1>3. CASE queue' = Append(queue, d) /\ spc # "stopped" /\ Len(queue) < RcvBuf
    <2>1. Len(queue') = Len(queue) + 1 /\ Len(queue) \in Nat
        BY <1>1, <1>3, AppendProperties, LenProperties
    <2>2. Len(queue') <= RcvBuf
        BY <1>1, <1>3, <2>1
    <2> QED
        BY <1>3, <2>2 DEF QueueInv
<1> QED
    BY <1>2, <1>3 DEF QueueInv

LEMMA QueueInvNext == UdpInv /\ QueueInv /\ [ServiceNext]_serviceVars => QueueInv'
<1> SUFFICES ASSUME UdpInv, QueueInv, [ServiceNext]_serviceVars PROVE QueueInv'
    OBVIOUS
<1>0. UdpTypes
    BY DEF UdpInv
<1>1. CASE UNCHANGED <<queue, spc>>
    BY <1>1 DEF QueueInv
<1>2. CASE Recvfrom
    <2>1. queue # << >> /\ queue' = Tail(queue) /\ spc' = "sendto"
        BY <1>2 DEF Recvfrom
    <2> DEFINE n == Len(queue)
               m == Len(queue')
    <2>2. n \in Nat /\ m = n - 1 /\ RcvBuf \in Nat /\ n <= RcvBuf
        BY <1>0, <2>1, HeadTailProperties, QueueLength, UdpAssumption DEF UdpTypes, QueueInv
    <2> HIDE DEF n, m
    <2>3. m <= RcvBuf
        BY <2>2
    <2> QED
        BY <2>1, <2>3 DEF QueueInv, m
<1>3. CASE Stop
    BY <1>3, UdpAssumption, EmptySeq DEF Stop, QueueInv
<1>4. CASE Sendto
    BY <1>4 DEF Sendto, QueueInv, client
<1>5. ASSUME NEW c \in Clients, Client(c) PROVE QueueInv'
    <2>1. CASE PrintAnswer(c) \/ Refused(c)
        BY <1>1, <2>1 DEF PrintAnswer, Refused
    <2>2. CASE ReadLine(c)
        <3>1. PICK line \in Lines :
                /\ IF line = "enter" THEN SendEmpty(c) ELSE Ask(c, FrameOf(line))
                /\ UNCHANGED spc
            BY <2>2 DEF ReadLine
        <3>2. CASE line = "enter"
            BY <1>0, <3>1, <3>2, QueueInvSend DEF SendEmpty, Frames
        <3>3. CASE line # "enter"
            <4>1. FrameOf(line) \in Frames
                BY <3>3 DEF Lines, FrameOf, Frames
            <4> QED
                BY <1>0, <3>1, <3>3, <4>1, QueueInvSend DEF Ask
        <3> QED
            BY <3>2, <3>3
    <2> QED
        BY <1>5, <2>1, <2>2 DEF Client
<1> QED
    BY <1>1, <1>2, <1>3, <1>4, <1>5 DEF ServiceNext, Server, serviceVars

LEMMA QueueInvariance == ServiceSpec => [](UdpInv /\ QueueInv)
BY UdpInit, UdpNext, QueueInvInit, QueueInvNext, PTL DEF ServiceSpec

(* The one datagram of c in the queue, and where it is. *)
LEMMA PlaceIs ==
    ASSUME UdpInv, NEW c \in Clients, From(c) # {}
    PROVE  /\ Place(c) \in From(c) /\ Place(c) \in 1..Len(queue)
           /\ \A k \in From(c) : k = Place(c)
           /\ ~Served(c) /\ reply[c] = << >> /\ cpc[c] \in {"recv", "done"}
<1>1. OnePlace(c) /\ UdpTypes
    BY DEF UdpInv
<1>2. Place(c) \in From(c)
    BY DEF Place
<1>3. Place(c) \in 1..Len(queue)
    BY <1>1, <1>2, QueueLength DEF From
<1> QED
    BY <1>1, <1>2, <1>3 DEF OnePlace, UdpTypes

(* How the wait of c goes on in one step.  *)
Advances(c) ==
    /\ Server => \/ Pending(c)' /\ StepsToAnswer(c)' = StepsToAnswer(c) - 1
                 \/ ~Pending(c)' /\ reply'[c] # << >>
                 \/ spc' = "stopped"
    /\ ~Server => Pending(c)' /\ StepsToAnswer(c)' = StepsToAnswer(c)

LEMMA RecvfromAdvances ==
    ASSUME UdpInv, NEW c \in Clients, Pending(c), Recvfrom
    PROVE  Pending(c)' /\ StepsToAnswer(c)' = StepsToAnswer(c) - 1
<1>1. UdpTypes /\ spc = "recvfrom" /\ queue # << >> /\ queue' = Tail(queue)
      /\ peer' = Head(queue).from /\ spc' = "sendto"
    BY DEF UdpInv, Recvfrom
<1>2. ~Served(c) /\ From(c) # {}
    BY <1>1 DEF Served, Pending
<1> DEFINE k == Place(c)
<1>3. k \in 1..Len(queue) /\ queue[k].from = c /\ \A l \in From(c) : l = k
    BY <1>2, PlaceIs DEF From
<1>4. /\ Len(queue) \in Nat \ {0} /\ DOMAIN queue' = 1..(Len(queue) - 1)
      /\ \A l \in 1..(Len(queue) - 1) : queue'[l] = queue[l + 1]
      /\ Head(queue) = queue[1] /\ DOMAIN queue = 1..Len(queue)
    BY <1>1, EmptySeq, LenProperties, HeadTailProperties DEF UdpTypes
<1>5. StepsToAnswer(c) = 2 * k
    BY <1>1, <1>2, <1>3 DEF StepsToAnswer
<1> HIDE DEF k
<1>6. CASE k = 1
    <2>1. Served(c)'
        BY <1>1, <1>3, <1>4, <1>6 DEF Served
    <2> QED
        BY <1>5, <1>6, <2>1 DEF StepsToAnswer, Pending
<1>7. CASE k # 1
    <2>1. k - 1 \in 1..(Len(queue) - 1) /\ (k - 1) + 1 = k
        BY <1>3, <1>4, <1>7
    <2>2. k - 1 \in From(c)'
        BY <1>3, <1>4, <2>1 DEF From
    <2>3. \A l \in From(c)' : l = k - 1
        <3> SUFFICES ASSUME NEW l \in From(c)' PROVE l = k - 1
            OBVIOUS
        <3>1. l \in 1..(Len(queue) - 1) /\ queue[l + 1].from = c
            BY <1>4 DEF From
        <3>2. l + 1 \in From(c)
            BY <1>4, <3>1 DEF From
        <3>3. l + 1 = k
            BY <1>3, <3>2
        <3> QED
            BY <1>3, <3>1, <3>3
    <2>4. Place(c)' = k - 1
        BY <2>2, <2>3 DEF Place
    <2>5. ~Served(c)'
        <3>1. 1 \notin From(c)
            BY <1>3, <1>7
        <3> QED
            BY <1>1, <1>4, <3>1 DEF Served, From
    <2> QED
        BY <1>1, <1>3, <1>5, <2>2, <2>4, <2>5 DEF StepsToAnswer, Pending
<1> QED
    BY <1>6, <1>7

LEMMA SendtoAdvances ==
    ASSUME UdpInv, NEW c \in Clients, Pending(c), Sendto
    PROVE  \/ Pending(c)' /\ StepsToAnswer(c)' = StepsToAnswer(c) - 1
           \/ ~Pending(c)' /\ reply'[c] # << >>
<1>1. /\ UdpTypes /\ spc = "sendto" /\ spc' = "recvfrom" /\ queue' = queue
      /\ reply' = [reply EXCEPT ![peer] = Append(reply[peer], mess)]
      /\ ~Served(c)'
    BY DEF UdpInv, Sendto, Served, client
<1>2. CASE Served(c)
    <2>1. From(c)' = {} /\ reply[c] = << >> /\ peer = c
        BY <1>1, <1>2 DEF UdpInv, OnePlace, From, Served
    <2>2. reply'[c] = Append(<< >>, mess) /\ mess \in Answers
        BY <1>1, <2>1 DEF UdpTypes
    <2>3. Append(<< >>, mess) # << >>
        BY <2>2, EmptySeq, AppendProperties
    <2> QED
        BY <1>1, <2>1, <2>2, <2>3 DEF Pending
<1>3. CASE ~Served(c)
    <2>1. From(c) # {} /\ From(c)' = From(c) /\ Place(c)' = Place(c)
        BY <1>1, <1>3 DEF Pending, From, Place
    <2> DEFINE k == Place(c)
    <2>2. k \in Nat
        BY <2>1, PlaceIs, QueueLength DEF UdpInv
    <2>3. StepsToAnswer(c) = 2 * k + 1 /\ StepsToAnswer(c)' = 2 * k + 0
        BY <1>1, <1>3, <2>1 DEF StepsToAnswer
    <2> HIDE DEF k
    <2>4. StepsToAnswer(c)' = StepsToAnswer(c) - 1
        BY <2>2, <2>3
    <2> QED
        BY <2>1, <2>4 DEF Pending
<1> QED
    BY <1>2, <1>3

(* A datagram of another client goes behind those that are queued. *)
LEMMA SendKeepsPlace ==
    ASSUME UdpInv, NEW c \in Clients, Pending(c), NEW d \in Clients, d # c, NEW f \in Frames,
           Send(d, f), UNCHANGED <<spc, peer>>
    PROVE  Pending(c)' /\ StepsToAnswer(c)' = StepsToAnswer(c)
<1> DEFINE g == [from |-> d, frame |-> f]
<1>1. UdpTypes /\ g \in Datagrams /\ queue \in Seq(Datagrams) /\ g.from = d
    BY DEF UdpInv, UdpTypes, Datagrams
<1>2. queue' = queue \/ queue' = Append(queue, g)
    BY DEF Send
<1> HIDE DEF g
<1>3. Served(c)' = Served(c)
    BY DEF Served
<1>4. From(c)' = From(c)
    <2>1. CASE queue' = Append(queue, g)
        <3>1. /\ Len(queue) \in Nat /\ DOMAIN queue = 1..Len(queue)
              /\ DOMAIN queue' = (1..Len(queue)) \cup {Len(queue) + 1}
              /\ queue'[Len(queue) + 1] = g
              /\ \A k \in 1..Len(queue) : queue'[k] = queue[k]
            BY <1>1, <2>1, AppendProperties, QueueLength
        <3> QED
            BY <1>1, <3>1 DEF From
    <2> QED
        BY <1>2, <2>1 DEF From
<1> QED
    BY <1>3, <1>4 DEF Pending, StepsToAnswer, Place

LEMMA ClientKeepsPlace ==
    ASSUME UdpInv, NEW c \in Clients, Pending(c), NEW d \in Clients, Client(d)
    PROVE  Pending(c)' /\ StepsToAnswer(c)' = StepsToAnswer(c)
<1>1. UNCHANGED <<spc, peer>>
    BY DEF Client, ReadLine, PrintAnswer, Refused
<1>2. CASE PrintAnswer(d) \/ Refused(d)
    <2>1. queue' = queue
        BY <1>2 DEF PrintAnswer, Refused
    <2>2. From(c)' = From(c) /\ Served(c)' = Served(c) /\ Place(c)' = Place(c)
        BY <1>1, <2>1 DEF From, Served, Place
    <2> QED
        BY <1>1, <2>2 DEF Pending, StepsToAnswer
<1>3. CASE ReadLine(d)
    <2>1. cpc[d] = "fgets"
        BY <1>3 DEF ReadLine
    <2>2. d # c
        BY <2>1 DEF Pending, UdpInv, OnePlace
    <2>3. \E f \in Frames : Send(d, f)
        <3>1. PICK line \in Lines :
                IF line = "enter" THEN SendEmpty(d) ELSE Ask(d, FrameOf(line))
            BY <1>3 DEF ReadLine
        <3>2. line # "enter" => FrameOf(line) \in Frames
            BY DEF Lines, FrameOf, Frames
        <3> QED
            BY <3>1, <3>2 DEF SendEmpty, Ask, Frames
    <2> QED
        BY <1>1, <2>2, <2>3, SendKeepsPlace
<1> QED
    BY <1>2, <1>3 DEF Client

(* A line that is queued is on its way to its answer: each step of the server *)
(* takes one from the steps that are left, until the answer lies in the       *)
(* client's socket or an empty frame stops the server, and no step of anybody *)
(* else adds to them.  This is what QueuedIsAnswered needs beside fairness    *)
(* (server3.c 71-131).                                                         *)
THEOREM QueuedLinesAdvance ==
    ServiceSpec => [][\A c \in Clients : Pending(c) => Advances(c)]_serviceVars
<1>1. ASSUME UdpInv, [ServiceNext]_serviceVars, NEW c \in Clients, Pending(c)
      PROVE  Advances(c)
    <2>1. CASE UNCHANGED serviceVars
        <3>1. UNCHANGED <<queue, spc, peer, reply>>
            BY <2>1 DEF serviceVars
        <3>2. From(c)' = From(c) /\ Served(c)' = Served(c) /\ Place(c)' = Place(c)
            BY <3>1 DEF From, Served, Place
        <3>3. Pending(c)' /\ StepsToAnswer(c)' = StepsToAnswer(c)
            BY <1>1, <3>1, <3>2 DEF Pending, StepsToAnswer
        <3>4. ~Server
            BY <1>1, <3>1 DEF Server, Recvfrom, Stop, Sendto
        <3> QED
            BY <3>3, <3>4 DEF Advances
    <2>2. CASE Server
        <3>1. CASE Recvfrom
            BY <1>1, <2>2, <3>1, RecvfromAdvances DEF Advances
        <3>2. CASE Sendto
            BY <1>1, <2>2, <3>2, SendtoAdvances DEF Advances
        <3>3. CASE Stop
            BY <2>2, <3>3 DEF Stop, Advances
        <3> QED
            BY <2>2, <3>1, <3>2, <3>3 DEF Server
    <2>3. CASE ~Server /\ \E d \in Clients : Client(d)
        BY <1>1, <2>3, ClientKeepsPlace DEF Advances
    <2> QED
        BY <1>1, <2>1, <2>2, <2>3 DEF ServiceNext
<1>2. ASSUME UdpInv, [ServiceNext]_serviceVars
      PROVE  [\A c \in Clients : Pending(c) => Advances(c)]_serviceVars
    BY <1>1, <1>2
<1> QED
    BY <1>2, UdpInvariance, PTL DEF ServiceSpec

(* The wait is short: 2 * RcvBuf + 1 steps at most, and while it lasts the    *)
(* server does not block, neither in recvfrom(), as the queue is not empty,   *)
(* nor in sendto() (server3.c 64-131).                                         *)
THEOREM WaitIsBounded ==
    ServiceSpec => [](\A c \in Clients : Pending(c) =>
                        /\ StepsToAnswer(c) \in 1 .. 2 * RcvBuf + 1
                        /\ spc = "sendto" \/ (spc = "recvfrom" /\ queue # << >>))
<1>1. ASSUME UdpInv, QueueInv, NEW c \in Clients, Pending(c)
      PROVE  /\ StepsToAnswer(c) \in 1 .. 2 * RcvBuf + 1
             /\ spc = "sendto" \/ (spc = "recvfrom" /\ queue # << >>)
    <2>0. RcvBuf \in Nat /\ UdpTypes
        BY <1>1, UdpAssumption DEF UdpInv
    <2>1. CASE Served(c)
        BY <2>0, <2>1 DEF StepsToAnswer, Served
    <2>2. CASE ~Served(c)
        <3>1. From(c) # {}
            BY <1>1, <2>2 DEF Pending
        <3> DEFINE k == Place(c)
                   n == Len(queue)
        <3>2. k \in 1..n /\ n \in Nat /\ n <= RcvBuf
            BY <1>1, <2>0, <3>1, PlaceIs, QueueLength DEF QueueInv
        <3>3. queue # << >>
            <4>1. queue = << >> => n = 0
                BY EmptySeq
            <4> HIDE DEF k, n
            <4> QED
                BY <3>2, <4>1
        <3>4. StepsToAnswer(c) \in {2 * k, 2 * k + 1}
            BY <2>2, <3>2 DEF StepsToAnswer
        <3> HIDE DEF k, n
        <3>5. {2 * k, 2 * k + 1} \subseteq 1 .. 2 * RcvBuf + 1
            BY <2>0, <3>2
        <3> QED
            BY <1>1, <3>3, <3>4, <3>5 DEF QueueInv
    <2> QED
        BY <2>1, <2>2
<1>2. UdpInv /\ QueueInv =>
         \A c \in Clients : Pending(c) =>
            /\ StepsToAnswer(c) \in 1 .. 2 * RcvBuf + 1
            /\ spc = "sendto" \/ (spc = "recvfrom" /\ queue # << >>)
    BY <1>1
<1> QED
    BY <1>2, QueueInvariance, PTL
===============================================================================
