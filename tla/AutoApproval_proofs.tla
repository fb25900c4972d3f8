------------------------- MODULE AutoApproval_proofs -------------------------
(* Proofs about AutoApproval, for any number of people who decide, change  *)
(* the policy, execute or ask at the same time.                            *)
EXTENDS AutoApproval, FiniteSetTheorems, TLAPS

-----------------------------------------------------------------------------
(* The pattern of a type of approvals.                                     *)

(* The decisions that are being recorded, and those that were made.        *)
Answers == {"yes", "no"}

Pending(x) == {d \in Deciders : decider[d].at # "idle" /\ decider[d].answer = x}

Said(x) == IF x = "yes" THEN decided.yes ELSE decided.no

(* A decision made is either in recording, or may have been counted: so    *)
(* the count a writer has read leaves room for its own decision.           *)
Counted(x) ==
    /\ Cardinality(Pending(x)) <= Said(x)
    /\ \A p \in Pattern!There : Pattern!Count(p, x) + Cardinality(Pending(x)) <= Said(x)
    /\ \A d \in Deciders : decider[d].at = "write" /\ decider[d].answer = x =>
           decider[d].read + Cardinality(Pending(x)) <= Said(x)

(* Decisions recorded one after the other are all counted.                 *)
Undeleted == \A p \in Patterns : pattern[p].is # "deleted"

Exact(x) ==
    /\ Pattern!There = {} => Cardinality(Pending(x)) = Said(x)
    /\ \A p \in Pattern!There : Pattern!Count(p, x) + Cardinality(Pending(x)) = Said(x)

InTurn ==
    /\ \A d, e \in Deciders : decider[d].at # "idle" /\ decider[e].at # "idle" => d = e
    /\ \A p, q \in Pattern!There : p = q
    /\ \A x \in Answers : Exact(x)
    /\ \A d \in Deciders :
          /\ decider[d].at = "create" => Pattern!There = {}
          /\ decider[d].at \in {"read", "write"} => decider[d].row \in Pattern!There
          /\ decider[d].at = "write" =>
                 decider[d].read = Pattern!Count(decider[d].row, decider[d].answer)

PatternInv ==
    /\ Pattern!PatternTypeOK
    /\ \A x \in Answers : Counted(x)
    /\ ~together /\ Undeleted => InTurn

LEMMA Bounds ==
    /\ IsFiniteSet(Deciders) /\ IsFiniteSet(Executors)
    /\ Thresholds \subseteq Nat /\ 1 \in Thresholds
    /\ Caps \subseteq Nat /\ 0 \notin Caps /\ 1 \in Caps
    /\ NoPattern \notin Patterns
BY AutoApprovalAssumption

LEMMA PendingFinite ==
    ASSUME NEW x
    PROVE  IsFiniteSet(Pending(x)) /\ Cardinality(Pending(x)) \in Nat
<1>1. Pending(x) \in SUBSET Deciders
    BY DEF Pending
<1>2. IsFiniteSet(Pending(x))
    BY <1>1, Bounds, FS_Subset
<1>3. QED BY <1>2, FS_CardinalityType

LEMMA CountFacts ==
    ASSUME Pattern!PatternTypeOK, NEW x
    PROVE  /\ \A p \in Patterns : Pattern!Count(p, x) \in Nat
           /\ Said(x) \in Nat
           /\ Pattern!There \subseteq Patterns
BY DEF Pattern!PatternTypeOK, Pattern!Count, Pattern!Rows, Pattern!There, Said

(* A decider that goes on with the decision it records, or ends.           *)
LEMMA PendingMoves ==
    ASSUME Pattern!PatternTypeOK, NEW d \in Deciders, NEW r \in Pattern!DeciderType,
           decider' = [decider EXCEPT ![d] = r],
           r.at # "idle" => decider[d].at # "idle" /\ r.answer = decider[d].answer, NEW x
    PROVE  /\ Pending(x)' = IF r.at = "idle" THEN Pending(x) \ {d} ELSE Pending(x)
           /\ Cardinality(Pending(x))' =
                  IF r.at = "idle" /\ d \in Pending(x) THEN Cardinality(Pending(x)) - 1
                  ELSE Cardinality(Pending(x))
<1>1. decider'[d] = r /\ \A e \in Deciders \ {d} : decider'[e] = decider[e]
    BY DEF Pattern!PatternTypeOK
<1>2. Pending(x)' = IF r.at = "idle" THEN Pending(x) \ {d} ELSE Pending(x)
    BY <1>1 DEF Pending
<1>3. Cardinality(Pending(x) \ {d}) =
          IF d \in Pending(x) THEN Cardinality(Pending(x)) - 1 ELSE Cardinality(Pending(x))
    BY PendingFinite, FS_RemoveElement
<1>4. QED BY <1>2, <1>3

(* What a decider has at hand when it goes on.                             *)
GoesOn(d, r) ==
    /\ r \in Pattern!DeciderType
    /\ decider[d].at # "idle"
    /\ decider' = [decider EXCEPT ![d] = r]
    /\ r.at # "idle" => r.answer = decider[d].answer
    /\ r.at \in {"read", "write"} => r.row \in Patterns

LEMMA PatternTyped ==
    ASSUME Pattern!PatternTypeOK, NEW d \in Deciders, NEW r, GoesOn(d, r),
           pattern' \in [Patterns -> Pattern!Rows], decided' = decided, together' \in BOOLEAN
    PROVE  Pattern!PatternTypeOK'
<1>1. decider'[d] = r /\ \A e \in Deciders \ {d} : decider'[e] = decider[e]
    BY DEF Pattern!PatternTypeOK, GoesOn
<1>2. decider' \in [Deciders -> Pattern!DeciderType]
    BY DEF Pattern!PatternTypeOK, GoesOn
<1>3. \A e \in Deciders : decider'[e].at \in {"read", "write"} => decider'[e].row \in Patterns
    BY <1>1 DEF Pattern!PatternTypeOK, GoesOn
<1>4. QED BY <1>2, <1>3 DEF Pattern!PatternTypeOK

(* Rows may be added, with nothing counted; the others count what they     *)
(* counted.                                                                *)
LEMMA MovesCounted ==
    ASSUME PatternInv, NEW d \in Deciders, NEW r, GoesOn(d, r), decided' = decided,
           Pattern!There' \subseteq Patterns,
           \A x \in Answers : \A p \in Pattern!There' :
               \/ p \in Pattern!There /\ Pattern!Count(p, x)' = Pattern!Count(p, x)
               \/ Pattern!Count(p, x)' = 0,
           r.at = "write" => r.row \in Pattern!There /\ r.read = Pattern!Count(r.row, r.answer),
           NEW x \in Answers
    PROVE  Counted(x)'
<1>1. decider'[d] = r /\ \A e \in Deciders \ {d} : decider'[e] = decider[e]
    BY DEF PatternInv, Pattern!PatternTypeOK, GoesOn
<1>2. Counted(x) /\ Pattern!PatternTypeOK
    BY DEF PatternInv
<1>3. PICK n : n = Cardinality(Pending(x))
    OBVIOUS
<1>4. PICK m : m = Cardinality(Pending(x))'
    OBVIOUS
<1>5. n \in Nat
    BY <1>3, PendingFinite
<1>6. Pending(x)' = IF r.at = "idle" THEN Pending(x) \ {d} ELSE Pending(x)
    BY <1>2, PendingMoves DEF GoesOn
<1>7. m \in Nat /\ m <= n
  <2>1. \/ Pending(x)' = Pending(x)
        \/ Pending(x)' = Pending(x) \ {d}
      BY <1>6
  <2>2. Cardinality(Pending(x) \ {d}) =
            IF d \in Pending(x) THEN Cardinality(Pending(x)) - 1 ELSE Cardinality(Pending(x))
      BY PendingFinite, FS_RemoveElement
  <2>3. IsFiniteSet(Pending(x) \ {d})
      BY PendingFinite, FS_RemoveElement
  <2>4. Cardinality(Pending(x) \ {d}) \in Nat
      BY <2>3, FS_CardinalityType
  <2>5. QED BY <1>3, <1>4, <1>5, <2>1, <2>2, <2>4
<1>8. Said(x)' = Said(x) /\ Said(x) \in Nat
    BY <1>2, CountFacts DEF Said
<1>9. n <= Said(x)
    BY <1>2, <1>3 DEF Counted
<1>10. \A p \in Pattern!There : Pattern!Count(p, x) + n <= Said(x) /\ Pattern!Count(p, x) \in Nat
    BY <1>2, <1>3, CountFacts DEF Counted
<1>11. \A p \in Pattern!There' : Pattern!Count(p, x)' + m <= Said(x)
    BY <1>5, <1>7, <1>8, <1>9, <1>10
<1>12. ASSUME NEW e \in Deciders, decider'[e].at = "write", decider'[e].answer = x
       PROVE  decider'[e].read + m <= Said(x)
  <2>1. CASE e = d
    <3>1. r.row \in Pattern!There /\ r.read = Pattern!Count(r.row, x)
        BY <1>1, <1>12, <2>1
    <3>2. Pattern!Count(r.row, x) + n <= Said(x) /\ Pattern!Count(r.row, x) \in Nat
        BY <1>10, <3>1
    <3>3. QED BY <1>1, <1>5, <1>7, <1>8, <2>1, <3>1, <3>2
  <2>2. CASE e # d
    <3>1. decider'[e] = decider[e] /\ decider[e].read \in Nat
        BY <1>1, <1>2, <2>2 DEF Pattern!PatternTypeOK, Pattern!DeciderType
    <3>2. decider[e].read + n <= Said(x)
        BY <1>2, <1>3, <1>12, <3>1 DEF Counted
    <3>3. QED BY <1>5, <1>7, <1>8, <3>1, <3>2
  <2>3. QED BY <2>1, <2>2
<1>13. m <= Said(x)
    BY <1>5, <1>7, <1>8, <1>9
<1>14. QED BY <1>4, <1>8, <1>11, <1>12, <1>13 DEF Counted

LEMMA MovesInTurn ==
    ASSUME PatternInv, InTurn, NEW d \in Deciders, NEW r, GoesOn(d, r), r.at # "idle",
           pattern' = pattern, decided' = decided,
           r.at = "create" => Pattern!There = {},
           r.at \in {"read", "write"} => r.row \in Pattern!There,
           r.at = "write" => r.read = Pattern!Count(r.row, r.answer)
    PROVE  InTurn'
<1>1. decider'[d] = r /\ \A e \in Deciders \ {d} : decider'[e] = decider[e]
    BY DEF PatternInv, Pattern!PatternTypeOK, GoesOn
<1>2. Pattern!There' = Pattern!There /\ \A p, x : Pattern!Count(p, x)' = Pattern!Count(p, x)
    BY DEF Pattern!There, Pattern!Count
<1>3. ASSUME NEW x \in Answers PROVE Exact(x)'
  <2>1. Pending(x)' = Pending(x)
      BY PendingMoves DEF GoesOn, PatternInv
  <2>2. Said(x)' = Said(x) /\ Cardinality(Pending(x))' = Cardinality(Pending(x))
      BY <2>1 DEF Said
  <2>3. Exact(x)
      BY DEF InTurn
  <2>4. QED BY <1>2, <2>2, <2>3 DEF Exact
<1>4. \A e, f \in Deciders : decider'[e].at # "idle" /\ decider'[f].at # "idle" => e = f
  <2>1. decider[d].at # "idle"
      BY DEF GoesOn
  <2>2. \A e \in Deciders \ {d} : decider'[e].at = "idle"
      BY <1>1, <2>1 DEF InTurn
  <2>3. QED BY <2>2
<1>5. \A e \in Deciders \ {d} : decider'[e].at = "idle"
    BY <1>1 DEF InTurn, GoesOn
<1>6. QED BY <1>1, <1>2, <1>3, <1>4, <1>5 DEF InTurn

LEMMA DoneFacts ==
    /\ Pattern!Done \in Pattern!DeciderType
    /\ Pattern!Done.at = "idle"
BY DEF Pattern!Done, Pattern!DeciderType

(* The row of a decision is looked up, and read.                           *)
LEMMA SameCounts ==
    ASSUME PatternInv, pattern' = pattern
    PROVE  /\ pattern' \in [Patterns -> Pattern!Rows]
           /\ Pattern!There' = Pattern!There
           /\ Undeleted' = Undeleted
           /\ Pattern!There' \subseteq Patterns
           /\ \A x \in Answers : \A p \in Pattern!There' :
               \/ p \in Pattern!There /\ Pattern!Count(p, x)' = Pattern!Count(p, x)
               \/ Pattern!Count(p, x)' = 0
BY CountFacts DEF PatternInv, Pattern!PatternTypeOK, Pattern!There, Pattern!Count, Undeleted

LEMMA LooksKeep ==
    ASSUME PatternInv, NEW d \in Deciders, NEW r, GoesOn(d, r),
           pattern' = pattern, decided' = decided, together' \in BOOLEAN, together => together',
           r.at = "write" => r.row \in Pattern!There /\ r.read = Pattern!Count(r.row, r.answer),
           ~together' /\ Undeleted /\ InTurn =>
               /\ r.at # "idle"
               /\ r.at = "create" => Pattern!There = {}
               /\ r.at \in {"read", "write"} => r.row \in Pattern!There
    PROVE  PatternInv'
<1>1. /\ pattern' \in [Patterns -> Pattern!Rows]
      /\ Pattern!There' = Pattern!There
      /\ Undeleted' = Undeleted
      /\ Pattern!There' \subseteq Patterns
      /\ \A x \in Answers : \A p \in Pattern!There' :
          \/ p \in Pattern!There /\ Pattern!Count(p, x)' = Pattern!Count(p, x)
          \/ Pattern!Count(p, x)' = 0
    BY SameCounts
<1>2. Pattern!PatternTypeOK'
    BY <1>1, PatternTyped DEF PatternInv
<1>3. \A x \in Answers : Counted(x)'
    BY <1>1, MovesCounted
<1>4. ASSUME ~together', Undeleted' PROVE InTurn'
  <2>1. InTurn
      BY <1>1, <1>4 DEF PatternInv
  <2>2. /\ r.at # "idle"
        /\ r.at = "create" => Pattern!There = {}
        /\ r.at \in {"read", "write"} => r.row \in Pattern!There
      BY <1>1, <1>4, <2>1
  <2>3. QED BY <2>1, <2>2, MovesInTurn
<1>5. QED BY <1>2, <1>3, <1>4 DEF PatternInv

LEMMA FindKeeps ==
    ASSUME PatternInv, NEW d \in Deciders, Pattern!Find(d)
    PROVE  PatternInv'
<1>1. PICK k : k = decider[d]
    OBVIOUS
<1>2. k \in Pattern!DeciderType /\ k.at = "find"
    BY <1>1 DEF PatternInv, Pattern!PatternTypeOK, Pattern!Find
<1>3. pattern' = pattern /\ decided' = decided /\ together' = together /\ together \in BOOLEAN
    BY DEF Pattern!Find, PatternInv, Pattern!PatternTypeOK
<1>4. Pattern!There \subseteq Patterns
    BY DEF Pattern!There
<1>5. ASSUME Pattern!There = {}, Pattern!At(d, "create", NoPattern) PROVE PatternInv'
  <2>1. PICK r : r = [k EXCEPT !.at = "create", !.row = NoPattern]
      OBVIOUS
  <2>2. r \in Pattern!DeciderType /\ r.at = "create" /\ r.answer = k.answer
      BY <1>2, <2>1 DEF Pattern!DeciderType
  <2>3. GoesOn(d, r)
      BY <1>1, <1>2, <1>5, <2>1, <2>2 DEF GoesOn, Pattern!At
  <2>4. QED BY <1>3, <1>5, <2>2, <2>3, LooksKeep
<1>6. ASSUME NEW p \in Pattern!There, Pattern!At(d, "read", p) PROVE PatternInv'
  <2>1. PICK r : r = [k EXCEPT !.at = "read", !.row = p]
      OBVIOUS
  <2>2. r \in Pattern!DeciderType /\ r.at = "read" /\ r.answer = k.answer /\ r.row = p
      BY <1>2, <1>4, <1>6, <2>1 DEF Pattern!DeciderType
  <2>3. GoesOn(d, r)
      BY <1>1, <1>2, <1>4, <1>6, <2>1, <2>2 DEF GoesOn, Pattern!At
  <2>4. QED BY <1>3, <1>6, <2>2, <2>3, LooksKeep
<1>7. ASSUME \E p, q \in Pattern!There : p # q, Pattern!Leave(d) PROVE PatternInv'
  <2>1. GoesOn(d, Pattern!Done)
      BY <1>1, <1>2, <1>7, DoneFacts DEF GoesOn, Pattern!Leave
  <2>2. ~InTurn
      BY <1>7 DEF InTurn
  <2>3. QED BY <1>3, <2>1, <2>2, DoneFacts, LooksKeep
<1>8. QED BY <1>5, <1>6, <1>7 DEF Pattern!Find

LEMMA ReadKeeps ==
    ASSUME PatternInv, NEW d \in Deciders, Pattern!Read(d)
    PROVE  PatternInv'
<1>1. PICK k : k = decider[d]
    OBVIOUS
<1>2. k \in Pattern!DeciderType /\ k.at = "read"
    BY <1>1 DEF PatternInv, Pattern!PatternTypeOK, Pattern!Read
<1>3. pattern' = pattern /\ decided' = decided /\ together' = together /\ together \in BOOLEAN
    BY DEF Pattern!Read, PatternInv, Pattern!PatternTypeOK
<1>4. Pattern!There \subseteq Patterns
    BY DEF Pattern!There
<1>5. CASE k.row \in Pattern!There
  <2>1. PICK r : r = [k EXCEPT !.at = "write", !.read = Pattern!Count(k.row, k.answer)]
      OBVIOUS
  <2>2. Pattern!Count(k.row, k.answer) \in Nat
      BY <1>4, <1>5, CountFacts DEF PatternInv
  <2>3. /\ r \in Pattern!DeciderType /\ r.at = "write" /\ r.answer = k.answer /\ r.row = k.row
        /\ r.read = Pattern!Count(k.row, k.answer)
      BY <1>2, <2>1, <2>2 DEF Pattern!DeciderType
  <2>4. decider' = [decider EXCEPT ![d] = r]
    <3>1. decider' = [decider EXCEPT ![d].at = "write", ![d].read = Pattern!Count(k.row, k.answer)]
        BY <1>1, <1>5 DEF Pattern!Read
    <3>2. decider \in [Deciders -> Pattern!DeciderType]
        BY DEF PatternInv, Pattern!PatternTypeOK
    <3>3. QED BY <1>1, <2>1, <3>1, <3>2
  <2>5. GoesOn(d, r)
      BY <1>1, <1>2, <1>4, <1>5, <2>3, <2>4 DEF GoesOn
  <2>6. QED BY <1>3, <1>5, <2>3, <2>5, LooksKeep
<1>6. CASE k.row \notin Pattern!There
  <2>1. GoesOn(d, Pattern!Done)
      BY <1>1, <1>2, <1>6, DoneFacts DEF GoesOn, Pattern!Read, Pattern!Leave
  <2>2. ~InTurn
      BY <1>1, <1>2, <1>6 DEF InTurn
  <2>3. QED BY <1>3, <2>1, <2>2, DoneFacts, LooksKeep
<1>7. QED BY <1>5, <1>6

LEMMA LoseKeeps ==
    ASSUME PatternInv, NEW d \in Deciders, Pattern!Lose(d)
    PROVE  PatternInv'
<1>1. GoesOn(d, Pattern!Done)
    BY DoneFacts DEF GoesOn, Pattern!Lose, Pattern!Leave, Pattern!Recording
<1>2. pattern' = pattern /\ decided' = decided /\ together' = TRUE
    BY DEF Pattern!Lose
<1>3. QED BY <1>1, <1>2, DoneFacts, LooksKeep
(* A row is created.                                                       *)
LEMMA CreateKeeps ==
    ASSUME PatternInv, NEW d \in Deciders, Pattern!Create(d)
    PROVE  PatternInv'
<1>1. PICK p \in Pattern!Unborn : /\ pattern' = [pattern EXCEPT ![p] = Pattern!NewRow]
                                  /\ Pattern!At(d, "read", p)
    BY DEF Pattern!Create
<1>2. PICK k : k = decider[d]
    OBVIOUS
<1>3. k \in Pattern!DeciderType /\ k.at = "create"
    BY <1>2 DEF PatternInv, Pattern!PatternTypeOK, Pattern!Create
<1>4. decided' = decided /\ together' = together /\ together \in BOOLEAN
    BY DEF Pattern!Create, PatternInv, Pattern!PatternTypeOK
<1>5. p \in Patterns /\ pattern[p].is = "unused"
    BY DEF Pattern!Unborn
<1>6. PICK r : r = [k EXCEPT !.at = "read", !.row = p]
    OBVIOUS
<1>7. r \in Pattern!DeciderType /\ r.at = "read" /\ r.answer = k.answer /\ r.row = p
    BY <1>3, <1>5, <1>6 DEF Pattern!DeciderType
<1>8. GoesOn(d, r)
    BY <1>1, <1>2, <1>3, <1>5, <1>6, <1>7 DEF GoesOn, Pattern!At
<1>9. /\ Pattern!NewRow \in Pattern!Rows /\ Pattern!NewRow.is = "there"
      /\ Pattern!NewRow.yes = 0 /\ Pattern!NewRow.no = 0
    BY Bounds DEF Pattern!NewRow, Pattern!Rows
<1>10. /\ pattern' \in [Patterns -> Pattern!Rows]
       /\ pattern'[p] = Pattern!NewRow
       /\ \A q \in Patterns \ {p} : pattern'[q] = pattern[q]
    BY <1>1, <1>5, <1>9 DEF PatternInv, Pattern!PatternTypeOK
<1>11. Pattern!There' = Pattern!There \cup {p}
    BY <1>5, <1>9, <1>10 DEF Pattern!There
<1>12. /\ \A x : Pattern!Count(p, x)' = 0
       /\ \A x : \A q \in Pattern!There \ {p} : Pattern!Count(q, x)' = Pattern!Count(q, x)
       /\ p \notin Pattern!There /\ Pattern!There \subseteq Patterns
    BY <1>5, <1>9, <1>10 DEF Pattern!Count, Pattern!There
<1>13. Pattern!PatternTypeOK'
    BY <1>4, <1>8, <1>10, PatternTyped DEF PatternInv
<1>14. ASSUME NEW x \in Answers PROVE Counted(x)'
  <2>1. \A y \in Answers : \A q \in Pattern!There' :
            \/ q \in Pattern!There /\ Pattern!Count(q, y)' = Pattern!Count(q, y)
            \/ Pattern!Count(q, y)' = 0
      BY <1>11, <1>12
  <2>2. Pattern!There' \subseteq Patterns
      BY <1>5, <1>11, <1>12
  <2>3. QED BY <1>4, <1>7, <1>8, <1>14, <2>1, <2>2, MovesCounted
<1>15. ASSUME ~together', Undeleted' PROVE InTurn'
  <2>1. Undeleted
      BY <1>5, <1>10, <1>15 DEF Undeleted
  <2>2. InTurn
      BY <1>4, <1>15, <2>1 DEF PatternInv
  <2>3. Pattern!There = {}
      BY <1>2, <1>3, <2>2 DEF InTurn
  <2>4. decider'[d] = r /\ \A e \in Deciders \ {d} : decider'[e] = decider[e]
      BY <1>8 DEF PatternInv, Pattern!PatternTypeOK, GoesOn
  <2>5. \A e \in Deciders \ {d} : decider'[e].at = "idle"
      BY <1>2, <1>3, <2>2, <2>4 DEF InTurn
  <2>6. ASSUME NEW x \in Answers PROVE Exact(x)'
    <3>1. Cardinality(Pending(x))' = Cardinality(Pending(x))
        BY <1>7, <1>8, PendingMoves DEF GoesOn, PatternInv
    <3>2. Cardinality(Pending(x)) = Said(x) /\ Said(x)' = Said(x)
        BY <1>4, <2>2, <2>3, <2>6 DEF InTurn, Exact, Said
    <3>3. Said(x) \in Nat
        BY CountFacts DEF PatternInv
    <3>4. QED BY <1>11, <1>12, <2>3, <3>1, <3>2, <3>3 DEF Exact
  <2>7. \A e, f \in Deciders : decider'[e].at # "idle" /\ decider'[f].at # "idle" => e = f
      BY <2>5
  <2>8. \A q, s \in Pattern!There' : q = s
      BY <1>11, <2>3
  <2>9. QED BY <1>7, <1>11, <2>4, <2>5, <2>6, <2>7, <2>8 DEF InTurn
<1>16. QED BY <1>13, <1>14, <1>15 DEF PatternInv

(* A counter is written back.                                              *)
LEMMA WriteKeeps ==
    ASSUME PatternInv, NEW d \in Deciders, Pattern!Write(d)
    PROVE  PatternInv'
<1>1. PICK k : k = decider[d]
    OBVIOUS
<1>2. k \in Pattern!DeciderType /\ k.at = "write" /\ k.row \in Patterns
    BY <1>1 DEF PatternInv, Pattern!PatternTypeOK, Pattern!Write
<1>3. decided' = decided /\ together' = together /\ together \in BOOLEAN
    BY DEF Pattern!Write, PatternInv, Pattern!PatternTypeOK
<1>4. GoesOn(d, Pattern!Done)
    BY <1>1, <1>2, DoneFacts DEF GoesOn, Pattern!Write, Pattern!Leave
<1>5. CASE k.row \notin Pattern!There
  <2>1. pattern' = pattern
      BY <1>1, <1>2, <1>5 DEF Pattern!Write, PatternInv, Pattern!PatternTypeOK
  <2>2. ~InTurn
      BY <1>1, <1>2, <1>5 DEF InTurn
  <2>3. QED BY <1>3, <1>4, <2>1, <2>2, DoneFacts, LooksKeep
<1>6. CASE k.row \in Pattern!There
  <2>1. PICK row : row = Pattern!Incremented(pattern[k.row], k)
      OBVIOUS
  <2>2. pattern[k.row] \in Pattern!Rows /\ pattern[k.row].is = "there"
      BY <1>2, <1>6 DEF PatternInv, Pattern!PatternTypeOK, Pattern!There
  <2>3. k.answer \in Answers /\ k.read \in Nat
      BY <1>2 DEF Pattern!DeciderType, Answers
  <2>4. /\ row \in Pattern!Rows /\ row.is = "there"
        /\ k.answer = "yes" => row.yes = k.read + 1 /\ row.no = pattern[k.row].no
        /\ k.answer # "yes" => row.no = k.read + 1 /\ row.yes = pattern[k.row].yes
      BY <2>1, <2>2, <2>3 DEF Pattern!Incremented, Pattern!Rows
  <2>5. pattern' = [pattern EXCEPT ![k.row] = row]
      BY <1>1, <1>6, <2>1 DEF Pattern!Write
  <2>6. /\ pattern' \in [Patterns -> Pattern!Rows]
        /\ pattern'[k.row] = row
        /\ \A q \in Patterns \ {k.row} : pattern'[q] = pattern[q]
      BY <1>2, <2>4, <2>5 DEF PatternInv, Pattern!PatternTypeOK
  <2>7. Pattern!There' = Pattern!There /\ Pattern!There \subseteq Patterns
      BY <2>2, <2>4, <2>6 DEF Pattern!There
  <2>8. ASSUME NEW x \in Answers
        PROVE  /\ Pattern!Count(k.row, x)' =
                      IF x = k.answer THEN k.read + 1 ELSE Pattern!Count(k.row, x)
               /\ \A q \in Patterns \ {k.row} : Pattern!Count(q, x)' = Pattern!Count(q, x)
      BY <2>3, <2>4, <2>6, <2>8 DEF Pattern!Count, Answers
  <2>9. Pattern!PatternTypeOK'
      BY <1>3, <1>4, <2>6, PatternTyped DEF PatternInv
  <2>10. decider'[d] = Pattern!Done /\ \A e \in Deciders \ {d} : decider'[e] = decider[e]
      BY <1>4 DEF PatternInv, Pattern!PatternTypeOK, GoesOn
  <2>11. ASSUME NEW x \in Answers
         PROVE  /\ Cardinality(Pending(x))' =
                       IF x = k.answer THEN Cardinality(Pending(x)) - 1 ELSE Cardinality(Pending(x))
                /\ Cardinality(Pending(x)) \in Nat
                /\ Said(x)' = Said(x) /\ Said(x) \in Nat
    <3>1. d \in Pending(x) <=> x = k.answer
        BY <1>1, <1>2 DEF Pending
    <3>2. Pattern!PatternTypeOK /\ Pattern!Done.at = "idle"
        BY DoneFacts DEF PatternInv
    <3>3. /\ Pattern!Done \in Pattern!DeciderType
          /\ decider' = [decider EXCEPT ![d] = Pattern!Done]
        BY <1>4 DEF GoesOn
    <3>4. Cardinality(Pending(x))' =
              IF Pattern!Done.at = "idle" /\ d \in Pending(x) THEN Cardinality(Pending(x)) - 1
              ELSE Cardinality(Pending(x))
        BY <3>2, <3>3, PendingMoves
    <3>5. Said(x)' = Said(x) /\ Said(x) \in Nat
        BY <1>3, <3>2, CountFacts DEF Said
    <3>6. QED BY <3>1, <3>2, <3>4, <3>5, PendingFinite
  <2>12. ASSUME NEW x \in Answers PROVE Counted(x)'
    <3>1. PICK n : n = Cardinality(Pending(x))
        OBVIOUS
    <3>2. PICK m : m = Cardinality(Pending(x))'
        OBVIOUS
    <3>3. /\ n \in Nat /\ m \in Int /\ m <= n
          /\ x = k.answer => m = n - 1
          /\ Said(x)' = Said(x) /\ Said(x) \in Nat
        BY <2>11, <2>12, <3>1, <3>2
    <3>4. /\ n <= Said(x)
          /\ \A q \in Pattern!There : Pattern!Count(q, x) + n <= Said(x)
          /\ \A e \in Deciders : decider[e].at = "write" /\ decider[e].answer = x =>
                 decider[e].read + n <= Said(x)
        BY <2>12, <3>1 DEF PatternInv, Counted
    <3>5. \A q \in Pattern!There : Pattern!Count(q, x) \in Nat
        BY CountFacts DEF PatternInv
    <3>6. \A e \in Deciders : decider[e].read \in Nat
        BY DEF PatternInv, Pattern!PatternTypeOK, Pattern!DeciderType
    <3>7. ASSUME NEW q \in Pattern!There PROVE Pattern!Count(q, x)' + m <= Said(x)
      <4>1. CASE q = k.row /\ x = k.answer
        <5>1. Pattern!Count(q, x)' = k.read + 1
            BY <2>8, <2>12, <4>1
        <5>2. k.read + n <= Said(x)
            BY <1>1, <1>2, <3>4, <4>1
        <5>3. QED BY <2>3, <3>3, <4>1, <5>1, <5>2
      <4>2. CASE ~(q = k.row /\ x = k.answer)
        <5>1. Pattern!Count(q, x)' = Pattern!Count(q, x)
            BY <2>7, <2>8, <2>12, <3>7, <4>2
        <5>2. Pattern!Count(q, x) + n <= Said(x) /\ Pattern!Count(q, x) \in Nat
            BY <3>4, <3>5, <3>7
        <5>3. QED BY <3>3, <5>1, <5>2
      <4>3. QED BY <4>1, <4>2
    <3>8. ASSUME NEW e \in Deciders, decider'[e].at = "write", decider'[e].answer = x
          PROVE  decider'[e].read + m <= Said(x)
      <4>1. decider'[e] = decider[e]
          BY <2>10, <3>8, DoneFacts
      <4>2. QED BY <3>3, <3>4, <3>6, <3>8, <4>1
    <3>9. QED BY <2>7, <3>2, <3>3, <3>4, <3>7, <3>8 DEF Counted
  <2>13. ASSUME ~together', Undeleted' PROVE InTurn'
    <3>1. Undeleted
        BY <2>2, <2>6, <2>13 DEF Undeleted
    <3>2. InTurn
        BY <1>3, <2>13, <3>1 DEF PatternInv
    <3>3. \A e \in Deciders : decider'[e].at = "idle"
        BY <1>1, <1>2, <2>10, <3>2, DoneFacts DEF InTurn
    <3>4. ASSUME NEW x \in Answers PROVE Exact(x)'
      <4>1. \A q \in Pattern!There : q = k.row
          BY <1>6, <3>2 DEF InTurn
      <4>2. Pattern!Count(k.row, x) + Cardinality(Pending(x)) = Said(x)
          BY <1>6, <3>2, <3>4 DEF InTurn, Exact
      <4>3. k.read = Pattern!Count(k.row, k.answer)
          BY <1>1, <1>2, <3>2 DEF InTurn
      <4>4. Pattern!Count(k.row, x) \in Nat
          BY <1>2, CountFacts DEF PatternInv
      <4>5. Pattern!Count(k.row, x)' =
                IF x = k.answer THEN k.read + 1 ELSE Pattern!Count(k.row, x)
          BY <2>8, <3>4
      <4>6. /\ Cardinality(Pending(x))' =
                   IF x = k.answer THEN Cardinality(Pending(x)) - 1 ELSE Cardinality(Pending(x))
            /\ Cardinality(Pending(x)) \in Nat
            /\ Said(x)' = Said(x) /\ Said(x) \in Nat
          BY <2>11, <3>4
      <4>7. Pattern!Count(k.row, x)' + Cardinality(Pending(x))' = Said(x)'
          BY <4>2, <4>3, <4>4, <4>5, <4>6
      <4>8. QED BY <1>6, <2>7, <4>1, <4>7 DEF Exact
    <3>5. QED BY <2>7, <3>2, <3>3, <3>4 DEF InTurn
  <2>14. QED BY <2>9, <2>12, <2>13 DEF PatternInv
<1>7. QED BY <1>5, <1>6
(* A decision is made.                                                     *)
LEMMA DecideKeeps ==
    ASSUME PatternInv, NEW d \in Deciders, NEW answer \in Answers, Pattern!Decide(d, answer)
    PROVE  PatternInv'
<1>1. PICK r : r = [Pattern!Done EXCEPT !.at = "find", !.answer = answer]
    OBVIOUS
<1>2. r \in Pattern!DeciderType /\ r.at = "find" /\ r.answer = answer
    BY <1>1 DEF Pattern!Done, Pattern!DeciderType, Answers
<1>3. /\ decider' = [decider EXCEPT ![d] = r] /\ pattern' = pattern
      /\ decider[d].at = "idle"
      /\ decided' = [decided EXCEPT ![answer] = @ + 1]
      /\ together' = (together \/ \E e \in Deciders : decider[e].at # "idle")
    BY <1>1 DEF Pattern!Decide, Pattern!Recording
<1>4. decider'[d] = r /\ \A e \in Deciders \ {d} : decider'[e] = decider[e]
    BY <1>3 DEF PatternInv, Pattern!PatternTypeOK
<1>5. /\ pattern' \in [Patterns -> Pattern!Rows]
      /\ Pattern!There' = Pattern!There
      /\ Undeleted' = Undeleted
      /\ Pattern!There \subseteq Patterns
      /\ \A p, x : Pattern!Count(p, x)' = Pattern!Count(p, x)
    BY <1>3 DEF PatternInv, Pattern!PatternTypeOK, Pattern!There, Pattern!Count, Undeleted
<1>6. decided' \in [yes : Nat, no : Nat]
    BY <1>3 DEF PatternInv, Pattern!PatternTypeOK, Answers
<1>7. ASSUME NEW x \in Answers
      PROVE  /\ Said(x) \in Nat /\ Said(x)' = IF x = answer THEN Said(x) + 1 ELSE Said(x)
             /\ Cardinality(Pending(x)) \in Nat
             /\ Cardinality(Pending(x))' =
                    IF x = answer THEN Cardinality(Pending(x)) + 1 ELSE Cardinality(Pending(x))
  <2>1. Said(x) \in Nat /\ Said(x)' = IF x = answer THEN Said(x) + 1 ELSE Said(x)
      BY <1>3, <1>7 DEF PatternInv, Pattern!PatternTypeOK, Said, Answers
  <2>2. Pending(x)' = IF x = answer THEN Pending(x) \cup {d} ELSE Pending(x)
      BY <1>2, <1>3, <1>4 DEF Pending
  <2>3. d \notin Pending(x)
      BY <1>3 DEF Pending
  <2>4. Cardinality(Pending(x) \cup {d}) = Cardinality(Pending(x)) + 1
      BY <2>3, PendingFinite, FS_AddElement
  <2>5. QED BY <2>1, <2>2, <2>4, PendingFinite
<1>8. Pattern!PatternTypeOK'
  <2>1. decider' \in [Deciders -> Pattern!DeciderType]
      BY <1>2, <1>3 DEF PatternInv, Pattern!PatternTypeOK
  <2>2. \A e \in Deciders : decider'[e].at \in {"read", "write"} => decider'[e].row \in Patterns
      BY <1>2, <1>4 DEF PatternInv, Pattern!PatternTypeOK
  <2>3. together' \in BOOLEAN
      BY <1>3 DEF PatternInv, Pattern!PatternTypeOK
  <2>4. QED BY <1>5, <1>6, <2>1, <2>2, <2>3 DEF Pattern!PatternTypeOK
<1>9. ASSUME NEW x \in Answers PROVE Counted(x)'
  <2>1. PICK n : n = Cardinality(Pending(x))
      OBVIOUS
  <2>2. PICK m : m = Cardinality(Pending(x))'
      OBVIOUS
  <2>3. PICK s : s = Said(x)'
      OBVIOUS
  <2>4. n \in Nat /\ m \in Nat /\ s \in Nat /\ Said(x) \in Nat /\ m - n = s - Said(x)
      BY <1>7, <1>9, <2>1, <2>2, <2>3
  <2>5. /\ n <= Said(x)
        /\ \A q \in Pattern!There : Pattern!Count(q, x) + n <= Said(x)
        /\ \A e \in Deciders : decider[e].at = "write" /\ decider[e].answer = x =>
               decider[e].read + n <= Said(x)
      BY <1>9, <2>1 DEF PatternInv, Counted
  <2>6. \A q \in Pattern!There : Pattern!Count(q, x)' \in Nat /\ Pattern!Count(q, x)' + m <= s
    <3>1. \A q \in Pattern!There : Pattern!Count(q, x) \in Nat
        BY CountFacts DEF PatternInv
    <3>2. QED BY <1>5, <2>4, <2>5, <3>1
  <2>7. ASSUME NEW e \in Deciders, decider'[e].at = "write", decider'[e].answer = x
        PROVE  decider'[e].read + m <= s
    <3>1. decider'[e] = decider[e]
        BY <1>2, <1>4, <2>7
    <3>2. decider[e].read \in Nat
        BY DEF PatternInv, Pattern!PatternTypeOK, Pattern!DeciderType
    <3>3. QED BY <2>4, <2>5, <2>7, <3>1, <3>2
  <2>8. m <= s
      BY <2>4, <2>5
  <2>9. QED BY <1>5, <2>2, <2>3, <2>6, <2>7, <2>8 DEF Counted
<1>10. ASSUME ~together', Undeleted' PROVE InTurn'
  <2>1. InTurn
      BY <1>3, <1>5, <1>10 DEF PatternInv
  <2>2. \A e \in Deciders \ {d} : decider'[e].at = "idle"
      BY <1>3, <1>4, <1>10
  <2>3. \A e, f \in Deciders : decider'[e].at # "idle" /\ decider'[f].at # "idle" => e = f
      BY <2>2
  <2>4. ASSUME NEW x \in Answers PROVE Exact(x)'
    <3>1. Pattern!There = {} => Cardinality(Pending(x)) = Said(x)
        BY <2>1, <2>4 DEF InTurn, Exact
    <3>2. ASSUME NEW p \in Pattern!There
          PROVE  /\ Pattern!Count(p, x) \in Nat
                 /\ Pattern!Count(p, x) + Cardinality(Pending(x)) = Said(x)
        BY <2>1, <2>4, CountFacts DEF InTurn, Exact, PatternInv
    <3>3. \A p \in Pattern!There : Pattern!Count(p, x) + Cardinality(Pending(x))' = Said(x)'
      <4>1. TAKE p \in Pattern!There
      <4>2. Pattern!Count(p, x) \in Nat /\ Pattern!Count(p, x) + Cardinality(Pending(x)) = Said(x)
          BY <3>2, <4>1
      <4>3. QED BY <1>7, <2>4, <4>2
    <3>4. Pattern!There = {} => Cardinality(Pending(x))' = Said(x)'
        BY <1>7, <2>4, <3>1
    <3>5. QED BY <1>5, <3>3, <3>4 DEF Exact
  <2>5. \A p, q \in Pattern!There' : p = q
      BY <1>5, <2>1 DEF InTurn
  <2>6. QED BY <1>2, <1>4, <2>2, <2>3, <2>4, <2>5 DEF InTurn
<1>11. QED BY <1>8, <1>9, <1>10 DEF PatternInv

(* The CEO configures a row, which leaves its counters alone.              *)
LEMMA ConfigureKeeps ==
    ASSUME PatternInv, NEW p \in Patterns, NEW enabled \in BOOLEAN, NEW threshold \in Thresholds,
           Pattern!Configure(p, enabled, threshold)
    PROVE  PatternInv'
<1>1. PICK row : row = [pattern[p] EXCEPT !.enabled = enabled, !.threshold = threshold]
    OBVIOUS
<1>2. pattern[p] \in Pattern!Rows /\ p \in Pattern!There
    BY DEF PatternInv, Pattern!PatternTypeOK, Pattern!Configure
<1>3. /\ row \in Pattern!Rows /\ row.is = pattern[p].is
      /\ row.yes = pattern[p].yes /\ row.no = pattern[p].no
    BY <1>1, <1>2 DEF Pattern!Rows
<1>4. pattern' = [pattern EXCEPT ![p] = row] /\ UNCHANGED <<decider, decided, together>>
    BY <1>1 DEF Pattern!Configure
<1>5. /\ pattern' \in [Patterns -> Pattern!Rows]
      /\ \A q \in Patterns : /\ pattern'[q].is = pattern[q].is
                             /\ pattern'[q].yes = pattern[q].yes
                             /\ pattern'[q].no = pattern[q].no
    BY <1>3, <1>4 DEF PatternInv, Pattern!PatternTypeOK
<1>6. /\ Pattern!There' = Pattern!There /\ Undeleted' = Undeleted
      /\ \A x : Pending(x)' = Pending(x) /\ Said(x)' = Said(x)
    BY <1>4, <1>5 DEF Pattern!There, Undeleted, Pending, Said
<1>7. \A q \in Patterns : \A x : Pattern!Count(q, x)' = Pattern!Count(q, x)
    BY <1>5 DEF Pattern!Count
<1>8. Pattern!There \subseteq Patterns
    BY DEF Pattern!There
<1>9. Pattern!PatternTypeOK'
    BY <1>4, <1>5 DEF PatternInv, Pattern!PatternTypeOK
<1>10. ASSUME NEW x \in Answers PROVE Counted(x)' /\ (Exact(x) => Exact(x)')
  <2>1. Cardinality(Pending(x))' = Cardinality(Pending(x)) /\ Said(x)' = Said(x)
      BY <1>6
  <2>2. Counted(x)
      BY <1>10 DEF PatternInv
  <2>3. QED BY <1>4, <1>6, <1>7, <1>8, <2>1, <2>2 DEF Counted, Exact
<1>11. ASSUME ~together', Undeleted' PROVE InTurn'
  <2>1. InTurn
      BY <1>4, <1>6, <1>11 DEF PatternInv
  <2>2. \A x \in Answers : Exact(x)'
      BY <1>10, <2>1 DEF InTurn
  <2>3. \A d \in Deciders : decider'[d].at = "write" =>
            decider'[d].read = Pattern!Count(decider[d].row, decider[d].answer)'
    <3>1. TAKE d \in Deciders
    <3>2. HAVE decider'[d].at = "write"
    <3>3. decider[d].row \in Pattern!There /\ decider[d].read = Pattern!Count(decider[d].row, decider[d].answer)
        BY <1>4, <2>1, <3>1, <3>2 DEF InTurn
    <3>4. PICK q, x : q = decider[d].row /\ x = decider[d].answer
        OBVIOUS
    <3>5. Pattern!Count(q, x)' = Pattern!Count(q, x) /\ q \in Patterns
        BY <1>7, <1>8, <3>3, <3>4
    <3>6. q = decider'[d].row /\ x = decider'[d].answer /\ decider'[d].read = Pattern!Count(q, x)
        BY <1>4, <3>3, <3>4
    <3>7. QED BY <3>5, <3>6 DEF Pattern!Count
  <2>4. QED BY <1>4, <1>6, <2>1, <2>2, <2>3 DEF InTurn
<1>12. QED BY <1>9, <1>10, <1>11 DEF PatternInv

(* The CEO deletes a row.                                                  *)
LEMMA DeleteKeeps ==
    ASSUME PatternInv, NEW p \in Patterns, Pattern!Delete(p)
    PROVE  PatternInv'
<1>1. PICK row : row = [Pattern!Unused EXCEPT !.is = "deleted"]
    OBVIOUS
<1>2. row \in Pattern!Rows /\ row.is = "deleted"
    BY <1>1, Bounds DEF Pattern!Unused, Pattern!NewRow, Pattern!Rows
<1>3. pattern' = [pattern EXCEPT ![p] = row] /\ UNCHANGED <<decider, decided>>
    BY <1>1 DEF Pattern!Delete
<1>4. /\ pattern' \in [Patterns -> Pattern!Rows] /\ pattern'[p] = row
      /\ \A q \in Patterns \ {p} : pattern'[q] = pattern[q]
    BY <1>2, <1>3 DEF PatternInv, Pattern!PatternTypeOK
<1>5. Pattern!There' = Pattern!There \ {p} /\ Pattern!There \subseteq Patterns
    BY <1>2, <1>4 DEF Pattern!There
<1>6. \A q \in Patterns \ {p} : \A x : Pattern!Count(q, x)' = Pattern!Count(q, x)
    BY <1>4 DEF Pattern!Count
<1>7. \A x : Pending(x)' = Pending(x) /\ Said(x)' = Said(x)
    BY <1>3 DEF Pending, Said
<1>8. together' \in BOOLEAN
    BY DEF Pattern!Delete, PatternInv, Pattern!PatternTypeOK
<1>9. Pattern!PatternTypeOK'
    BY <1>3, <1>4, <1>8 DEF PatternInv, Pattern!PatternTypeOK
<1>10. ASSUME NEW x \in Answers PROVE Counted(x)'
  <2>1. Cardinality(Pending(x))' = Cardinality(Pending(x)) /\ Said(x)' = Said(x)
      BY <1>7
  <2>2. Counted(x)
      BY <1>10 DEF PatternInv
  <2>3. QED BY <1>3, <1>5, <1>6, <2>1, <2>2 DEF Counted
<1>11. ~Undeleted'
    BY <1>2, <1>4 DEF Undeleted
<1>12. QED BY <1>9, <1>10, <1>11 DEF PatternInv

LEMMA PatternBegins ==
    ASSUME Pattern!PatternInit
    PROVE  PatternInv
<1>1. Pattern!Unused \in Pattern!Rows /\ Pattern!Unused.is = "unused"
    BY Bounds DEF Pattern!Unused, Pattern!NewRow, Pattern!Rows
<1>2. /\ \A p \in Patterns : pattern[p] = Pattern!Unused
      /\ \A d \in Deciders : decider[d].at = "idle"
      /\ pattern \in [Patterns -> Pattern!Rows] /\ decider \in [Deciders -> Pattern!DeciderType]
      /\ decided = [yes |-> 0, no |-> 0] /\ together = FALSE
    BY <1>1, DoneFacts DEF Pattern!PatternInit
<1>3. Pattern!PatternTypeOK
    BY <1>2 DEF Pattern!PatternTypeOK
<1>4. Pattern!There = {}
    BY <1>1, <1>2 DEF Pattern!There
<1>5. \A x : Pending(x) = {} /\ Said(x) = 0
    BY <1>2 DEF Pending, Said
<1>6. \A x \in Answers : Cardinality(Pending(x)) = 0 /\ Said(x) = 0
  <2>1. TAKE x \in Answers
  <2>2. Pending(x) = {}
      BY <1>5
  <2>3. QED BY <1>5, <2>2, FS_EmptySet
<1>7. \A x \in Answers : Counted(x) /\ Exact(x)
    BY <1>2, <1>4, <1>6 DEF Counted, Exact
<1>8. InTurn
    BY <1>2, <1>4, <1>7 DEF InTurn
<1>9. QED BY <1>3, <1>7, <1>8 DEF PatternInv
-----------------------------------------------------------------------------
(* The policy of an organization and its changes.                          *)

Columns == {"mode", "allow", "kill", "cap"}

LEMMA ConfigFacts ==
    ASSUME NEW c \in Policy!Configs
    PROVE  /\ DOMAIN c = Columns
           /\ c = [col \in Columns |-> c[col]]
           /\ c["mode"] \in Policy!Modes /\ c["allow"] \in BOOLEAN
           /\ c["kill"] \in BOOLEAN /\ c["cap"] \in Caps
           /\ Policy!Policy(c) \in Policy!Policies
BY DEF Policy!Configs, Columns, Policy!Policy, Policy!Policies

LEMMA ColumnsMakeConfig ==
    ASSUME NEW c, c = [col \in Columns |-> c[col]],
           c["mode"] \in Policy!Modes, c["allow"] \in BOOLEAN, c["kill"] \in BOOLEAN, c["cap"] \in Caps
    PROVE  c \in Policy!Configs
<1>1. c = [mode |-> c["mode"], allow |-> c["allow"], kill |-> c["kill"], cap |-> c["cap"]]
    BY DEF Columns
<1>2. QED BY <1>1 DEF Policy!Configs

LEMMA DefaultTyped == Policy!Default \in Policy!Configs
<1>1. (CHOOSE c \in Caps : \A d \in Caps : d <= c) \in Caps
    BY AutoApprovalAssumption
<1>2. QED BY <1>1 DEF Policy!Default, Policy!Configs, Policy!Modes

LEMMA MergedTyped ==
    ASSUME NEW c \in Policy!Configs, NEW d, NEW columns,
           \A col \in columns \cap Columns : \E e \in Policy!Configs : d[col] = e[col]
    PROVE  /\ Policy!Merged(c, d, columns) \in Policy!Configs
           /\ \A col \in Columns : Policy!Merged(c, d, columns)[col] =
                  IF col \in columns THEN d[col] ELSE c[col]
<1>1. PICK m : m = Policy!Merged(c, d, columns)
    OBVIOUS
<1>2. m = [col \in Columns |-> IF col \in columns THEN d[col] ELSE c[col]]
    BY <1>1, ConfigFacts DEF Policy!Merged
<1>3. \A col \in Columns : m[col] = IF col \in columns THEN d[col] ELSE c[col]
    BY <1>2
<1>4. \A col \in Columns : \E e \in Policy!Configs : m[col] = e[col]
    BY <1>3
<1>5. m["mode"] \in Policy!Modes /\ m["allow"] \in BOOLEAN /\ m["kill"] \in BOOLEAN /\ m["cap"] \in Caps
    BY <1>4, ConfigFacts DEF Columns
<1>6. m = [col \in Columns |-> m[col]]
    BY <1>2
<1>7. m \in Policy!Configs
    BY <1>5, <1>6, ColumnsMakeConfig
<1>8. QED BY <1>1, <1>3, <1>7

(* A request for a change has values for columns of its part.              *)
LEMMA ChangeFacts ==
    ASSUME NEW what, NEW u, Policy!IsChange(what, u)
    PROVE  /\ what \in {"policy", "rollout"} /\ DOMAIN u \subseteq Columns
           /\ what = "policy" => DOMAIN u \subseteq {"mode", "allow"}
           /\ what = "rollout" => DOMAIN u \subseteq {"kill", "cap"}
           /\ \A col \in DOMAIN u \cap Columns : \E e \in Policy!Configs : u[col] = e[col]
<1>1. /\ what \in {"policy", "rollout"}
      /\ DOMAIN u \subseteq (IF what = "policy" THEN {"mode", "allow"} ELSE {"kill", "cap"})
    BY DEF Policy!IsChange, Policy!PolicyPart, Policy!RolloutPart
<1>2. PICK m \in Policy!Configs : m = Policy!Merged(Policy!Default, u, DOMAIN u)
    BY DEF Policy!IsChange
<1>3. \A col \in DOMAIN u \cap Columns : m[col] = u[col]
    BY <1>2, DefaultTyped, ConfigFacts DEF Policy!Merged
<1>4. QED BY <1>1, <1>2, <1>3 DEF Columns

LEMMA VersionIsChange ==
    ASSUME NEW v \in Policy!Policies
    PROVE  Policy!IsChange("policy", v)
<1>1. DOMAIN v = {"mode", "allow"} /\ v["mode"] \in Policy!Modes /\ v["allow"] \in BOOLEAN
    BY DEF Policy!Policies
<1>2. \A col \in DOMAIN v \cap Columns : \E e \in Policy!Configs : v[col] = e[col]
  <2>1. PICK e : e = [Policy!Default EXCEPT !.mode = v["mode"], !.allow = v["allow"]]
      OBVIOUS
  <2>2. e \in Policy!Configs /\ e["mode"] = v["mode"] /\ e["allow"] = v["allow"]
      BY <1>1, <2>1, DefaultTyped DEF Policy!Configs
  <2>3. QED BY <1>1, <2>2
<1>3. Policy!Merged(Policy!Default, v, DOMAIN v) \in Policy!Configs
    BY <1>2, DefaultTyped, MergedTyped
<1>4. QED BY <1>1, <1>3 DEF Policy!IsChange, Policy!PolicyPart

AdminTyped ==
    /\ record \in Policy!Configs /\ legacy \in Policy!Configs
    /\ exists \in BOOLEAN /\ apart \subseteq {"version", "copy"}
    /\ versions \in Seq(Policy!Policies)
    /\ DOMAIN admin = Admins
    /\ \A a \in Admins : Policy!AdminOK(admin[a])
    /\ editor \in [Editors -> Policy!EditorType]

(* Without a row the policy is the default, and so is its copy.            *)
Loaded ==
    /\ ~exists => record = Policy!Default /\ legacy = Policy!Default
    /\ \A e \in Editors : ~exists /\ editor[e].at = "write" => editor[e].copy = Policy!Default
    /\ \A a \in Admins : admin[a].at = "sync" => exists

(* Where others have not changed them, the columns that a request has      *)
(* loaded, has not changed itself, or has written are as they are in the   *)
(* row.                                                                    *)
OwnColumns(r) ==
    /\ r.at \in {"rollout", "row", "write"} =>
           \A col \in Columns : col \notin DOMAIN r.updates /\ col \notin r.disturbed =>
               r.config[col] = record[col]
    /\ r.at = "write" /\ ~r.new =>
           \A col \in Columns : col \notin r.disturbed => r.base[col] = record[col]
    /\ r.at = "sync" =>
           \A col \in Columns : col \notin r.disturbed => r.config[col] = record[col]

LastVersion == versions # <<>> => versions[Len(versions)] = Policy!Policy(record)

(* An edit that is not stale writes back the copy that is there.           *)
CopyKept ==
    "copy" \notin apart =>
        /\ (\A a \in Admins : admin[a].at # "sync") => legacy = record
        /\ \A e \in Editors : editor[e].at = "write" /\ ~editor[e].stale => editor[e].copy = legacy

AdminPart ==
    /\ AdminTyped
    /\ Loaded
    /\ \A a \in Admins : OwnColumns(admin[a])
    /\ "version" \notin apart => LastVersion
    /\ CopyKept

LEMMA CurrentIsRecord ==
    ASSUME AdminPart
    PROVE  Policy!Current = record
BY DEF AdminPart, Loaded, Policy!Current

LEMMA AdminFacts ==
    ASSUME NEW r, Policy!AdminOK(r)
    PROVE  /\ r = [at |-> r.at, what |-> r.what, updates |-> r.updates, config |-> r.config,
                   base |-> r.base, new |-> r.new, disturbed |-> r.disturbed]
           /\ r.at \in {"idle", "rollout", "row", "write", "sync"}
           /\ r.config \in Policy!Configs /\ r.base \in Policy!Configs
           /\ r.new \in BOOLEAN /\ r.disturbed \subseteq Policy!PolicyPart \cup Policy!RolloutPart
           /\ Policy!IsChange(r.what, r.updates)
BY DEF Policy!AdminOK

LEMMA RestingFacts ==
    /\ Policy!AdminOK(Policy!Resting)
    /\ Policy!Resting.at = "idle" /\ Policy!Resting.disturbed = {}
    /\ Policy!Resting.config = Policy!Default /\ Policy!Resting.base = Policy!Default
    /\ Policy!Resting.new = FALSE
<1>1. PICK u : u = [mode |-> "suggest_only"]
    OBVIOUS
<1>2. DOMAIN u = {"mode"} /\ u["mode"] = "suggest_only"
    BY <1>1
<1>3. PICK e : e = [Policy!Default EXCEPT !.mode = "suggest_only"]
    OBVIOUS
<1>4. e \in Policy!Configs /\ e["mode"] = "suggest_only"
    BY <1>3, DefaultTyped DEF Policy!Configs, Policy!Modes
<1>5. \A col \in DOMAIN u \cap Columns : \E f \in Policy!Configs : u[col] = f[col]
    BY <1>2, <1>4
<1>6. Policy!Merged(Policy!Default, u, DOMAIN u) \in Policy!Configs
    BY <1>5, DefaultTyped, MergedTyped
<1>7. Policy!IsChange("policy", u)
    BY <1>2, <1>6 DEF Policy!IsChange, Policy!PolicyPart
<1>8. Policy!Resting = [at |-> "idle", what |-> "policy", updates |-> u, config |-> Policy!Default,
                        base |-> Policy!Default, new |-> FALSE, disturbed |-> {}]
    BY <1>1 DEF Policy!Resting
<1>9. QED BY <1>7, <1>8, DefaultTyped DEF Policy!AdminOK

(* A request goes on towards its write.                                    *)
LEMMA Proceeds ==
    ASSUME AdminPart, NEW a \in Admins, NEW r, Policy!AdminOK(r),
           r.at \in {"rollout", "row", "write"}, admin[a].at # "sync",
           admin' = [admin EXCEPT ![a] = r],
           UNCHANGED <<record, exists, versions, legacy, editor, apart>>,
           OwnColumns(r)
    PROVE  AdminPart'
<1>1. DOMAIN admin' = Admins /\ admin'[a] = r /\ \A b \in Admins \ {a} : admin'[b] = admin[b]
    BY DEF AdminPart, AdminTyped
<1>2. AdminTyped'
    BY <1>1 DEF AdminPart, AdminTyped
<1>3. Loaded'
    BY <1>1 DEF AdminPart, Loaded
<1>4. \A b \in Admins : OwnColumns(admin[b])'
    BY <1>1 DEF AdminPart, OwnColumns
<1>5. "version" \notin apart' => LastVersion'
    BY DEF AdminPart, LastVersion, Policy!Policy
<1>6. CopyKept'
    BY <1>1 DEF AdminPart, CopyKept
<1>7. QED BY <1>2, <1>3, <1>4, <1>5, <1>6 DEF AdminPart

(* A request ends, and if it has written, its copy is missing.             *)
LEMMA Rests ==
    ASSUME AdminPart, NEW a \in Admins, Policy!Change(a, Policy!Resting),
           UNCHANGED <<record, exists, versions, legacy, editor>>,
           apart' = IF admin[a].at = "sync" THEN apart \cup {"copy"} ELSE apart
    PROVE  AdminPart'
<1>1. /\ DOMAIN admin' = Admins /\ admin'[a] = Policy!Resting
      /\ \A b \in Admins \ {a} : admin'[b] = admin[b]
    BY DEF AdminPart, AdminTyped, Policy!Change
<1>2. AdminTyped'
    BY <1>1, RestingFacts DEF AdminPart, AdminTyped
<1>3. Loaded'
    BY <1>1, RestingFacts DEF AdminPart, Loaded
<1>4. \A b \in Admins : OwnColumns(admin[b])'
    BY <1>1, RestingFacts DEF AdminPart, OwnColumns
<1>5. "version" \notin apart' => LastVersion'
    BY DEF AdminPart, LastVersion, Policy!Policy
<1>6. CopyKept'
    BY <1>1 DEF AdminPart, CopyKept
<1>7. QED BY <1>2, <1>3, <1>4, <1>5, <1>6 DEF AdminPart

LEMMA BeginKeeps ==
    ASSUME AdminPart, NEW a \in Admins, NEW what, NEW u, Policy!IsChange(what, u),
           Policy!Begin(a, what, u)
    PROVE  AdminPart'
<1>1. PICK r : r = [Policy!Resting EXCEPT !.at = "rollout", !.what = what, !.updates = u,
                        !.config = Policy!Merged(Policy!Current, u, DOMAIN u)]
    OBVIOUS
<1>2. Policy!Current = record /\ record \in Policy!Configs
    BY CurrentIsRecord DEF AdminPart, AdminTyped
<1>3. PICK m : m = Policy!Merged(record, u, DOMAIN u)
    OBVIOUS
<1>4. m \in Policy!Configs /\ \A col \in Columns : m[col] = IF col \in DOMAIN u THEN u[col] ELSE record[col]
    BY <1>2, <1>3, ChangeFacts, MergedTyped
<1>5. r = [at |-> "rollout", what |-> what, updates |-> u, config |-> m,
           base |-> Policy!Default, new |-> FALSE, disturbed |-> {}]
    BY <1>1, <1>2, <1>3 DEF Policy!Resting
<1>6. Policy!AdminOK(r)
    BY <1>4, <1>5, DefaultTyped, ChangeFacts DEF Policy!AdminOK
<1>7. OwnColumns(r)
    BY <1>4, <1>5 DEF OwnColumns
<1>8. /\ admin[a].at = "idle" /\ admin' = [admin EXCEPT ![a] = r]
      /\ UNCHANGED <<record, exists, versions, legacy, editor, apart>>
    BY <1>1 DEF Policy!Begin, Policy!Change, Policy!Changing
<1>9. QED BY <1>5, <1>6, <1>7, <1>8, Proceeds

LEMMA ReadRolloutKeeps ==
    ASSUME AdminPart, NEW a \in Admins, Policy!ReadRollout(a)
    PROVE  AdminPart'
<1>1. PICK k : k = admin[a]
    OBVIOUS
<1>2. Policy!AdminOK(k) /\ k.at = "rollout" /\ OwnColumns(k)
    BY <1>1 DEF AdminPart, AdminTyped, Policy!ReadRollout
<1>3. Policy!Current = record /\ record \in Policy!Configs
    BY CurrentIsRecord DEF AdminPart, AdminTyped
<1>4. PICK l : l = Policy!Merged(k.config, record, {"kill", "cap"})
    OBVIOUS
<1>5. /\ l \in Policy!Configs
      /\ \A col \in Columns : l[col] = IF col \in {"kill", "cap"} THEN record[col] ELSE k.config[col]
    BY <1>2, <1>3, <1>4, AdminFacts, MergedTyped
<1>6. PICK m : m = Policy!Merged(l, k.updates, DOMAIN k.updates)
    OBVIOUS
<1>7. /\ m \in Policy!Configs
      /\ \A col \in Columns : m[col] = IF col \in DOMAIN k.updates THEN k.updates[col] ELSE l[col]
  <2>1. Policy!IsChange(k.what, k.updates)
      BY <1>2, AdminFacts
  <2>2. QED BY <1>5, <1>6, <2>1, ChangeFacts, MergedTyped
<1>8. PICK r : r = [k EXCEPT !.at = "row", !.config = m]
    OBVIOUS
<1>9. r = [at |-> "row", what |-> k.what, updates |-> k.updates, config |-> m,
           base |-> k.base, new |-> k.new, disturbed |-> k.disturbed]
  <2>1. k = [at |-> k.at, what |-> k.what, updates |-> k.updates, config |-> k.config,
             base |-> k.base, new |-> k.new, disturbed |-> k.disturbed]
      BY <1>2, AdminFacts
  <2>2. QED BY <2>1, <1>8
<1>10. Policy!AdminOK(r)
    BY <1>2, <1>7, <1>9, AdminFacts DEF Policy!AdminOK
<1>11. OwnColumns(r)
    BY <1>2, <1>5, <1>7, <1>9 DEF OwnColumns
<1>12. /\ admin' = [admin EXCEPT ![a] = r]
       /\ UNCHANGED <<record, exists, versions, legacy, editor, apart>>
    BY <1>1, <1>3, <1>4, <1>6, <1>8 DEF Policy!ReadRollout, Policy!Change, Policy!RolloutOf, Policy!RolloutPart
<1>13. QED BY <1>1, <1>2, <1>9, <1>10, <1>11, <1>12, Proceeds

LEMMA LoadRowKeeps ==
    ASSUME AdminPart, NEW a \in Admins, Policy!LoadRow(a)
    PROVE  AdminPart'
<1>1. PICK k : k = admin[a]
    OBVIOUS
<1>2. Policy!AdminOK(k) /\ k.at = "row" /\ OwnColumns(k)
    BY <1>1 DEF AdminPart, AdminTyped, Policy!LoadRow
<1>3. PICK r : r = [k EXCEPT !.at = "write", !.base = record, !.new = ~exists]
    OBVIOUS
<1>4. r = [at |-> "write", what |-> k.what, updates |-> k.updates, config |-> k.config,
           base |-> record, new |-> ~exists, disturbed |-> k.disturbed]
  <2>1. k = [at |-> k.at, what |-> k.what, updates |-> k.updates, config |-> k.config,
             base |-> k.base, new |-> k.new, disturbed |-> k.disturbed]
      BY <1>2, AdminFacts
  <2>2. QED BY <2>1, <1>3
<1>5. Policy!AdminOK(r)
    BY <1>2, <1>4, AdminFacts DEF Policy!AdminOK, AdminPart, AdminTyped
<1>6. OwnColumns(r)
    BY <1>2, <1>4 DEF OwnColumns
<1>7. /\ admin' = [admin EXCEPT ![a] = r]
      /\ UNCHANGED <<record, exists, versions, legacy, editor, apart>>
    BY <1>1, <1>3 DEF Policy!LoadRow, Policy!Change
<1>8. QED BY <1>1, <1>2, <1>4, <1>5, <1>6, <1>7, Proceeds

LEMMA FailToInsertKeeps ==
    ASSUME AdminPart, NEW a \in Admins, Policy!FailToInsert(a)
    PROVE  AdminPart'
BY Rests DEF Policy!FailToInsert

LEMMA LoseChangeKeeps ==
    ASSUME AdminPart, NEW a \in Admins, Policy!LoseChange(a)
    PROVE  AdminPart'
BY Rests DEF Policy!LoseChange

(* The copy is written: it is what is in force if nobody else has changed  *)
(* that since the request began.                                           *)
LEMMA SyncKeeps ==
    ASSUME AdminPart, NEW a \in Admins, Policy!Sync(a)
    PROVE  AdminPart'
<1>1. /\ DOMAIN admin' = Admins /\ admin'[a] = Policy!Resting
      /\ \A b \in Admins \ {a} : admin'[b] = admin[b]
      /\ admin[a].at = "sync" /\ legacy' = admin[a].config
      /\ UNCHANGED <<record, exists, versions>>
      /\ apart' = IF admin[a].disturbed = {} THEN apart \ {"copy"} ELSE apart \cup {"copy"}
    BY DEF AdminPart, AdminTyped, Policy!Change, Policy!Sync
<1>2. Policy!AdminOK(admin[a]) /\ admin[a].config \in Policy!Configs
    BY AdminFacts DEF AdminPart, AdminTyped
<1>3. ASSUME NEW e \in Editors
      PROVE  /\ editor'[e] \in Policy!EditorType
             /\ editor'[e].at = "write" => editor'[e].stale
  <2>1. PICK x : x = editor[e]
      OBVIOUS
  <2>2. x \in Policy!EditorType
      BY <1>3, <2>1 DEF AdminPart, AdminTyped
  <2>3. PICK y : y = [x EXCEPT !.stale = (x.at # "idle")]
      OBVIOUS
  <2>4. y = [at |-> x.at, copy |-> x.copy, stale |-> (x.at # "idle")]
      BY <2>2, <2>3 DEF Policy!EditorType
  <2>5. editor'[e] = y
      BY <1>3, <2>1, <2>3 DEF Policy!Sync
  <2>6. PICK s \in BOOLEAN : s = (x.at # "idle")
      OBVIOUS
  <2>7. y = [at |-> x.at, copy |-> x.copy, stale |-> s]
      BY <2>4, <2>6
  <2>8. y \in Policy!EditorType /\ y.at = x.at /\ y.stale = s
      BY <2>2, <2>7 DEF Policy!EditorType
  <2>9. y.at = "write" => y.stale
      BY <2>6, <2>8
  <2>10. QED BY <2>5, <2>8, <2>9
<1>4. AdminTyped'
  <2>1. editor' \in [Editors -> Policy!EditorType]
      BY <1>3 DEF Policy!Sync
  <2>2. QED BY <1>1, <1>2, <2>1, RestingFacts DEF AdminPart, AdminTyped
<1>5. Loaded'
    BY <1>1, RestingFacts DEF AdminPart, Loaded
<1>6. \A b \in Admins : OwnColumns(admin[b])'
    BY <1>1, RestingFacts DEF AdminPart, OwnColumns
<1>7. "version" \notin apart' => LastVersion'
    BY <1>1 DEF AdminPart, LastVersion, Policy!Policy
<1>8. ASSUME "copy" \notin apart' PROVE legacy' = record'
  <2>1. admin[a].disturbed = {} /\ OwnColumns(admin[a])
      BY <1>1, <1>8 DEF AdminPart
  <2>2. \A col \in Columns : admin[a].config[col] = record[col]
      BY <1>1, <2>1 DEF OwnColumns
  <2>3. /\ admin[a].config = [col \in Columns |-> admin[a].config[col]]
        /\ record = [col \in Columns |-> record[col]]
      BY <1>2, ConfigFacts DEF AdminPart, AdminTyped
  <2>4. QED BY <1>1, <2>2, <2>3
<1>9. CopyKept'
    BY <1>3, <1>8 DEF CopyKept
<1>10. QED BY <1>4, <1>5, <1>6, <1>7, <1>9 DEF AdminPart

(* Another part of the JSON is changed.                                    *)
LEMMA EditKeeps ==
    ASSUME AdminPart, NEW e \in Editors, Policy!ReadJson(e) \/ Policy!WriteJson(e)
    PROVE  AdminPart' /\ UNCHANGED <<record, executor, today, unchecked>>
<1>1. PICK x : x = editor[e]
    OBVIOUS
<1>2. x \in Policy!EditorType
    BY <1>1 DEF AdminPart, AdminTyped
<1>3. UNCHANGED <<record, exists, versions, admin, executor, today, unchecked>>
    BY DEF Policy!ReadJson, Policy!WriteJson
<1>4. PICK y : y = IF x.at = "idle" THEN [Policy!NoEdit EXCEPT !.at = "write", !.copy = legacy]
                   ELSE Policy!NoEdit
    OBVIOUS
<1>5. y = IF x.at = "idle" THEN [at |-> "write", copy |-> legacy, stale |-> FALSE]
          ELSE [at |-> "idle", copy |-> Policy!Default, stale |-> FALSE]
  <2>1. Policy!NoEdit = [at |-> "idle", copy |-> Policy!Default, stale |-> FALSE]
      BY DEF Policy!NoEdit
  <2>2. CASE x.at = "idle"
    <3>1. y = [Policy!NoEdit EXCEPT !.at = "write", !.copy = legacy]
        BY <1>4, <2>2
    <3>2. y = [at |-> "write", copy |-> legacy, stale |-> FALSE]
        BY <3>1 DEF Policy!NoEdit
    <3>3. QED BY <2>2, <3>2
  <2>3. CASE x.at # "idle"
    <3>1. y = Policy!NoEdit
        BY <1>4, <2>3
    <3>2. QED BY <2>1, <2>3, <3>1
  <2>4. QED BY <2>2, <2>3
<1>6. y \in Policy!EditorType
    BY <1>5, DefaultTyped DEF Policy!EditorType, AdminPart, AdminTyped
<1>7. editor' = [editor EXCEPT ![e] = y]
    BY <1>1, <1>4 DEF Policy!ReadJson, Policy!WriteJson
<1>8. /\ editor' \in [Editors -> Policy!EditorType]
      /\ editor'[e] = y /\ \A f \in Editors \ {e} : editor'[f] = editor[f]
    BY <1>6, <1>7 DEF AdminPart, AdminTyped
<1>9. /\ legacy' \in Policy!Configs /\ apart' \subseteq {"version", "copy"}
      /\ "version" \notin apart' => "version" \notin apart
  <2>1. x.copy \in Policy!Configs
      BY <1>2 DEF Policy!EditorType
  <2>2. legacy' = legacy \/ legacy' = x.copy
      BY <1>1 DEF Policy!ReadJson, Policy!WriteJson
  <2>3. apart' = apart \/ apart' = apart \cup {"copy"}
      BY DEF Policy!ReadJson, Policy!WriteJson
  <2>4. QED BY <2>1, <2>2, <2>3 DEF AdminPart, AdminTyped
<1>10. AdminTyped'
  <2>1. \A a \in Admins : Policy!AdminOK(admin[a])'
      BY <1>3 DEF AdminPart, AdminTyped, Policy!AdminOK
  <2>2. QED BY <1>3, <1>8, <1>9, <2>1 DEF AdminPart, AdminTyped
<1>11. Loaded'
  <2>1. ASSUME ~exists
        PROVE  /\ legacy' = Policy!Default
               /\ \A f \in Editors : editor'[f].at = "write" => editor'[f].copy = Policy!Default
    <3>1. legacy = Policy!Default
        BY <2>1 DEF AdminPart, Loaded
    <3>2. x.at = "write" => x.copy = Policy!Default
        BY <1>1, <2>1 DEF AdminPart, Loaded
    <3>3. legacy' = Policy!Default
        BY <1>1, <3>1, <3>2 DEF Policy!ReadJson, Policy!WriteJson
    <3>4. y.copy = Policy!Default
        BY <1>5, <3>1
    <3>5. QED BY <1>8, <2>1, <3>3, <3>4 DEF AdminPart, Loaded
  <2>2. QED BY <1>3, <2>1 DEF AdminPart, Loaded
<1>12. \A a \in Admins : OwnColumns(admin[a])'
    BY <1>3 DEF AdminPart, OwnColumns
<1>13. "version" \notin apart' => LastVersion'
    BY <1>3, <1>9 DEF AdminPart, LastVersion, Policy!Policy
<1>14. CopyKept'
  <2>1. SUFFICES ASSUME "copy" \notin apart' PROVE CopyKept'
      BY DEF CopyKept
  <2>2. CASE x.at = "idle"
    <3>1. legacy' = legacy /\ apart' = apart
        BY <1>1, <2>2 DEF Policy!ReadJson, Policy!WriteJson
    <3>2. y.copy = legacy
        BY <1>5, <2>2
    <3>3. QED BY <1>3, <1>8, <2>1, <3>1, <3>2 DEF AdminPart, CopyKept
  <2>3. CASE x.at # "idle"
    <3>1. x.at = "write" /\ legacy' = x.copy /\ ~x.stale /\ apart' = apart
        BY <1>1, <2>1, <2>3 DEF Policy!ReadJson, Policy!WriteJson
    <3>2. legacy' = legacy
        BY <1>1, <2>1, <3>1 DEF AdminPart, CopyKept
    <3>3. y.at = "idle"
        BY <1>5, <2>3
    <3>4. QED BY <1>3, <1>8, <2>1, <3>1, <3>2, <3>3 DEF AdminPart, CopyKept
  <2>4. QED BY <2>2, <2>3
<1>15. QED BY <1>3, <1>10, <1>11, <1>12, <1>13, <1>14 DEF AdminPart

(* The columns that are not as they were loaded are written.               *)
LEMMA FlushedFacts ==
    ASSUME AdminPart, NEW k, Policy!AdminOK(k)
    PROVE  /\ Policy!Flushed(k) \in Policy!Configs
           /\ \A col \in Columns : Policy!Flushed(k)[col] =
                  IF k.config[col] # k.base[col] THEN k.config[col] ELSE record[col]
<1>1. record \in Policy!Configs /\ k.config \in Policy!Configs
    BY AdminFacts DEF AdminPart, AdminTyped
<1>2. PICK m : m = Policy!Flushed(k)
    OBVIOUS
<1>3. m = [col \in Columns |-> IF k.config[col] # k.base[col] THEN k.config[col] ELSE record[col]]
    BY <1>1, <1>2, ConfigFacts DEF Policy!Flushed
<1>4. \A col \in Columns : m[col] = record[col] \/ m[col] = k.config[col]
    BY <1>3
<1>5. m["mode"] \in Policy!Modes /\ m["allow"] \in BOOLEAN /\ m["kill"] \in BOOLEAN /\ m["cap"] \in Caps
    BY <1>1, <1>4, ConfigFacts DEF Columns
<1>6. m = [col \in Columns |-> m[col]]
    BY <1>3
<1>7. m \in Policy!Configs
    BY <1>5, <1>6, ColumnsMakeConfig
<1>8. QED BY <1>2, <1>3, <1>7

(* The row that a change leaves behind.                                    *)
LEMMA WriteFacts ==
    ASSUME AdminPart, NEW a \in Admins, Policy!Write(a)
    PROVE  /\ Policy!AdminOK(admin[a]) /\ admin[a].at = "write"
           /\ record' \in Policy!Configs /\ exists' = TRUE
           /\ \A col \in Columns : record'[col] \in {record[col], admin[a].config[col]}
           /\ \A col \in Columns : col \notin admin[a].disturbed => record'[col] = admin[a].config[col]
           /\ versions' = IF admin[a].what = "policy" THEN Append(versions, Policy!Policy(admin[a].config))
                          ELSE versions
           /\ admin' = [b \in Admins |-> IF b = a THEN [admin[a] EXCEPT !.at = "sync"]
                                         ELSE Policy!Disturbed(admin[b], Policy!Differing(record'))]
           /\ apart' = IF admin[a].disturbed \cap Policy!PolicyPart # {} THEN apart \cup {"version"}
                       ELSE IF admin[a].what = "policy" THEN apart \ {"version"} ELSE apart
           /\ Policy!Turned(record')
           /\ UNCHANGED <<legacy, editor, today, unchecked>>
<1>1. PICK k : k = admin[a]
    OBVIOUS
<1>2. Policy!AdminOK(k) /\ k.at = "write" /\ OwnColumns(k)
    BY <1>1 DEF AdminPart, AdminTyped, Policy!Write
<1>3. k.config \in Policy!Configs
    BY <1>2, AdminFacts
<1>4. \/ k.new /\ ~exists /\ Policy!Commit(a, k.config)
      \/ ~k.new /\ Policy!Commit(a, Policy!Flushed(k))
    BY <1>1 DEF Policy!Write
<1>5. PICK c : /\ c = k.config \/ (~k.new /\ c = Policy!Flushed(k))
               /\ Policy!Commit(a, c)
    BY <1>4
<1>6. c \in Policy!Configs /\ \A col \in Columns : c[col] \in {record[col], k.config[col]}
    BY <1>2, <1>3, <1>5, FlushedFacts
<1>7. ASSUME NEW col \in Columns, col \notin k.disturbed PROVE c[col] = k.config[col]
  <2>1. CASE ~k.new /\ c = Policy!Flushed(k)
    <3>1. k.base[col] = record[col]
        BY <1>2, <1>7, <2>1 DEF OwnColumns
    <3>2. QED BY <1>2, <1>7, <2>1, <3>1, FlushedFacts
  <2>2. QED BY <1>5, <2>1
<1>8. /\ record' = c /\ exists' = TRUE /\ Policy!Turned(c)
      /\ UNCHANGED <<legacy, editor, today, unchecked>>
      /\ versions' = IF k.what = "policy" THEN Append(versions, Policy!Policy(k.config)) ELSE versions
      /\ admin' = [b \in Admins |-> IF b = a THEN [k EXCEPT !.at = "sync"]
                                    ELSE Policy!Disturbed(admin[b], Policy!Differing(c))]
      /\ apart' = IF k.disturbed \cap Policy!PolicyPart # {} THEN apart \cup {"version"}
                  ELSE IF k.what = "policy" THEN apart \ {"version"} ELSE apart
    BY <1>1, <1>5 DEF Policy!Commit, Policy!Version
<1>9. QED BY <1>1, <1>2, <1>6, <1>7, <1>8

(* What becomes of the other requests.                                     *)
LEMMA OthersDisturbed ==
    ASSUME AdminPart, NEW a \in Admins, Policy!Write(a), NEW b \in Admins \ {a}
    PROVE  /\ Policy!AdminOK(admin'[b])
           /\ admin'[b].at = admin[b].at /\ admin'[b].updates = admin[b].updates
           /\ admin'[b].config = admin[b].config /\ admin'[b].base = admin[b].base
           /\ admin'[b].new = admin[b].new
           /\ admin[b].at # "idle" =>
                  /\ admin[b].disturbed \subseteq admin'[b].disturbed
                  /\ \A col \in Columns : col \notin admin'[b].disturbed => record'[col] = record[col]
<1>1. PICK o : o = admin[b]
    OBVIOUS
<1>2. Policy!AdminOK(o)
    BY <1>1 DEF AdminPart, AdminTyped
<1>3. o = [at |-> o.at, what |-> o.what, updates |-> o.updates, config |-> o.config,
           base |-> o.base, new |-> o.new, disturbed |-> o.disturbed]
    BY <1>2, AdminFacts
<1>4. DOMAIN record = Columns
    BY ConfigFacts DEF AdminPart, AdminTyped
<1>5. PICK D : D = {col \in Columns : record'[col] # record[col]}
    OBVIOUS
<1>6. Policy!Differing(record') = D
    BY <1>4, <1>5 DEF Policy!Differing
<1>7. PICK E : E = IF o.at = "idle" THEN {} ELSE o.disturbed \cup D
    OBVIOUS
<1>8. E \subseteq Policy!PolicyPart \cup Policy!RolloutPart
    BY <1>2, <1>5, <1>7, AdminFacts DEF Columns, Policy!PolicyPart, Policy!RolloutPart
<1>9. PICK p : p = [o EXCEPT !.disturbed = E]
    OBVIOUS
<1>10. p = [at |-> o.at, what |-> o.what, updates |-> o.updates, config |-> o.config,
            base |-> o.base, new |-> o.new, disturbed |-> E]
    BY <1>3, <1>9
<1>11. Policy!AdminOK(p)
    BY <1>2, <1>8, <1>10, AdminFacts DEF Policy!AdminOK
<1>12. admin'[b] = p
  <2>1. admin'[b] = Policy!Disturbed(o, D)
      BY <1>1, <1>6, WriteFacts
  <2>2. QED BY <1>7, <1>9, <2>1 DEF Policy!Disturbed
<1>13. QED BY <1>1, <1>5, <1>7, <1>10, <1>11, <1>12

LEMMA WriteKeepsPolicy ==
    ASSUME AdminPart, NEW a \in Admins, Policy!Write(a)
    PROVE  AdminPart'
<1>1. PICK k : k = admin[a]
    OBVIOUS
<1>2. /\ Policy!AdminOK(k) /\ k.at = "write"
      /\ record' \in Policy!Configs /\ exists' = TRUE
      /\ \A col \in Columns : col \notin k.disturbed => record'[col] = k.config[col]
      /\ versions' = IF k.what = "policy" THEN Append(versions, Policy!Policy(k.config)) ELSE versions
      /\ admin' = [b \in Admins |-> IF b = a THEN [k EXCEPT !.at = "sync"]
                                    ELSE Policy!Disturbed(admin[b], Policy!Differing(record'))]
      /\ apart' = IF k.disturbed \cap Policy!PolicyPart # {} THEN apart \cup {"version"}
                  ELSE IF k.what = "policy" THEN apart \ {"version"} ELSE apart
      /\ UNCHANGED <<legacy, editor>>
    BY <1>1, WriteFacts
<1>3. k.config \in Policy!Configs /\ Policy!Policy(k.config) \in Policy!Policies
    BY <1>2, AdminFacts, ConfigFacts
<1>4. k = [at |-> k.at, what |-> k.what, updates |-> k.updates, config |-> k.config,
           base |-> k.base, new |-> k.new, disturbed |-> k.disturbed]
    BY <1>2, AdminFacts
<1>5. PICK r : r = [k EXCEPT !.at = "sync"]
    OBVIOUS
<1>6. r = [at |-> "sync", what |-> k.what, updates |-> k.updates, config |-> k.config,
           base |-> k.base, new |-> k.new, disturbed |-> k.disturbed]
    BY <1>4, <1>5
<1>7. Policy!AdminOK(r)
    BY <1>2, <1>6, AdminFacts DEF Policy!AdminOK
<1>8. DOMAIN admin' = Admins /\ admin'[a] = r
    BY <1>2, <1>5
<1>9. AdminTyped'
  <2>1. versions' \in Seq(Policy!Policies)
      BY <1>2, <1>3 DEF AdminPart, AdminTyped
  <2>2. \A b \in Admins : Policy!AdminOK(admin'[b])
      BY <1>7, <1>8, OthersDisturbed
  <2>3. \A b \in Admins : Policy!AdminOK(admin[b])'
      BY <2>2 DEF Policy!AdminOK, Policy!Configs, Policy!IsChange, Policy!Merged, Policy!Default
  <2>4. apart' \subseteq {"version", "copy"}
      BY <1>2 DEF AdminPart, AdminTyped
  <2>5. QED BY <1>2, <1>8, <2>1, <2>3, <2>4 DEF AdminPart, AdminTyped
<1>10. Loaded'
    BY <1>2 DEF Loaded
<1>11. \A b \in Admins : OwnColumns(admin[b])'
  <2>1. OwnColumns(admin[a])'
      BY <1>2, <1>6, <1>8 DEF OwnColumns
  <2>2. ASSUME NEW b \in Admins \ {a} PROVE OwnColumns(admin[b])'
    <3>1. /\ admin'[b].at = admin[b].at /\ admin'[b].updates = admin[b].updates
          /\ admin'[b].config = admin[b].config /\ admin'[b].base = admin[b].base
          /\ admin'[b].new = admin[b].new
          /\ admin[b].at # "idle" =>
                 /\ admin[b].disturbed \subseteq admin'[b].disturbed
                 /\ \A col \in Columns : col \notin admin'[b].disturbed => record'[col] = record[col]
        BY <2>2, OthersDisturbed
    <3>2. OwnColumns(admin[b])
        BY DEF AdminPart
    <3>3. CASE admin[b].at = "idle"
        BY <3>1, <3>3 DEF OwnColumns
    <3>4. CASE admin[b].at # "idle"
        BY <3>1, <3>2, <3>4 DEF OwnColumns
    <3>5. QED BY <3>3, <3>4
  <2>3. QED BY <2>1, <2>2
<1>12. ASSUME "version" \notin apart' PROVE LastVersion'
  <2>1. "mode" \notin k.disturbed /\ "allow" \notin k.disturbed
      BY <1>2, <1>12 DEF Policy!PolicyPart
  <2>2. record'["mode"] = k.config["mode"] /\ record'["allow"] = k.config["allow"]
      BY <1>2, <2>1 DEF Columns
  <2>3. Policy!Policy(record)' = Policy!Policy(k.config)
      BY <2>2 DEF Policy!Policy
  <2>4. CASE k.what = "policy"
    <3>1. versions' = Append(versions, Policy!Policy(k.config))
        BY <1>2, <2>4
    <3>2. versions'[Len(versions')] = Policy!Policy(k.config)
        BY <3>1, <1>3 DEF AdminPart, AdminTyped
    <3>3. QED BY <2>3, <3>2 DEF LastVersion
  <2>5. CASE k.what # "policy"
    <3>1. Policy!IsChange(k.what, k.updates) /\ OwnColumns(k)
        BY <1>1, <1>2, AdminFacts DEF AdminPart
    <3>2. DOMAIN k.updates \subseteq {"kill", "cap"}
        BY <2>5, <3>1, ChangeFacts
    <3>3. k.config["mode"] = record["mode"] /\ k.config["allow"] = record["allow"]
        BY <1>2, <2>1, <3>1, <3>2 DEF OwnColumns, Columns
    <3>4. Policy!Policy(record)' = Policy!Policy(record)
        BY <2>2, <3>3 DEF Policy!Policy
    <3>5. versions' = versions /\ LastVersion
        BY <1>2, <1>12, <2>5 DEF AdminPart
    <3>6. QED BY <3>4, <3>5 DEF LastVersion
  <2>6. QED BY <2>4, <2>5
<1>13. CopyKept'
  <2>1. "copy" \notin apart' => "copy" \notin apart
      BY <1>2
  <2>2. admin'[a].at = "sync"
      BY <1>6, <1>8
  <2>3. QED BY <1>2, <2>1, <2>2 DEF AdminPart, CopyKept
<1>14. QED BY <1>9, <1>10, <1>11, <1>12, <1>13 DEF AdminPart

(* A change gives another value to its own columns only, and to those that *)
(* were changed since it began.                                            *)
LEMMA WritesOwn ==
    ASSUME AdminPart, NEW a \in Admins, Policy!Write(a)
    PROVE  Policy!Differing(record') \subseteq DOMAIN admin[a].updates \cup admin[a].disturbed
<1>1. /\ admin[a].at = "write" /\ \A col \in Columns : record'[col] \in {record[col], admin[a].config[col]}
    BY WriteFacts
<1>2. OwnColumns(admin[a])
    BY DEF AdminPart
<1>3. DOMAIN record = Columns
    BY ConfigFacts DEF AdminPart, AdminTyped
<1>4. QED BY <1>1, <1>2, <1>3 DEF Policy!Differing, OwnColumns
-----------------------------------------------------------------------------
(* Executions.                                                             *)

(* What an execution has seen of the kill switch.                          *)
SwitchSeen(r) ==
    /\ r \in Policy!ExecutorType
    /\ r.at = "idle" => r.round = 1
    /\ r.at = "rollout" => record.kill \/ r.off[r.round]
    /\ r.at \in {"count", "mode"} => r.off[r.round]
    /\ r.round = 2 => r.off[1]
    /\ r.at = "start" => r.round = 2 /\ (r.off[2] \/ r.blind)

(* Those that have been found below the cap by the endpoint: each of them  *)
(* may still start, so there is room for it.                               *)
Clear(r) == r.at = "mode" \/ r.round = 2

Cleared == {w \in Executors : Clear(executor[w])}

RoomLeft ==
    \A c \in Caps : (\A d \in Caps : d <= c) =>
        today + Cardinality(Cleared) + 1 <= c + Cardinality(Executors) + unchecked

ExecutorPart ==
    /\ executor \in [Executors -> Policy!ExecutorType]
    /\ {today, unchecked} \subseteq Nat
    /\ \A w \in Executors : SwitchSeen(executor[w])
    /\ RoomLeft

LEMMA ClearedFinite ==
    /\ IsFiniteSet(Cleared) /\ Cardinality(Cleared) \in Nat
    /\ Cardinality(Executors) \in Nat
    /\ Cardinality(Cleared) <= Cardinality(Executors)
    /\ Executors # Cleared => Cardinality(Cleared) + 1 <= Cardinality(Executors)
<1>1. IsFiniteSet(Executors) /\ Cardinality(Executors) \in Nat
    BY Bounds, FS_CardinalityType
<1>2. Cleared \subseteq Executors
    BY DEF Cleared
<1>3. /\ IsFiniteSet(Cleared) /\ Cardinality(Cleared) <= Cardinality(Executors)
      /\ Cardinality(Cleared) = Cardinality(Executors) => Cleared = Executors
    BY <1>1, <1>2, FS_Subset
<1>4. Cardinality(Cleared) \in Nat
    BY <1>3, FS_CardinalityType
<1>5. QED BY <1>1, <1>3, <1>4

(* An execution goes on, or ends.                                          *)
LEMMA ExecutorMoves ==
    ASSUME ExecutorPart, NEW w \in Executors, NEW r, SwitchSeen(r),
           executor' = [executor EXCEPT ![w] = r], record' = record, today' \in Nat,
           unchecked' = unchecked,
           \/ /\ today' = today
              /\ Clear(r) => Clear(executor[w]) \/ \E d \in Caps : today < d
           \/ today' = today + 1 /\ Clear(executor[w]) /\ ~Clear(r)
    PROVE  ExecutorPart'
<1>1. r \in Policy!ExecutorType
    BY DEF SwitchSeen
<1>2. executor' \in [Executors -> Policy!ExecutorType]
    BY <1>1 DEF ExecutorPart
<1>3. executor'[w] = r /\ \A v \in Executors \ {w} : executor'[v] = executor[v]
    BY DEF ExecutorPart
<1>4. \A v \in Executors : SwitchSeen(executor[v])'
  <2>1. SwitchSeen(executor[w])'
      BY <1>3 DEF SwitchSeen, Policy!ExecutorType
  <2>2. ASSUME NEW v \in Executors \ {w} PROVE SwitchSeen(executor[v])'
      BY <1>3 DEF ExecutorPart, SwitchSeen, Policy!ExecutorType
  <2>3. QED BY <2>1, <2>2
<1>5. Cleared' = IF Clear(r) THEN Cleared \cup {w} ELSE Cleared \ {w}
    BY <1>3 DEF Cleared, Clear
<1>6. PICK n : n = Cardinality(Cleared)
    OBVIOUS
<1>7. PICK m : m = Cardinality(Cleared)'
    OBVIOUS
<1>8. /\ n \in Nat /\ Cardinality(Executors) \in Nat /\ n <= Cardinality(Executors)
      /\ Cleared # Executors => n + 1 <= Cardinality(Executors)
    BY <1>6, ClearedFinite
<1>9. w \in Cleared <=> Clear(executor[w])
    BY DEF Cleared
<1>10. m = IF Clear(r) THEN IF Clear(executor[w]) THEN n ELSE n + 1
           ELSE IF Clear(executor[w]) THEN n - 1 ELSE n
  <2>1. Cardinality(Cleared \cup {w}) = IF w \in Cleared THEN n ELSE n + 1
      BY <1>6, ClearedFinite, FS_AddElement
  <2>2. Cardinality(Cleared \ {w}) = IF w \in Cleared THEN n - 1 ELSE n
      BY <1>6, ClearedFinite, FS_RemoveElement
  <2>3. QED BY <1>5, <1>7, <1>9, <2>1, <2>2
<1>11. ASSUME NEW c \in Caps, \A d \in Caps : d <= c
       PROVE  today' + m + 1 <= c + Cardinality(Executors) + unchecked'
  <2>1. /\ today + n + 1 <= c + Cardinality(Executors) + unchecked
        /\ today \in Nat /\ unchecked \in Nat /\ unchecked' = unchecked
      BY <1>6, <1>11 DEF ExecutorPart, RoomLeft
  <2>2. c \in Nat /\ \A d \in Caps : d \in Nat
      BY <1>11, Bounds
  <2>3. CASE Clear(r) /\ ~Clear(executor[w])
    <3>1. PICK d \in Caps : today < d
        BY <2>3
    <3>2. d \in Nat /\ d <= c
        BY <1>11, <2>2, <3>1
    <3>3. n + 1 <= Cardinality(Executors)
        BY <1>8, <1>9, <2>3
    <3>4. QED BY <1>8, <1>10, <2>1, <2>2, <2>3, <3>1, <3>2, <3>3
  <2>4. CASE ~(Clear(r) /\ ~Clear(executor[w]))
      BY <1>8, <1>10, <2>1, <2>2, <2>4
  <2>5. QED BY <2>3, <2>4
<1>12. RoomLeft'
    BY <1>7, <1>11 DEF RoomLeft
<1>13. {today', unchecked'} \subseteq Nat
    BY DEF ExecutorPart
<1>14. QED BY <1>2, <1>4, <1>12, <1>13 DEF ExecutorPart

LEMMA WaitingFacts ==
    /\ SwitchSeen(Policy!Waiting) /\ ~Clear(Policy!Waiting)
    /\ Policy!Waiting.at = "idle" /\ Policy!Waiting.round = 1
BY Bounds DEF SwitchSeen, Clear, Policy!Waiting, Policy!ExecutorType

(* What becomes of an execution when it is checked once more.              *)
LEMMA CheckedFacts ==
    ASSUME AdminPart, NEW e \in Policy!ExecutorType, NEW round \in 1..2,
           round = 2 => e.round = 1 /\ e.off[1]
    PROVE  /\ SwitchSeen(Policy!Checked(e, round))
           /\ Policy!Checked(e, round).at = "rollout"
           /\ Policy!Checked(e, round).round = round
<1>1. Policy!Current = record /\ record.kill \in BOOLEAN
    BY CurrentIsRecord DEF AdminPart, AdminTyped, Policy!Configs
<1>2. PICK f : f = [e.off EXCEPT ![round] = ~record.kill]
    OBVIOUS
<1>3. /\ f \in [1..2 -> BOOLEAN] /\ f[round] = ~record.kill
      /\ round = 2 => f[1] = e.off[1]
    BY <1>1, <1>2 DEF Policy!ExecutorType
<1>4. PICK r : r = Policy!Checked(e, round)
    OBVIOUS
<1>5. r = [at |-> "rollout", round |-> round, cap |-> e.cap, off |-> f, blind |-> e.blind]
    BY <1>1, <1>2, <1>4 DEF Policy!Checked, Policy!ExecutorType
<1>6. r \in Policy!ExecutorType
    BY <1>3, <1>5 DEF Policy!ExecutorType
<1>7. SwitchSeen(r)
    BY <1>3, <1>5, <1>6 DEF SwitchSeen
<1>8. QED BY <1>4, <1>5, <1>7
LEMMA ExecutesKeeps ==
    ASSUME AdminPart, ExecutorPart, NEW w \in Executors, Executes(w)
    PROVE  ExecutorPart'
<1>1. PICK k : k = executor[w]
    OBVIOUS
<1>2. k \in Policy!ExecutorType /\ SwitchSeen(k)
    BY <1>1 DEF ExecutorPart
<1>3. Policy!Current = record /\ record \in Policy!Configs
    BY CurrentIsRecord DEF AdminPart, AdminTyped
<1>4. today \in Nat
    BY DEF ExecutorPart
<1>5. ASSUME Policy!Denied(w) PROVE ExecutorPart'
    BY <1>4, <1>5, WaitingFacts, ExecutorMoves DEF Policy!Denied, Policy!Move
<1>6. CASE Policy!Approve(w)
  <2>1. PICK r : r = Policy!Checked(Policy!Waiting, 1)
      OBVIOUS
  <2>2. Policy!Waiting \in Policy!ExecutorType
      BY WaitingFacts DEF SwitchSeen
  <2>3. SwitchSeen(r) /\ r.at = "rollout" /\ r.round = 1
      BY <2>1, <2>2, CheckedFacts
  <2>4. executor' = [executor EXCEPT ![w] = r] /\ UNCHANGED <<record, today, unchecked>>
      BY <1>6, <2>1 DEF Policy!Approve, Policy!Move
  <2>5. ~Clear(r)
      BY <2>3 DEF Clear
  <2>6. QED BY <1>4, <2>3, <2>4, <2>5, ExecutorMoves
<1>7. CASE Policy!ReadSwitch(w)
  <2>1. CASE ~record.kill
    <3>1. PICK r : r = [k EXCEPT !.at = "count", !.cap = record.cap]
        OBVIOUS
    <3>2. /\ r \in Policy!ExecutorType /\ r.at = "count" /\ r.round = k.round
          /\ r.off = k.off /\ r.blind = k.blind
        BY <1>2, <1>3, <3>1 DEF Policy!ExecutorType, Policy!Configs
    <3>3. k.at = "rollout"
        BY <1>1, <1>7 DEF Policy!ReadSwitch
    <3>4. SwitchSeen(r)
        BY <1>2, <2>1, <3>2, <3>3 DEF SwitchSeen
    <3>5. executor' = [executor EXCEPT ![w] = r] /\ UNCHANGED <<record, today, unchecked>>
        BY <1>1, <1>3, <1>7, <2>1, <3>1 DEF Policy!ReadSwitch, Policy!KillSwitchSeen, Policy!Move
    <3>6. Clear(r) => Clear(executor[w])
        BY <1>1, <3>2 DEF Clear
    <3>7. QED BY <1>4, <3>4, <3>5, <3>6, ExecutorMoves
  <2>2. CASE record.kill
    <3>1. Policy!Denied(w)
        BY <1>3, <1>7, <2>2 DEF Policy!ReadSwitch, Policy!KillSwitchSeen
    <3>2. QED BY <1>5, <3>1
  <2>3. QED BY <2>1, <2>2
<1>8. CASE Policy!CountActions(w)
  <2>1. CASE ~(today >= k.cap)
    <3>1. PICK r : r = [k EXCEPT !.at = "mode"]
        OBVIOUS
    <3>2. /\ r \in Policy!ExecutorType /\ r.at = "mode" /\ r.round = k.round
          /\ r.off = k.off /\ r.blind = k.blind
        BY <1>2, <3>1 DEF Policy!ExecutorType
    <3>3. k.at = "count"
        BY <1>1, <1>8 DEF Policy!CountActions
    <3>4. SwitchSeen(r)
        BY <1>2, <3>2, <3>3 DEF SwitchSeen
    <3>5. executor' = [executor EXCEPT ![w] = r] /\ UNCHANGED <<record, today, unchecked>>
        BY <1>1, <1>8, <2>1, <3>1 DEF Policy!CountActions, Policy!CapReached, Policy!Move
    <3>6. k.cap \in Caps
        BY <1>2 DEF Policy!ExecutorType
    <3>7. k.cap \in Nat
        BY <3>6, Bounds
    <3>8. today < k.cap
        BY <1>4, <2>1, <3>7
    <3>9. QED BY <1>4, <3>4, <3>5, <3>6, <3>8, ExecutorMoves
  <2>2. CASE today >= k.cap
    <3>1. Policy!Denied(w)
        BY <1>1, <1>8, <2>2 DEF Policy!CountActions, Policy!CapReached
    <3>2. QED BY <1>5, <3>1
  <2>3. QED BY <2>1, <2>2
<1>9. CASE Policy!ReadMode(w)
  <2>1. k.at = "mode" /\ k.round \in 1..2
      BY <1>1, <1>2, <1>9 DEF Policy!ReadMode, Policy!ExecutorType
  <2>2. k.off[k.round] /\ Clear(executor[w])
      BY <1>1, <1>2, <2>1 DEF SwitchSeen, Clear
  <2>3. CASE record.mode = "suggest_only"
    <3>1. Policy!Denied(w)
        BY <1>3, <1>9, <2>3 DEF Policy!ReadMode
    <3>2. QED BY <1>5, <3>1
  <2>4. CASE record.mode # "suggest_only" /\ k.round = 1
    <3>1. PICK r : r = Policy!Checked(k, 2)
        OBVIOUS
    <3>2. SwitchSeen(r)
        BY <1>2, <2>2, <2>4, <3>1, CheckedFacts
    <3>3. executor' = [executor EXCEPT ![w] = r] /\ UNCHANGED <<record, today, unchecked>>
        BY <1>1, <1>3, <1>9, <2>4, <3>1 DEF Policy!ReadMode, Policy!Move
    <3>4. QED BY <1>4, <2>2, <3>2, <3>3, ExecutorMoves
  <2>5. CASE record.mode # "suggest_only" /\ k.round # 1
    <3>1. PICK r : r = [k EXCEPT !.at = "start"]
        OBVIOUS
    <3>2. /\ r \in Policy!ExecutorType /\ r.at = "start" /\ r.round = k.round
          /\ r.off = k.off /\ r.blind = k.blind
        BY <1>2, <3>1 DEF Policy!ExecutorType
    <3>3. k.round = 2
        BY <2>1, <2>5
    <3>4. SwitchSeen(r)
        BY <1>2, <2>2, <3>2, <3>3 DEF SwitchSeen
    <3>5. executor' = [executor EXCEPT ![w] = r] /\ UNCHANGED <<record, today, unchecked>>
        BY <1>1, <1>3, <1>9, <2>5, <3>1 DEF Policy!ReadMode, Policy!Move
    <3>6. QED BY <1>4, <2>2, <3>4, <3>5, ExecutorMoves
  <2>6. QED BY <2>3, <2>4, <2>5
<1>10. CASE Policy!FailLookup(w)
  <2>1. PICK r : r = [k EXCEPT !.at = "start", !.blind = TRUE]
      OBVIOUS
  <2>2. /\ r \in Policy!ExecutorType /\ r.at = "start" /\ r.round = k.round
        /\ r.off = k.off /\ r.blind = TRUE
      BY <1>2, <2>1 DEF Policy!ExecutorType
  <2>3. k.round = 2
      BY <1>1, <1>10 DEF Policy!FailLookup
  <2>4. SwitchSeen(r) /\ Clear(executor[w])
      BY <1>1, <1>2, <2>2, <2>3 DEF SwitchSeen, Clear
  <2>5. executor' = [executor EXCEPT ![w] = r] /\ UNCHANGED <<record, today, unchecked>>
      BY <1>1, <1>10, <2>1 DEF Policy!FailLookup, Policy!Move
  <2>6. QED BY <1>4, <2>4, <2>5, ExecutorMoves
<1>11. CASE Policy!Start(w)
  <2>1. k.at = "start" /\ k.round = 2
      BY <1>1, <1>2, <1>11 DEF Policy!Start, SwitchSeen
  <2>2. Clear(executor[w])
      BY <1>1, <2>1 DEF Clear
  <2>3. /\ executor' = [executor EXCEPT ![w] = Policy!Waiting]
        /\ UNCHANGED <<record, unchecked>> /\ today' = today + 1
      BY <1>11 DEF Policy!Start, Policy!Move
  <2>4. SwitchSeen(Policy!Waiting) /\ ~Clear(Policy!Waiting) /\ today' \in Nat
      BY <1>4, <2>3, WaitingFacts
  <2>5. QED BY <2>2, <2>3, <2>4, ExecutorMoves
<1>12. QED BY <1>6, <1>7, <1>8, <1>9, <1>10, <1>11 DEF Executes

LEMMA MidnightKeeps ==
    ASSUME ExecutorPart, Policy!Midnight
    PROVE  ExecutorPart'
<1>1. UNCHANGED <<record, executor>> /\ today' = 0 /\ unchecked' = 0
    BY DEF Policy!Midnight
<1>2. Cleared' = Cleared
    BY <1>1 DEF Cleared
<1>3. PICK n : n = Cardinality(Cleared)
    OBVIOUS
<1>4. PICK m : m = Cardinality(Cleared)'
    OBVIOUS
<1>5. m = n /\ n \in Nat /\ Cardinality(Executors) \in Nat /\ n <= Cardinality(Executors)
    BY <1>2, <1>3, <1>4, ClearedFinite
<1>6. \A c \in Caps : c \in Nat /\ c # 0
    BY Bounds
<1>7. \A c \in Caps : 0 + m + 1 <= c + Cardinality(Executors) + 0
    BY <1>5, <1>6
<1>8. RoomLeft'
    BY <1>1, <1>4, <1>7 DEF RoomLeft
<1>9. QED BY <1>1, <1>8 DEF ExecutorPart, SwitchSeen

(* The execution of a workflow step takes nobody's room.                   *)
LEMMA StartStepKeeps ==
    ASSUME ExecutorPart, Policy!StartStep
    PROVE  ExecutorPart'
<1>1. UNCHANGED <<record, executor>> /\ today' = today + 1 /\ unchecked' = unchecked + 1
    BY DEF Policy!StartStep
<1>2. Cleared' = Cleared
    BY <1>1 DEF Cleared
<1>3. PICK n : n = Cardinality(Cleared)
    OBVIOUS
<1>4. PICK m : m = Cardinality(Cleared)'
    OBVIOUS
<1>5. m = n /\ n \in Nat /\ Cardinality(Executors) \in Nat /\ today \in Nat /\ unchecked \in Nat
    BY <1>2, <1>3, <1>4, ClearedFinite DEF ExecutorPart
<1>6. ASSUME NEW c \in Caps, \A d \in Caps : d <= c
      PROVE  today' + m + 1 <= c + Cardinality(Executors) + unchecked'
  <2>1. today + n + 1 <= c + Cardinality(Executors) + unchecked
      BY <1>3, <1>6 DEF ExecutorPart, RoomLeft
  <2>2. c \in Nat
      BY Bounds
  <2>3. QED BY <1>1, <1>5, <2>1, <2>2
<1>7. RoomLeft'
    BY <1>4, <1>6 DEF RoomLeft
<1>8. QED BY <1>1, <1>5, <1>7 DEF ExecutorPart, SwitchSeen

(* When a change is written, the executions that are under way may have    *)
(* seen the switch off.                                                    *)
LEMMA TurnedKeeps ==
    ASSUME ExecutorPart, record' \in Policy!Configs, Policy!Turned(record'),
           UNCHANGED <<today, unchecked>>
    PROVE  ExecutorPart'
<1>1. ASSUME NEW w \in Executors
      PROVE  /\ SwitchSeen(executor[w])' /\ executor'[w] \in Policy!ExecutorType
             /\ Clear(executor[w])' = Clear(executor[w])
  <2>1. PICK k : k = executor[w]
      OBVIOUS
  <2>2. k \in Policy!ExecutorType /\ SwitchSeen(k)
      BY <2>1 DEF ExecutorPart
  <2>3. PICK kill : kill = record'.kill
      OBVIOUS
  <2>4. kill \in BOOLEAN
      BY <2>3 DEF Policy!Configs
  <2>5. PICK r : r = [k EXCEPT !.off = IF kill THEN k.off ELSE [n \in 1..2 |-> TRUE]]
      OBVIOUS
  <2>6. /\ r \in Policy!ExecutorType /\ r.at = k.at /\ r.round = k.round /\ r.blind = k.blind
        /\ r.off = IF kill THEN k.off ELSE [n \in 1..2 |-> TRUE]
      BY <2>2, <2>5 DEF Policy!ExecutorType
  <2>7. executor'[w] = r
      BY <2>1, <2>3, <2>5 DEF Policy!Turned
  <2>8. r.round \in 1..2
      BY <2>6 DEF Policy!ExecutorType
  <2>9. SwitchSeen(executor[w])'
    <3>1. CASE kill
        BY <2>2, <2>3, <2>6, <2>7, <3>1 DEF SwitchSeen, Policy!ExecutorType
    <3>2. CASE ~kill
      <4>1. \A n \in 1..2 : r.off[n]
          BY <2>6, <3>2
      <4>2. QED BY <2>2, <2>6, <2>7, <2>8, <4>1 DEF SwitchSeen, Policy!ExecutorType
    <3>3. QED BY <2>4, <3>1, <3>2
  <2>10. QED BY <2>1, <2>6, <2>7, <2>9 DEF Clear
<1>2. executor' \in [Executors -> Policy!ExecutorType]
    BY <1>1 DEF Policy!Turned
<1>3. Cleared' = Cleared
    BY <1>1 DEF Cleared
<1>4. RoomLeft'
    BY <1>3 DEF ExecutorPart, RoomLeft
<1>5. QED BY <1>1, <1>2, <1>4 DEF ExecutorPart
-----------------------------------------------------------------------------
(* Requests for an approval, and the whole.                                *)

(* What a request has seen of the policy, and the decisions behind it.     *)
RequestSeen(q) ==
    /\ q \in RequestType
    /\ q.at \in {"pattern", "rollout"} => q.off \/ record.kill
    /\ q.at \in {"pattern", "rollout", "policy"} => q.allowed \/ ~record.allow
    /\ q.at \in {"policy", "approve"} => q.off
    /\ q.at = "approve" => q.allowed
    /\ q.at \in {"rollout", "policy", "approve"} => decided.yes >= q.threshold

RequestPart ==
    /\ request \in [Requests -> RequestType]
    /\ \A r \in Requests : RequestSeen(request[r])

Inv ==
    /\ scenario \in Scenarios
    /\ PatternInv
    /\ AdminPart
    /\ ExecutorPart
    /\ RequestPart

LEMMA PatternSame ==
    ASSUME PatternInv, UNCHANGED patternVars
    PROVE  PatternInv'
<1>1. UNCHANGED <<pattern, decider, decided, together>>
    BY DEF patternVars
<1>2. /\ Pattern!There' = Pattern!There /\ Undeleted' = Undeleted
      /\ \A x : Pending(x)' = Pending(x) /\ Said(x)' = Said(x)
      /\ \A p, x : Pattern!Count(p, x)' = Pattern!Count(p, x)
    BY <1>1 DEF Pattern!There, Undeleted, Pending, Said, Pattern!Count
<1>3. Pattern!PatternTypeOK'
    BY <1>1 DEF PatternInv, Pattern!PatternTypeOK
<1>4. \A x \in Answers : Counted(x)' /\ (Exact(x) => Exact(x)')
  <2>1. TAKE x \in Answers
  <2>2. Cardinality(Pending(x))' = Cardinality(Pending(x))
      BY <1>2
  <2>3. Counted(x)
      BY <2>1 DEF PatternInv
  <2>4. QED BY <1>1, <1>2, <2>2, <2>3 DEF Counted, Exact
<1>5. InTurn => InTurn'
  <2>1. HAVE InTurn
  <2>2. \A x \in Answers : Exact(x)'
      BY <1>4, <2>1 DEF InTurn
  <2>3. ASSUME NEW d \in Deciders, decider[d].at = "write"
        PROVE  decider'[d].read = Pattern!Count(decider[d].row, decider[d].answer)'
    <3>1. decider[d].read = Pattern!Count(decider[d].row, decider[d].answer)
        BY <2>1, <2>3 DEF InTurn
    <3>2. QED BY <1>1, <3>1 DEF Pattern!Count
  <2>4. QED BY <1>1, <1>2, <2>1, <2>2, <2>3 DEF InTurn
<1>6. QED BY <1>1, <1>2, <1>3, <1>4, <1>5 DEF PatternInv

LEMMA AdminSame ==
    ASSUME AdminPart, UNCHANGED <<record, exists, versions, legacy, admin, editor, apart>>
    PROVE  AdminPart'
<1>1. AdminTyped' /\ Loaded'
    BY DEF AdminPart, AdminTyped, Loaded
<1>2. \A a \in Admins : OwnColumns(admin[a])'
    BY DEF AdminPart, OwnColumns
<1>3. ("version" \notin apart' => LastVersion') /\ CopyKept'
    BY DEF AdminPart, CopyKept, LastVersion, Policy!Policy
<1>4. QED BY <1>1, <1>2, <1>3 DEF AdminPart

LEMMA ExecutorSame ==
    ASSUME ExecutorPart, UNCHANGED <<record, executor, today, unchecked>>
    PROVE  ExecutorPart'
<1>1. Cleared' = Cleared
    BY DEF Cleared
<1>2. QED BY <1>1 DEF ExecutorPart, RoomLeft, SwitchSeen

LEMMA RequestSame ==
    ASSUME RequestPart, UNCHANGED <<record, request>>, decided'.yes >= decided.yes,
           decided.yes \in Nat, decided'.yes \in Nat
    PROVE  RequestPart'
<1>1. Thresholds \subseteq Nat
    BY Bounds
<1>2. \A r \in Requests : RequestSeen(request[r])'
  <2>1. TAKE r \in Requests
  <2>2. PICK q : q = request[r]
      OBVIOUS
  <2>3. q \in RequestType /\ RequestSeen(q) /\ request'[r] = q
      BY <2>1, <2>2 DEF RequestPart
  <2>4. q.threshold \in Nat
    <3>1. q.threshold \in Thresholds \/ q.threshold = 0
        BY <2>3 DEF RequestType
    <3>2. CASE q.threshold \in Thresholds
        BY <1>1, <3>2, Zenon
    <3>3. CASE q.threshold = 0
        BY <3>3, SMT
    <3>4. QED BY <3>1, <3>2, <3>3
  <2>5. decided.yes >= q.threshold => decided'.yes >= q.threshold
      BY <2>4
  <2>6. QED BY <2>3, <2>5 DEF RequestSeen, RequestType
<1>3. QED BY <1>2 DEF RequestPart

LEMMA ScenarioFacts ==
    ASSUME scenario \in Scenarios
    PROVE  /\ scenario.admins \subseteq Admins /\ scenario.editors \subseteq Editors
           /\ scenario.executors \subseteq Executors
           /\ scenario.deciders \subseteq Deciders
           /\ \A c \in scenario.changes : Policy!IsChange(c.what, c.updates)
           /\ \A v \in scenario.settings : v.enabled \in BOOLEAN /\ v.threshold \in Thresholds
BY ScenariosAssumption

LEMMA PatternStepKeeps ==
    ASSUME Inv, PatternStep
    PROVE  Inv'
<1>1. UNCHANGED <<scenario, policyVars, request>>
    BY DEF PatternStep
<1>2. UNCHANGED <<scenario, record, exists, versions, legacy, admin, editor, executor, today, unchecked,
                 apart, request>>
    BY <1>1 DEF policyVars
<1>3. PatternInv' /\ decided'.yes >= decided.yes
  <2>1. CASE \E d \in scenario.deciders :
                \/ Pattern!Record(d) \/ Pattern!Lose(d)
                \/ \E answer \in {"yes", "no"} : Pattern!Decide(d, answer)
    <3>1. PICK d \in scenario.deciders :
                \/ Pattern!Record(d) \/ Pattern!Lose(d)
                \/ \E answer \in {"yes", "no"} : Pattern!Decide(d, answer)
        BY <2>1
    <3>2. d \in Deciders /\ PatternInv /\ decided.yes \in Nat /\ decided \in [yes : Nat, no : Nat]
        BY <3>1, ScenarioFacts DEF Inv, PatternInv, Pattern!PatternTypeOK
    <3>3. CASE Pattern!Record(d) \/ Pattern!Lose(d)
      <4>1. PatternInv'
          BY <3>2, <3>3, FindKeeps, CreateKeeps, ReadKeeps, WriteKeeps, LoseKeeps DEF Pattern!Record
      <4>2. decided' = decided
          BY <3>3 DEF Pattern!Record, Pattern!Find, Pattern!Create, Pattern!Read, Pattern!Write, Pattern!Lose
      <4>3. QED BY <3>2, <4>1, <4>2
    <3>4. ASSUME NEW answer \in {"yes", "no"}, Pattern!Decide(d, answer)
          PROVE  PatternInv' /\ decided'.yes >= decided.yes
      <4>1. PatternInv'
          BY <3>2, <3>4, DecideKeeps DEF Answers
      <4>2. decided'.yes = decided.yes \/ decided'.yes = decided.yes + 1
          BY <3>2, <3>4 DEF Pattern!Decide
      <4>3. QED BY <3>2, <4>1, <4>2
    <3>5. QED BY <3>1, <3>3, <3>4
  <2>2. CASE \E p \in Patterns :
                \/ scenario.deletes /\ Pattern!Delete(p)
                \/ \E s \in scenario.settings : Pattern!Configure(p, s.enabled, s.threshold)
    <3>1. PatternInv /\ decided.yes \in Nat
        BY DEF Inv, PatternInv, Pattern!PatternTypeOK
    <3>2. ASSUME NEW p \in Patterns, Pattern!Delete(p)
          PROVE  PatternInv' /\ decided' = decided
        BY <3>1, <3>2, DeleteKeeps DEF Pattern!Delete
    <3>3. ASSUME NEW p \in Patterns, NEW s \in scenario.settings,
                 Pattern!Configure(p, s.enabled, s.threshold)
          PROVE  PatternInv' /\ decided' = decided
      <4>1. s.enabled \in BOOLEAN /\ s.threshold \in Thresholds
          BY <3>3, ScenarioFacts DEF Inv
      <4>2. PatternInv'
          BY <3>1, <3>3, <4>1, ConfigureKeeps
      <4>3. QED BY <3>3, <4>2 DEF Pattern!Configure
    <3>4. PatternInv' /\ decided' = decided
        BY <2>2, <3>2, <3>3
    <3>5. QED BY <3>1, <3>4
  <2>3. QED BY <2>1, <2>2 DEF PatternStep
<1>4. AdminPart' /\ ExecutorPart'
    BY <1>2, AdminSame, ExecutorSame DEF Inv
<1>5. RequestPart'
  <2>1. decided.yes \in Nat /\ decided'.yes \in Nat
      BY <1>3 DEF Inv, PatternInv, Pattern!PatternTypeOK
  <2>2. QED BY <1>2, <1>3, <2>1, RequestSame DEF Inv
<1>6. QED BY <1>2, <1>3, <1>4, <1>5 DEF Inv
LEMMA ChangesKeep ==
    ASSUME AdminPart, ExecutorPart, scenario \in Scenarios, NEW a \in Admins, Changes(a)
    PROVE  AdminPart' /\ ExecutorPart'
<1>1. CASE Policy!Write(a)
  <2>1. record' \in Policy!Configs /\ Policy!Turned(record') /\ UNCHANGED <<today, unchecked>>
      BY <1>1, WriteFacts
  <2>2. QED BY <1>1, <2>1, WriteKeepsPolicy, TurnedKeeps
<1>2. ASSUME NEW what, NEW u, Policy!IsChange(what, u), Policy!Begin(a, what, u)
      PROVE  AdminPart' /\ ExecutorPart'
  <2>1. AdminPart'
      BY <1>2, BeginKeeps
  <2>2. UNCHANGED <<record, executor, today, unchecked>>
      BY <1>2 DEF Policy!Begin
  <2>3. QED BY <2>1, <2>2, ExecutorSame
<1>3. CASE \E c \in scenario.changes : Policy!Begin(a, c.what, c.updates)
    BY <1>2, <1>3, ScenarioFacts
<1>4. CASE Policy!Rollback(a)
  <2>1. PICK i \in DOMAIN versions : Policy!Begin(a, "policy", versions[i])
      BY <1>4 DEF Policy!Rollback
  <2>2. versions[i] \in Policy!Policies
      BY DEF AdminPart, AdminTyped
  <2>3. QED BY <1>2, <2>1, <2>2, VersionIsChange
<1>5. ASSUME AdminPart', UNCHANGED <<record, executor, today, unchecked>>
      PROVE  AdminPart' /\ ExecutorPart'
    BY <1>5, ExecutorSame
<1>6. CASE Policy!ReadRollout(a)
    BY <1>5, <1>6, ReadRolloutKeeps DEF Policy!ReadRollout
<1>7. CASE Policy!LoadRow(a)
    BY <1>5, <1>7, LoadRowKeeps DEF Policy!LoadRow
<1>8. CASE Policy!FailToInsert(a)
    BY <1>5, <1>8, FailToInsertKeeps DEF Policy!FailToInsert
<1>9. CASE Policy!Sync(a)
    BY <1>5, <1>9, SyncKeeps DEF Policy!Sync
<1>10. CASE Policy!LoseChange(a)
    BY <1>5, <1>10, LoseChangeKeeps DEF Policy!LoseChange
<1>11. QED BY <1>1, <1>3, <1>4, <1>6, <1>7, <1>8, <1>9, <1>10 DEF Changes

LEMMA PolicyStepKeeps ==
    ASSUME Inv, PolicyStep
    PROVE  Inv'
<1>1. UNCHANGED <<scenario, pattern, decider, decided, together>>
    BY DEF PolicyStep, patternVars
<1>2. AdminPart /\ ExecutorPart /\ scenario \in Scenarios /\ PatternInv
    BY DEF Inv
<1>3. AdminPart' /\ ExecutorPart'
  <2>1. CASE \E a \in scenario.admins : Changes(a)
    <3>1. PICK a \in scenario.admins : Changes(a)
        BY <2>1
    <3>2. a \in Admins
        BY <1>2, <3>1, ScenarioFacts
    <3>3. QED BY <1>2, <3>1, <3>2, ChangesKeep
  <2>2. CASE \E w \in scenario.executors : Executes(w)
    <3>1. PICK w \in scenario.executors : Executes(w)
        BY <2>2
    <3>2. w \in Executors
        BY <1>2, <3>1, ScenarioFacts
    <3>3. ExecutorPart'
        BY <1>2, <3>1, <3>2, ExecutesKeeps
    <3>4. UNCHANGED <<record, exists, versions, legacy, admin, editor, apart>>
        BY <3>1 DEF Executes, Policy!Approve, Policy!ReadSwitch, Policy!CountActions, Policy!ReadMode,
                    Policy!FailLookup, Policy!Start, Policy!Denied, Policy!Move
    <3>5. QED BY <1>2, <3>3, <3>4, AdminSame
  <2>3. CASE Policy!Midnight
    <3>1. UNCHANGED <<record, exists, versions, legacy, admin, editor, apart>>
        BY <2>3 DEF Policy!Midnight
    <3>2. QED BY <1>2, <2>3, <3>1, AdminSame, MidnightKeeps
  <2>4. CASE \E e \in scenario.editors : Policy!ReadJson(e) \/ Policy!WriteJson(e)
    <3>1. PICK e \in scenario.editors : Policy!ReadJson(e) \/ Policy!WriteJson(e)
        BY <2>4
    <3>2. e \in Editors
        BY <1>2, <3>1, ScenarioFacts
    <3>3. QED BY <1>2, <3>1, <3>2, EditKeeps, ExecutorSame
  <2>5. CASE Policy!StartStep
    <3>1. UNCHANGED <<record, exists, versions, legacy, admin, editor, apart>>
        BY <2>5 DEF Policy!StartStep
    <3>2. QED BY <1>2, <2>5, <3>1, AdminSame, StartStepKeeps
  <2>6. QED BY <2>1, <2>2, <2>3, <2>4, <2>5 DEF PolicyStep
<1>4. PatternInv'
    BY <1>1, <1>2, PatternSame DEF patternVars
<1>5. ASSUME NEW r \in Requests PROVE RequestSeen(request[r])' /\ request'[r] \in RequestType
  <2>1. PICK q : q = request[r]
      OBVIOUS
  <2>2. q \in RequestType /\ RequestSeen(q)
      BY <1>5, <2>1 DEF Inv, RequestPart
  <2>3. record'.kill \in BOOLEAN /\ record'.allow \in BOOLEAN
      BY <1>3 DEF AdminPart, AdminTyped, Policy!Configs
  <2>4. CASE q.at = "idle"
    <3>1. request'[r] = q
        BY <1>5, <2>1, <2>4 DEF PolicyStep
    <3>2. QED BY <2>2, <2>4, <3>1 DEF RequestSeen, RequestType
  <2>5. CASE q.at # "idle"
    <3>1. PICK off \in BOOLEAN : off = (q.off \/ ~record'.kill)
        OBVIOUS
    <3>2. PICK allowed \in BOOLEAN : allowed = (q.allowed \/ record'.allow)
        BY <2>2, <2>3 DEF RequestType
    <3>3. PICK s : s = [q EXCEPT !.off = off, !.allowed = allowed]
        OBVIOUS
    <3>4. /\ s \in RequestType /\ s.at = q.at /\ s.threshold = q.threshold
          /\ s.off = off /\ s.allowed = allowed
        BY <2>2, <3>3 DEF RequestType
    <3>5. request'[r] = s
        BY <1>5, <2>1, <2>5, <3>1, <3>2, <3>3 DEF PolicyStep, Noted
    <3>6. QED BY <1>1, <2>2, <2>3, <3>1, <3>2, <3>4, <3>5 DEF RequestSeen, RequestType
  <2>6. QED BY <2>4, <2>5
<1>6. RequestPart'
    BY <1>5 DEF RequestPart, PolicyStep
<1>7. QED BY <1>1, <1>2, <1>3, <1>4, <1>6 DEF Inv

LEMMA RequestMoves ==
    ASSUME Inv, NEW r \in Requests, NEW q, RequestSeen(q), request' = [request EXCEPT ![r] = q],
           UNCHANGED <<scenario, patternVars, policyVars>>
    PROVE  Inv'
<1>1. UNCHANGED <<decided, record, exists, versions, legacy, admin, editor, apart, executor, today, unchecked>>
    BY DEF patternVars, policyVars
<1>2. q \in RequestType
    BY DEF RequestSeen
<1>3. request' \in [Requests -> RequestType]
    BY <1>2 DEF Inv, RequestPart
<1>4. ASSUME NEW s \in Requests PROVE RequestSeen(request[s])'
  <2>1. request'[s] = q \/ request'[s] = request[s]
      BY <1>4 DEF Inv, RequestPart
  <2>2. RequestSeen(request[s])
      BY <1>4 DEF Inv, RequestPart
  <2>3. QED BY <1>1, <2>1, <2>2 DEF RequestSeen, RequestType
<1>5. RequestPart'
    BY <1>3, <1>4 DEF RequestPart
<1>6. QED BY <1>1, <1>5, PatternSame, AdminSame, ExecutorSame DEF Inv

LEMMA RequestStepKeeps ==
    ASSUME Inv, RequestStep
    PROVE  Inv'
<1>1. PICK r \in Requests :
          Send(r) \/ LookUpPattern(r) \/ ReadRollout(r) \/ ReadPolicy(r) \/ Approve(r)
    BY DEF RequestStep
<1>2. PICK k : k = request[r]
    OBVIOUS
<1>3. k \in RequestType /\ RequestSeen(k)
    BY <1>1, <1>2 DEF Inv, RequestPart
<1>4. /\ Policy!Current = record
      /\ record.kill \in BOOLEAN /\ record.allow \in BOOLEAN
    BY CurrentIsRecord DEF Inv, AdminPart, AdminTyped, Policy!Configs
<1>5. UNCHANGED <<scenario, patternVars, policyVars>>
    BY <1>1 DEF Send, LookUpPattern, ReadRollout, ReadPolicy, Approve
<1>6. RequestSeen(NoRequest)
    BY DEF RequestSeen, NoRequest, RequestType
<1>7. ASSUME request' = [request EXCEPT ![r] = NoRequest] PROVE Inv'
    BY <1>1, <1>5, <1>6, <1>7, RequestMoves
<1>8. CASE Send(r)
  <2>1. PICK q : q = [NoRequest EXCEPT !.at = "pattern", !.off = ~record.kill, !.allowed = record.allow]
      OBVIOUS
  <2>2. /\ q \in RequestType /\ q.at = "pattern" /\ q.off = ~record.kill /\ q.allowed = record.allow
      BY <1>4, <2>1 DEF NoRequest, RequestType
  <2>3. RequestSeen(q)
      BY <1>4, <2>2 DEF RequestSeen
  <2>4. request' = [request EXCEPT ![r] = q]
      BY <1>4, <1>8, <2>1 DEF Send
  <2>5. QED BY <1>1, <1>5, <2>3, <2>4, RequestMoves
<1>9. CASE LookUpPattern(r)
  <2>1. k.at = "pattern"
      BY <1>2, <1>9 DEF LookUpPattern
  <2>2. CASE \E p \in Patterns : Pattern!There = {p} /\ Suggests(p)
    <3>1. PICK p \in Patterns : Pattern!There = {p} /\ Suggests(p)
        BY <2>2
    <3>2. PICK q : q = [k EXCEPT !.at = "rollout", !.threshold = pattern[p].threshold]
        OBVIOUS
    <3>3. pattern[p] \in Pattern!Rows
        BY <3>1 DEF Inv, PatternInv, Pattern!PatternTypeOK
    <3>4. /\ q \in RequestType /\ q.at = "rollout" /\ q.threshold = pattern[p].threshold
          /\ q.off = k.off /\ q.allowed = k.allowed
        BY <1>3, <3>2, <3>3 DEF RequestType, Pattern!Rows
    <3>5. request' = [request EXCEPT ![r] = q]
        BY <1>2, <1>9, <2>2, <3>1, <3>2 DEF LookUpPattern
    <3>6. decided.yes >= q.threshold
      <4>1. Counted("yes")
          BY DEF Inv, PatternInv, Answers
      <4>2. Pattern!Count(p, "yes") + Cardinality(Pending("yes")) <= decided.yes
          BY <3>1, <4>1 DEF Counted, Said
      <4>3. Pattern!Count(p, "yes") = pattern[p].yes
          BY DEF Pattern!Count
      <4>4. /\ pattern[p].yes >= pattern[p].threshold
            /\ pattern[p].threshold \in Nat /\ pattern[p].yes \in Nat /\ decided.yes \in Nat
          BY <3>1, <3>3, Bounds DEF Suggests, Pattern!Rows, Inv, PatternInv, Pattern!PatternTypeOK
      <4>5. Cardinality(Pending("yes")) \in Nat
          BY PendingFinite
      <4>6. QED BY <3>4, <4>2, <4>3, <4>4, <4>5
    <3>7. RequestSeen(q)
        BY <1>3, <2>1, <3>4, <3>6 DEF RequestSeen
    <3>8. QED BY <1>1, <1>5, <3>5, <3>7, RequestMoves
  <2>3. CASE ~\E p \in Patterns : Pattern!There = {p} /\ Suggests(p)
      BY <1>7, <1>9, <2>3 DEF LookUpPattern, LeavePending
  <2>4. QED BY <2>2, <2>3
<1>10. CASE ReadRollout(r)
  <2>1. CASE record.kill
      BY <1>4, <1>7, <1>10, <2>1 DEF ReadRollout, LeavePending
  <2>2. CASE ~record.kill
    <3>1. PICK q : q = [k EXCEPT !.at = "policy"]
        OBVIOUS
    <3>2. /\ q \in RequestType /\ q.at = "policy" /\ q.threshold = k.threshold
          /\ q.off = k.off /\ q.allowed = k.allowed
        BY <1>3, <3>1 DEF RequestType
    <3>3. request' = [request EXCEPT ![r] = q] /\ k.at = "rollout"
        BY <1>2, <1>4, <1>10, <2>2, <3>1 DEF ReadRollout, Goto
    <3>4. RequestSeen(q)
        BY <1>3, <2>2, <3>2, <3>3 DEF RequestSeen
    <3>5. QED BY <1>1, <1>5, <3>3, <3>4, RequestMoves
  <2>3. QED BY <2>1, <2>2
<1>11. CASE ReadPolicy(r)
  <2>1. CASE LeavePending(r)
      BY <1>7, <2>1 DEF LeavePending
  <2>2. CASE record.allow /\ Goto(r, "approve")
    <3>1. PICK q : q = [k EXCEPT !.at = "approve"]
        OBVIOUS
    <3>2. /\ q \in RequestType /\ q.at = "approve" /\ q.threshold = k.threshold
          /\ q.off = k.off /\ q.allowed = k.allowed
        BY <1>3, <3>1 DEF RequestType
    <3>3. request' = [request EXCEPT ![r] = q] /\ k.at = "policy"
        BY <1>2, <1>11, <2>2, <3>1 DEF ReadPolicy, Goto
    <3>4. RequestSeen(q)
        BY <1>3, <2>2, <3>2, <3>3 DEF RequestSeen
    <3>5. QED BY <1>1, <1>5, <3>3, <3>4, RequestMoves
  <2>3. QED BY <1>4, <1>11, <2>1, <2>2 DEF ReadPolicy
<1>12. CASE Approve(r)
    BY <1>7, <1>12 DEF Approve
<1>13. QED BY <1>1, <1>8, <1>9, <1>10, <1>11, <1>12
-----------------------------------------------------------------------------
LEMMA PolicyBegins ==
    ASSUME Policy!PolicyInit
    PROVE  AdminPart /\ ExecutorPart
<1>1. /\ record = Policy!Default /\ exists = FALSE /\ versions = <<>> /\ legacy = Policy!Default
      /\ admin = [a \in Admins |-> Policy!Resting] /\ apart = {}
      /\ editor = [e \in Editors |-> Policy!NoEdit]
      /\ executor = [w \in Executors |-> Policy!Waiting] /\ today = 0 /\ unchecked = 0
    BY DEF Policy!PolicyInit
<1>2. AdminTyped
  <2>1. versions \in Seq(Policy!Policies)
      BY <1>1
  <2>2. DOMAIN admin = Admins /\ \A a \in Admins : admin[a] = Policy!Resting
      BY <1>1
  <2>3. \A a \in Admins : Policy!AdminOK(admin[a])
      BY <2>2, RestingFacts, Zenon
  <2>4. editor \in [Editors -> Policy!EditorType]
      BY <1>1, DefaultTyped DEF Policy!NoEdit, Policy!EditorType
  <2>5. QED BY <1>1, <2>1, <2>2, <2>3, <2>4, DefaultTyped DEF AdminTyped
<1>3. Loaded /\ LastVersion /\ CopyKept /\ \A a \in Admins : OwnColumns(admin[a])
    BY <1>1, RestingFacts DEF Loaded, CopyKept, OwnColumns, LastVersion, Policy!NoEdit
<1>4. executor \in [Executors -> Policy!ExecutorType] /\ \A w \in Executors : SwitchSeen(executor[w])
    BY <1>1, WaitingFacts DEF SwitchSeen
<1>5. RoomLeft
  <2>1. Cleared = {}
      BY <1>1, WaitingFacts DEF Cleared
  <2>2. Cardinality(Cleared) = 0
      BY <2>1, FS_EmptySet
  <2>3. \A c \in Caps : c \in Nat /\ c # 0
      BY Bounds
  <2>4. Cardinality(Executors) \in Nat
      BY ClearedFinite
  <2>5. QED BY <1>1, <2>2, <2>3, <2>4 DEF RoomLeft
<1>6. QED BY <1>1, <1>2, <1>3, <1>4, <1>5 DEF AdminPart, ExecutorPart

(* The policy, its executions, the pattern and the requests keep what they *)
(* need of each other.                                                     *)
THEOREM Invariance == Spec => []Inv
<1>1. Init => Inv
  <2>1. SUFFICES ASSUME Init PROVE Inv
      OBVIOUS
  <2>2. PatternInv /\ AdminPart /\ ExecutorPart /\ scenario \in Scenarios
      BY <2>1, PatternBegins, PolicyBegins DEF Init
  <2>3. RequestPart
      BY <2>1 DEF Init, RequestPart, RequestSeen, NoRequest, RequestType
  <2>4. QED BY <2>2, <2>3 DEF Inv
<1>2. Inv /\ [Next]_vars => Inv'
  <2>1. SUFFICES ASSUME Inv, [Next]_vars PROVE Inv'
      OBVIOUS
  <2>2. CASE PatternStep
      BY <2>1, <2>2, PatternStepKeeps
  <2>3. CASE PolicyStep
      BY <2>1, <2>3, PolicyStepKeeps
  <2>4. CASE RequestStep
      BY <2>1, <2>4, RequestStepKeeps
  <2>5. CASE UNCHANGED vars
    <3>1. UNCHANGED <<scenario, patternVars, policyVars, request>>
        BY <2>5 DEF vars
    <3>2. UNCHANGED <<decided, record, exists, versions, legacy, admin, editor, apart, executor, today, unchecked>>
        BY <3>1 DEF patternVars, policyVars
    <3>3. RequestPart'
        BY <2>1, <3>1, <3>2 DEF Inv, RequestPart, RequestSeen
    <3>4. QED BY <2>1, <3>1, <3>2, <3>3, PatternSame, AdminSame, ExecutorSame DEF Inv
  <2>6. QED BY <2>1, <2>2, <2>3, <2>4, <2>5 DEF Next
<1>3. QED BY <1>1, <1>2, PTL DEF Spec

(* The type invariant.                                                     *)
THEOREM TypeCorrect == Spec => []TypeOK
<1>1. Inv => TypeOK
    BY DEF Inv, TypeOK, PatternInv, AdminPart, AdminTyped, ExecutorPart, RequestPart, Policy!PolicyTypeOK
<1>2. QED BY <1>1, Invariance, PTL

(* A pattern counts no decision that was not made (record_decision): the   *)
(* threshold of an organization cannot be reached by updates that are      *)
(* lost, or by rows that are created twice or deleted.                     *)
THEOREM CountsAreDecisions == Spec => []CountsWereDecided
<1>1. Inv => CountsWereDecided
  <2>1. SUFFICES ASSUME Inv, NEW p \in Pattern!There
                 PROVE  pattern[p].yes <= decided.yes /\ pattern[p].no <= decided.no
      BY DEF CountsWereDecided, Pattern!CountsWereDecided
  <2>2. Counted("yes") /\ Counted("no")
      BY <2>1 DEF Inv, PatternInv, Answers
  <2>3. /\ pattern[p].yes + Cardinality(Pending("yes")) <= decided.yes
        /\ pattern[p].no + Cardinality(Pending("no")) <= decided.no
      BY <2>1, <2>2 DEF Counted, Said, Pattern!Count
  <2>4. Cardinality(Pending("yes")) \in Nat /\ Cardinality(Pending("no")) \in Nat
      BY PendingFinite
  <2>5. pattern[p] \in Pattern!Rows /\ decided \in [yes : Nat, no : Nat]
      BY <2>1 DEF Inv, PatternInv, Pattern!PatternTypeOK, Pattern!There
  <2>6. QED BY <2>3, <2>4, <2>5 DEF Pattern!Rows
<1>2. QED BY <1>1, Invariance, PTL

(* Decisions that are recorded one after the other are all counted         *)
(* (get_or_create, record_decision).                                       *)
THEOREM NoDecisionLost == Spec => []NoneLost
<1>1. Inv => NoneLost
  <2>1. SUFFICES ASSUME Inv, NEW p \in Pattern!There, ~together,
                        \A d \in Deciders : decider[d].at = "idle", Undeleted
                 PROVE  pattern[p].yes = decided.yes /\ pattern[p].no = decided.no
      BY DEF NoneLost, Pattern!NoneLost, Pattern!Recording, Undeleted
  <2>2. Exact("yes") /\ Exact("no")
      BY <2>1 DEF Inv, PatternInv, InTurn, Answers
  <2>3. Pending("yes") = {} /\ Pending("no") = {}
      BY <2>1 DEF Pending
  <2>4. Cardinality(Pending("yes")) = 0 /\ Cardinality(Pending("no")) = 0
      BY <2>3, FS_EmptySet
  <2>5. pattern[p].yes + 0 = decided.yes /\ pattern[p].no + 0 = decided.no
      BY <2>1, <2>2, <2>4 DEF Exact, Said, Pattern!Count
  <2>6. pattern[p] \in Pattern!Rows /\ decided \in [yes : Nat, no : Nat]
      BY <2>1 DEF Inv, PatternInv, Pattern!PatternTypeOK, Pattern!There
  <2>7. QED BY <2>5, <2>6 DEF Pattern!Rows
<1>2. QED BY <1>1, Invariance, PTL

(* The last version and the copy in the JSON of the organization are the   *)
(* policy in force (_upsert_config_record, _sync_legacy_policy_json), but  *)
(* for a change that another one disturbed, or that died before it wrote   *)
(* its copy, or that was synchronized while the JSON was being edited      *)
(* (update_feature_flags), and then until the next one that was not.       *)
THEOREM CopiesAgree == Spec => []InStep
<1>1. Inv => InStep
  <2>1. SUFFICES ASSUME Inv PROVE InStep
      OBVIOUS
  <2>2. AdminPart /\ Policy!Current = record
      BY <2>1, CurrentIsRecord DEF Inv
  <2>3. QED BY <2>2 DEF AdminPart, CopyKept, LastVersion, InStep, Policy!InStep
<1>2. QED BY <1>1, Invariance, PTL

(* No execution of an approval starts that was checked only while the kill *)
(* switch was on, unless the engine's check met an error                   *)
(* (can_execute_post_approval).  Those of workflow steps are not checked.  *)
THEOREM SwitchObeyed == Spec => []StartsUnderSwitch
<1>1. Inv => StartsUnderSwitch
    BY DEF Inv, ExecutorPart, SwitchSeen, StartsUnderSwitch, Policy!StartsUnderSwitch
<1>2. QED BY <1>1, Invariance, PTL

(* The cap of executions a day is exceeded by no more than the requests    *)
(* that were checked together, less one, and the workflow steps, which are *)
(* executed unchecked (can_execute_post_approval, create_execution,        *)
(* _execute_approved_step).                                                *)
THEOREM CapBounds == Spec => []CapNearlyKept
<1>1. Inv => CapNearlyKept
  <2>1. SUFFICES ASSUME Inv, NEW c \in Caps, \A d \in Caps : d <= c
                 PROVE  today <= c + Cardinality(Executors) - 1 + unchecked
      BY DEF CapNearlyKept
  <2>2. /\ today + Cardinality(Cleared) + 1 <= c + Cardinality(Executors) + unchecked
        /\ today \in Nat /\ unchecked \in Nat
      BY <2>1 DEF Inv, ExecutorPart, RoomLeft
  <2>3. Cardinality(Cleared) \in Nat /\ Cardinality(Executors) \in Nat /\ c \in Nat
      BY <2>1, ClearedFinite, Bounds
  <2>4. QED BY <2>2, <2>3
<1>2. QED BY <1>1, Invariance, PTL

(* A request is approved automatically only behind as many approvals by a  *)
(* human as its threshold asks for, and not if the kill switch was on, or  *)
(* auto-approval forbidden, all the time (should_auto_approve,             *)
(* can_auto_approve).                                                      *)
THEOREM RuleKept == Spec => []ApprovedByRule
<1>1. Inv => ApprovedByRule
    BY DEF Inv, RequestPart, RequestSeen, ApprovedByRule
<1>2. QED BY <1>1, Invariance, PTL

(* A request that comes from its write to its copy has written.            *)
LEMMA OnlyWriteWrites ==
    ASSUME Inv, Next, NEW a \in Admins, admin[a].at = "write", admin'[a].at = "sync"
    PROVE  Policy!Write(a)
<1>1. AdminPart /\ DOMAIN admin = Admins
    BY DEF Inv, AdminPart, AdminTyped
<1>2. admin' # admin
    OBVIOUS
<1>3. PolicyStep
    BY <1>2 DEF Next, PatternStep, RequestStep, policyVars, Send, LookUpPattern, ReadRollout, ReadPolicy, Approve
<1>4. PICK b \in scenario.admins : Changes(b)
    BY <1>2, <1>3 DEF PolicyStep, Policy!Midnight, Executes, Policy!Approve, Policy!ReadSwitch,
           Policy!CountActions, Policy!ReadMode, Policy!FailLookup, Policy!Start, Policy!Denied, Policy!Move,
           Policy!ReadJson, Policy!WriteJson, Policy!StartStep
<1>5. b \in Admins
    BY <1>4, ScenarioFacts DEF Inv
<1>6. ASSUME Policy!Write(b), b # a PROVE FALSE
    BY <1>1, <1>5, <1>6, OthersDisturbed
<1>7. ASSUME NEW r, Policy!Change(b, r), r.at # "sync" PROVE FALSE
  <2>1. admin'[a] = IF a = b THEN r ELSE admin[a]
      BY <1>1, <1>5, <1>7 DEF Policy!Change
  <2>2. QED BY <1>7, <2>1
<1>8. PICK k : k = admin[b]
    OBVIOUS
<1>9. k = [at |-> k.at, what |-> k.what, updates |-> k.updates, config |-> k.config,
           base |-> k.base, new |-> k.new, disturbed |-> k.disturbed]
    BY <1>1, <1>5, <1>8, AdminFacts DEF AdminPart, AdminTyped
<1>10. ASSUME Policy!ReadRollout(b) PROVE FALSE
  <2>1. PICK r : r = [k EXCEPT !.at = "row", !.config = Policy!RolloutOf(k)]
      OBVIOUS
  <2>2. r.at = "row"
      BY <1>9, <2>1
  <2>3. QED BY <1>7, <1>8, <1>10, <2>1, <2>2 DEF Policy!ReadRollout
<1>11. ASSUME Policy!LoadRow(b) PROVE FALSE
  <2>1. PICK r : r = [k EXCEPT !.at = "write", !.base = record, !.new = ~exists]
      OBVIOUS
  <2>2. r.at = "write"
      BY <1>9, <2>1
  <2>3. QED BY <1>7, <1>8, <1>11, <2>1, <2>2 DEF Policy!LoadRow
<1>12. ASSUME Policy!Change(b, Policy!Resting) PROVE FALSE
    BY <1>7, <1>12, RestingFacts
<1>13. ASSUME NEW what, NEW u, Policy!Begin(b, what, u) PROVE FALSE
  <2>1. PICK r : r = [Policy!Resting EXCEPT !.at = "rollout", !.what = what, !.updates = u,
                          !.config = Policy!Merged(Policy!Current, u, DOMAIN u)]
      OBVIOUS
  <2>2. r.at = "rollout"
      BY <2>1 DEF Policy!Resting
  <2>3. QED BY <1>7, <1>13, <2>1, <2>2 DEF Policy!Begin
<1>14. Policy!Write(b)
    BY <1>4, <1>10, <1>11, <1>12, <1>13
       DEF Changes, Policy!FailToInsert, Policy!Sync, Policy!LoseChange, Policy!Rollback
<1>15. QED BY <1>6, <1>14

(* A change of the policy or of the rollout, which sets every column,      *)
(* gives another value to its own columns only, and to those that others   *)
(* have changed since it began (_upsert_config_record).                    *)
THEOREM OwnColumnsWritten == Spec => WritesItsColumns
<1>1. Inv /\ [Next]_vars =>
          [\A a \in Admins :
              admin[a].at = "write" /\ admin'[a].at = "sync"
                 => Policy!Differing(record') \subseteq
                        DOMAIN admin[a].updates \cup admin[a].disturbed]_(Policy!policyVars)
  <2>1. SUFFICES ASSUME Inv, [Next]_vars, NEW a \in Admins, admin[a].at = "write",
                        admin'[a].at = "sync"
                 PROVE  Policy!Differing(record') \subseteq DOMAIN admin[a].updates \cup admin[a].disturbed
      OBVIOUS
  <2>2. Next
      BY <2>1 DEF vars, policyVars
  <2>3. QED BY <2>1, <2>2, OnlyWriteWrites, WritesOwn DEF Inv
<1>2. QED BY <1>1, Invariance, PTL DEF Spec, WritesItsColumns, Policy!WritesItsColumns

=============================================================================
