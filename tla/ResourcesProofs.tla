--------------------------- MODULE ResourcesProofs ---------------------------
(***************************************************************************)
(* What exists at OpenPay and as a row, under any number of creations,     *)
(* removals, tenants and faults.                                           *)
(*                                                                         *)
(* Shape says how far each request has come and what that means for its    *)
(* object; from it follow AnswersAgree and RemovalsHold.  StaleBounded     *)
(* counts for itself.  OrphansBounded does not: a creation that came       *)
(* before another one of its tenant may yet leave a customer without a     *)
(* row, so Debt counts those as well.                                      *)
(***************************************************************************)
EXTENDS Resources, FiniteSetTheorems, TLAPS

(* Nothing is removed while it is created, nor created again once removed; *)
(* a member is never removed.                                              *)
CreationsFit ==
    \A c \in Creations :
        /\ row[c] # "none" => creation[c] = "answered"
        /\ creation[c] = "store" => c \in provider
        /\ c \in provider => creation[c] # "new" /\ creation[c] # "ask"

RemovalsFit ==
    \A d \in Removals : removal[d].step # "new" =>
        /\ kind # "member"
        /\ creation[Object(d)] = "answered"
        /\ removal[d].step \in {"drop", "answered", "refused"} =>
               Object(d) \notin provider
        /\ removal[d].step \in {"answered", "refused"} => Object(d) \notin Active

(* The members of a tenant: one row, which all answers name.               *)
MembersFit ==
    kind = "member" =>
        /\ Active \subseteq provider
        /\ \A c \in Active, x \in Active : owner[c] = owner[x] => c = x
        /\ \A c \in Creations : answer[c] # Nothing =>
               answer[c] \in Active /\ owner[answer[c]] = owner[c]

Shape == CreationsFit /\ RemovalsFit /\ MembersFit

(* Creations that may leave a row, and the tenants that asked for them.    *)
Hopeful == Running \cup Active
Askers == {owner[c] : c \in Hopeful}

(* Of the hopeful creations of a member, all but one of each tenant came   *)
(* when another one was there: they may still become orphans.              *)
Debt ==
    IF kind = "member"
    THEN Cardinality(Orphans) + Cardinality(Hopeful)
             <= faults + blind + Cardinality(Askers)
    ELSE Cardinality(Orphans) <= faults

-----------------------------------------------------------------------------
(* Types.                                                                  *)

LEMMA InitType == Init => TypeOK
BY ResourcesAssumption DEF Init, TypeOK, Kinds

RemovalStates ==
    [step : {"new"}, object : {Nothing}]
        \cup [step : {"delete", "drop", "answered", "refused", "failed"},
              object : Creations]

(* What a step of one creation or one removal leaves of the others.        *)
LEMMA Created ==
    ASSUME TypeOK, NEW c \in Creations, NEW from, NEW to, Create(c, from, to)
    PROVE  /\ creation[c] = from /\ creation'[c] = to
           /\ \A x \in Creations \ {c} : creation'[x] = creation[x]
           /\ to \in {"ask", "store", "answered", "failed"} =>
                  creation' \in [Creations ->
                                    {"new", "ask", "store", "answered", "failed"}]
           /\ UNCHANGED <<kind, owner, removal>>
BY DEF Create, TypeOK

LEMMA Removed ==
    ASSUME TypeOK, NEW d \in Removals, NEW from, NEW to, Remove(d, from, to),
           from # "new",
           to \in {"delete", "drop", "answered", "refused", "failed"}
    PROVE  /\ removal[d].step = from /\ Object(d) \in Creations
           /\ removal' \in [Removals -> RemovalStates]
           /\ removal'[d].step = to /\ removal'[d].object = removal[d].object
           /\ \A e \in Removals \ {d} : removal'[e] = removal[e]
           /\ UNCHANGED <<kind, owner, creation, answer, blind>>
<1>1. removal \in [Removals -> RemovalStates]
    BY DEF TypeOK, RemovalStates
<1>2. removal[d].step = from
    BY DEF Remove
<1>3. removal[d].object \in Creations
    BY <1>1, <1>2 DEF RemovalStates
<1>4. [removal[d] EXCEPT !.step = to] \in RemovalStates
    BY <1>1, <1>2 DEF RemovalStates
<1>5. /\ [removal[d] EXCEPT !.step = to].step = to
      /\ [removal[d] EXCEPT !.step = to].object = removal[d].object
    BY <1>1, <1>2 DEF RemovalStates
<1>6. removal' = [removal EXCEPT ![d] = [removal[d] EXCEPT !.step = to]]
    BY DEF Remove
<1>7. QED
    BY <1>1, <1>2, <1>3, <1>4, <1>5, <1>6 DEF Remove, Object

(* The rows of a table.                                                    *)
Row == {"none", "active"} \cup IF kind = "plan" THEN {"inactive"} ELSE {}

LEMMA TypeStep ==
    ASSUME TypeOK, [Next]_vars
    PROVE  TypeOK'
<1>0. /\ kind \in Kinds /\ owner \in [Creations -> Tenants]
      /\ row \in [Creations -> Row] /\ removal \in [Removals -> RemovalStates]
      /\ faults \in 0..MaxFaults /\ blind \in Nat /\ MaxFaults \in Nat
      /\ answer \in [Creations -> Creations \cup {Nothing}]
      /\ provider \subseteq Creations
    BY ResourcesAssumption DEF TypeOK, Row, RemovalStates
<1>1. CASE UNCHANGED vars
    BY <1>1 DEF vars, TypeOK
<1>2. ASSUME NEW c \in Creations, CreationStep(c)
      PROVE  TypeOK'
    <2>1. /\ UNCHANGED <<kind, owner, removal>>
          /\ creation' \in [Creations ->
                               {"new", "ask", "store", "answered", "failed"}]
        BY <1>2, Created DEF CreationStep, Find, Begin, CreateAtProvider,
            DeclineCreation, StoreRow, StoreConflicts, CreationFails
    <2>2. provider' \subseteq Creations
        BY <1>0, <1>2 DEF CreationStep, Find, Begin, CreateAtProvider,
            DeclineCreation, StoreRow, StoreConflicts, CreationFails
    <2>3. row' \in [Creations -> Row]
        BY <1>0, <1>2 DEF CreationStep, Find, Begin, CreateAtProvider,
            DeclineCreation, StoreRow, StoreConflicts, CreationFails, Row
    <2>4. answer' \in [Creations -> Creations \cup {Nothing}]
        BY <1>0, <1>2 DEF CreationStep, Find, Begin, CreateAtProvider, Active,
            DeclineCreation, StoreRow, StoreConflicts, CreationFails
    <2>5. blind' \in Nat
        BY <1>0, <1>2 DEF CreationStep, Find, Begin, CreateAtProvider,
            DeclineCreation, StoreRow, StoreConflicts, CreationFails
    <2>6. faults' \in 0..MaxFaults
        BY <1>0, <1>2 DEF CreationStep, Find, Begin, CreateAtProvider,
            DeclineCreation, StoreRow, StoreConflicts, CreationFails, Fault
    <2>7. QED
        BY <1>0, <2>1, <2>2, <2>3, <2>4, <2>5, <2>6 DEF TypeOK, Row, RemovalStates
<1>3. ASSUME NEW d \in Removals, RemovalStep(d)
      PROVE  TypeOK'
    <2>1. CASE BeginRemoval(d)
        <3>1. PICK x \in Creations :
                  removal' = [removal EXCEPT ![d] = [step |-> "delete", object |-> x]]
            BY <2>1 DEF BeginRemoval
        <3>2. removal' \in [Removals -> RemovalStates]
            BY <1>0, <3>1 DEF RemovalStates
        <3>3. UNCHANGED <<kind, owner, provider, row, creation, answer, blind, faults>>
            BY <2>1 DEF BeginRemoval
        <3>4. QED
            BY <3>2, <3>3 DEF TypeOK, RemovalStates
    <2>2. CASE RemoveAtProvider(d) \/ DropRow(d) \/ DropMisses(d) \/ RemovalFails(d)
        <3>1. /\ Object(d) \in Creations /\ removal' \in [Removals -> RemovalStates]
              /\ UNCHANGED <<kind, owner, creation, answer, blind>>
            BY <2>2, Removed DEF RemoveAtProvider, DropRow, DropMisses, RemovalFails
        <3>2. provider' \subseteq Creations
            BY <1>0, <2>2 DEF RemoveAtProvider, DropRow, DropMisses, RemovalFails
        <3>3. row' \in [Creations -> Row]
            BY <1>0, <2>2, <3>1
                DEF RemoveAtProvider, DropRow, DropMisses, RemovalFails, Row
        <3>4. faults' \in 0..MaxFaults
            BY <1>0, <2>2
                DEF RemoveAtProvider, DropRow, DropMisses, RemovalFails, Fault
        <3>5. QED
            BY <3>1, <3>2, <3>3, <3>4 DEF TypeOK, RemovalStates, Row
    <2>3. QED
        BY <1>3, <2>1, <2>2 DEF RemovalStep
<1>4. QED
    BY <1>1, <1>2, <1>3 DEF Next

(* Every request stays within its states, a row within those of its table. *)
THEOREM TypeInvariant == Spec => []TypeOK
BY InitType, TypeStep, PTL DEF Spec

-----------------------------------------------------------------------------
(* How far each request has come.                                          *)

(* A creation that leaves rows, provider and answers alone, or answers for *)
(* a member that is there.                                                 *)
LEMMA ShapeOfCreation ==
    ASSUME TypeOK, TypeOK', Shape, NEW c \in Creations, CreationStep(c)
    PROVE  Shape'
<1>1. /\ \A x \in Creations \ {c} : creation'[x] = creation[x]
      /\ UNCHANGED <<kind, owner, removal>>
      /\ creation[c] \in {"new", "ask", "store"}
    BY Created DEF CreationStep, Find, Begin, CreateAtProvider, DeclineCreation,
        StoreRow, StoreConflicts, CreationFails, Running
<1>2. /\ provider' = provider \/ (creation[c] = "ask" /\ creation'[c] = "store"
                                  /\ provider' = provider \cup {c})
      /\ row' = row \/ (creation[c] = "store" /\ creation'[c] = "answered" /\ ~Taken(c)
                        /\ row' = [row EXCEPT ![c] = "active"])
      /\ creation'[c] # "new"
      /\ creation'[c] = "ask" => creation[c] = "new"
      /\ creation'[c] = "store" => c \in provider'
    BY Created DEF CreationStep, Find, Begin, CreateAtProvider, DeclineCreation,
        StoreRow, StoreConflicts, CreationFails, Running
<1>3. row[c] = "none"
    BY <1>1 DEF Shape, CreationsFit
<1>4. /\ \A x \in Creations \ {c} : row'[x] = row[x]
      /\ row'[c] # "none" => creation'[c] = "answered"
    BY <1>2, <1>3 DEF TypeOK
<1>5. CreationsFit'
    BY <1>1, <1>2, <1>4 DEF Shape, CreationsFit
<1>6. RemovalsFit'
    <2> SUFFICES ASSUME NEW d \in Removals, removal[d].step # "new"
                 PROVE  /\ kind # "member"
                        /\ creation'[Object(d)] = "answered"
                        /\ removal[d].step \in {"drop", "answered", "refused"} =>
                               Object(d) \notin provider'
                        /\ removal[d].step \in {"answered", "refused"} =>
                               row'[Object(d)] # "active"
        BY <1>1 DEF RemovalsFit, Object, Active
    <2>1. /\ kind # "member" /\ creation[Object(d)] = "answered"
          /\ removal[d].step \in {"drop", "answered", "refused"} =>
                 Object(d) \notin provider
          /\ removal[d].step \in {"answered", "refused"} => Object(d) \notin Active
        BY DEF Shape, RemovalsFit
    <2>2. Object(d) \in Creations
        BY DEF TypeOK, Object
    <2>3. Object(d) \in Creations \ {c}
        BY <1>1, <2>1, <2>2
    <2>4. QED
        BY <1>1, <1>2, <1>4, <2>1, <2>3 DEF Active
<1>7. MembersFit'
    <2> SUFFICES ASSUME kind = "member"
                 PROVE  MembersFit'
        BY <1>1 DEF MembersFit
    <2>1. /\ Active \subseteq provider
          /\ \A x \in Active, y \in Active : owner[x] = owner[y] => x = y
          /\ \A x \in Creations : answer[x] # Nothing =>
                 answer[x] \in Active /\ owner[answer[x]] = owner[x]
        BY DEF Shape, MembersFit
    <2>2. CASE row' = row
        <3>1. Active' = Active
            BY <2>2 DEF Active
        <3>2. answer' = answer \/ \E x \in Active : /\ owner[x] = owner[c]
                                                    /\ answer' = [answer EXCEPT ![c] = x]
            BY <2>2, <1>3 DEF CreationStep, Find, Begin, CreateAtProvider, TypeOK,
                DeclineCreation, StoreRow, StoreConflicts, CreationFails
        <3>3. \A x \in Creations : answer'[x] # Nothing =>
                 answer'[x] \in Active /\ owner[answer'[x]] = owner[x]
            BY <2>1, <3>2 DEF TypeOK
        <3>4. QED
            BY <1>1, <1>2, <2>1, <3>1, <3>3 DEF MembersFit
    <2>3. CASE StoreRow(c)
        <3>1. Active' = Active \cup {c} /\ c \in provider /\ UNCHANGED provider
            BY <2>3, <1>1, Created DEF StoreRow, Active, Shape, CreationsFit, TypeOK
        <3>2. \A x \in Active : owner[x] # owner[c]
            BY <2>3 DEF StoreRow, Taken
        <3>3. \A x \in Creations : answer'[x] # Nothing =>
                 answer'[x] \in Active' /\ owner[answer'[x]] = owner[x]
            BY <2>1, <2>3, <3>1 DEF StoreRow, TypeOK
        <3>4. QED
            BY <1>1, <2>1, <3>1, <3>2, <3>3 DEF MembersFit
    <2>4. QED
        BY <2>2, <2>3 DEF CreationStep, Find, Begin, CreateAtProvider,
            DeclineCreation, StoreConflicts, CreationFails
<1>8. QED
    BY <1>5, <1>6, <1>7 DEF Shape

LEMMA ShapeOfRemoval ==
    ASSUME TypeOK, TypeOK', Shape, NEW d \in Removals, RemovalStep(d)
    PROVE  Shape'
<1>1. CASE BeginRemoval(d)
    <2>1. PICK x \in Creations :
              /\ row[x] # "none"
              /\ removal' = [removal EXCEPT ![d] = [step |-> "delete", object |-> x]]
        BY <1>1 DEF BeginRemoval
    <2>2. /\ removal'[d].step = "delete" /\ removal'[d].object = x
          /\ \A e \in Removals \ {d} : removal'[e] = removal[e]
        BY <2>1 DEF TypeOK
    <2>3. /\ UNCHANGED <<kind, owner, provider, row, creation, answer>>
          /\ kind # "member"
        BY <1>1 DEF BeginRemoval
    <2>4. creation[x] = "answered"
        BY <2>1 DEF Shape, CreationsFit
    <2>5. QED
        BY <2>2, <2>3, <2>4 DEF Shape, CreationsFit, RemovalsFit, MembersFit, Object, Active
<1>2. CASE RemoveAtProvider(d) \/ DropRow(d) \/ DropMisses(d) \/ RemovalFails(d)
    <2>1. /\ removal[d].step # "new" /\ Object(d) \in Creations
          /\ removal'[d].object = Object(d) /\ removal'[d].step # "new"
          /\ \A e \in Removals \ {d} : removal'[e] = removal[e]
          /\ UNCHANGED <<kind, owner, creation, answer>>
        BY <1>2, Removed
            DEF RemoveAtProvider, DropRow, DropMisses, RemovalFails, Object
    <2>2. kind # "member" /\ creation[Object(d)] = "answered"
        BY <2>1 DEF Shape, RemovalsFit
    <2>3. /\ provider' \subseteq provider
          /\ provider' # provider => provider' = provider \ {Object(d)}
          /\ \A x \in Creations : row'[x] = row[x] \/ (x = Object(d) /\ row'[x] # "active")
        BY <1>2, <2>1 DEF RemoveAtProvider, DropRow, DropMisses, RemovalFails, TypeOK
    <2>4. CreationsFit'
        BY <2>1, <2>2, <2>3 DEF Shape, CreationsFit
    <2>5. MembersFit'
        BY <2>1, <2>2 DEF MembersFit
    <2>6. /\ removal'[d].step \in {"drop", "answered", "refused"} =>
                Object(d) \notin provider'
          /\ removal'[d].step \in {"answered", "refused"} => row'[Object(d)] # "active"
        <3>1. CASE RemoveAtProvider(d)
            BY <3>1, Removed DEF RemoveAtProvider
        <3>2. CASE DropRow(d) \/ DropMisses(d)
            <4>1. removal[d].step = "drop" /\ UNCHANGED provider
                BY <3>2 DEF DropRow, DropMisses, Remove
            <4>2. row'[Object(d)] # "active"
                BY <2>1, <3>2 DEF DropRow, DropMisses, TypeOK
            <4>3. QED
                BY <4>1, <4>2 DEF Shape, RemovalsFit
        <3>3. CASE RemovalFails(d)
            BY <3>3, Removed DEF RemovalFails
        <3>4. QED
            BY <1>2, <3>1, <3>2, <3>3
    <2>7. RemovalsFit'
        <3> SUFFICES ASSUME NEW e \in Removals, removal'[e].step # "new"
                     PROVE  /\ kind' # "member"
                            /\ creation'[Object(e)'] = "answered"
                            /\ removal'[e].step \in {"drop", "answered", "refused"} =>
                                   Object(e)' \notin provider'
                            /\ removal'[e].step \in {"answered", "refused"} =>
                                   row'[Object(e)'] # "active"
            BY DEF RemovalsFit, Active
        <3>1. CASE e = d
            BY <2>1, <2>2, <2>6, <3>1 DEF Object
        <3>2. CASE e # d
            <4>1. removal'[e] = removal[e] /\ Object(e) \in Creations
                BY <2>1, <3>2 DEF TypeOK, Object
            <4>2. QED
                BY <2>1, <2>3, <4>1 DEF Object, Shape, RemovalsFit, Active
        <3>3. QED
            BY <3>1, <3>2
    <2>8. QED
        BY <2>4, <2>5, <2>7 DEF Shape
<1>3. QED
    BY <1>1, <1>2 DEF RemovalStep

LEMMA ShapeStep ==
    ASSUME TypeOK, TypeOK', Shape, [Next]_vars
    PROVE  Shape'
<1>1. CASE UNCHANGED vars
    BY <1>1 DEF vars, Shape, CreationsFit, RemovalsFit, MembersFit, Object, Active
<1>2. CASE Next
    BY <1>2, ShapeOfCreation, ShapeOfRemoval DEF Next
<1>3. QED
    BY <1>1, <1>2

LEMMA ShapeInvariant == Spec => [](TypeOK /\ Shape)
<1>1. Init => TypeOK /\ Shape
    BY InitType DEF Init, Shape, CreationsFit, RemovalsFit, MembersFit, Active
<1>2. TypeOK /\ Shape /\ [Next]_vars => (TypeOK /\ Shape)'
    BY TypeStep, ShapeStep
<1>3. QED
    BY <1>1, <1>2, PTL DEF Spec

(* Requests of a tenant for a member with one external id answer the same  *)
(* member, whose row and customer exist, however many race (CreateMember). *)
THEOREM Answers == Spec => []AnswersAgree
<1>1. TypeOK /\ Shape => AnswersAgree
    <2> SUFFICES ASSUME TypeOK, Shape, kind = "member",
                        NEW c \in Creations, NEW x \in Creations,
                        answer[c] # Nothing, answer[x] # Nothing, owner[c] = owner[x]
                 PROVE  answer[c] = answer[x] /\ answer[c] \in Active \cap provider
        BY DEF AnswersAgree
    <2>1. QED
        BY DEF Shape, MembersFit
<1>2. QED
    BY <1>1, ShapeInvariant, PTL

(* A removal that has answered, or was refused, finds the object gone from *)
(* both sides for good (DeleteCard, DeactivatePlan).                       *)
THEOREM RemovedForGood == Spec => []RemovalsHold
<1>1. TypeOK /\ Shape => RemovalsHold
    BY DEF Shape, RemovalsFit, RemovalsHold, At
<1>2. QED
    BY <1>1, ShapeInvariant, PTL

-----------------------------------------------------------------------------
(* What each step does to one object.                                      *)

LEMMA CreationEffect ==
    ASSUME TypeOK, Shape, NEW c \in Creations, CreationStep(c)
    PROVE  /\ UNCHANGED <<kind, owner, removal>>
           /\ provider' = provider \/ (creation'[c] = "store" /\ provider' = provider \cup {c})
           /\ Active' = Active \/ (StoreRow(c) /\ c \in provider /\ UNCHANGED provider
                                   /\ Active' = Active \cup {c})
           /\ faults' = faults \/ (CreationFails(c) /\ faults' = faults + 1)
           /\ row[c] = "none" /\ c \notin Active
           /\ \A x \in Creations \ {c} : creation'[x] = creation[x]
<1>1. /\ \A x \in Creations \ {c} : creation'[x] = creation[x]
      /\ UNCHANGED <<kind, owner, removal>>
      /\ creation[c] \in {"new", "ask", "store"}
    BY Created DEF CreationStep, Find, Begin, CreateAtProvider, DeclineCreation,
        StoreRow, StoreConflicts, CreationFails, Running
<1>2. row[c] = "none" /\ c \notin Active
    BY <1>1 DEF Shape, CreationsFit, Active
<1>3. provider' = provider \/ (creation'[c] = "store" /\ provider' = provider \cup {c})
    BY Created DEF CreationStep, Find, Begin, CreateAtProvider, DeclineCreation,
        StoreRow, StoreConflicts, CreationFails
<1>4. CASE StoreRow(c)
    <2>1. creation[c] = "store" /\ UNCHANGED <<provider, faults>>
        BY <1>4, Created DEF StoreRow
    <2>2. c \in provider
        BY <2>1 DEF Shape, CreationsFit
    <2>3. Active' = Active \cup {c}
        BY <1>4 DEF StoreRow, Active, TypeOK
    <2>4. QED
        BY <1>1, <1>2, <1>4, <2>1, <2>2, <2>3
<1>5. CASE CreationFails(c)
    <2>1. UNCHANGED <<row, provider>> /\ faults' = faults + 1
        BY <1>5 DEF CreationFails, Fault
    <2>2. QED
        BY <1>1, <1>2, <1>5, <2>1 DEF Active
<1>6. CASE ~StoreRow(c) /\ ~CreationFails(c)
    <2>1. UNCHANGED <<row, faults>>
        BY <1>6 DEF CreationStep, Find, Begin, CreateAtProvider, DeclineCreation,
            StoreConflicts
    <2>2. QED
        BY <1>1, <1>2, <1>3, <2>1 DEF Active
<1>7. QED
    BY <1>4, <1>5, <1>6

LEMMA RemovalEffect ==
    ASSUME TypeOK, Shape, NEW d \in Removals, RemovalStep(d)
    PROVE  /\ UNCHANGED <<kind, owner, creation, blind>> /\ kind # "member"
           /\ provider' = provider \/ (RemoveAtProvider(d) /\ provider' = provider \ {Object(d)})
           /\ Active' = Active \/ (DropRow(d) /\ Active' = Active \ {Object(d)})
           /\ faults' = faults \/ (RemovalFails(d) /\ faults' = faults + 1)
           /\ \A e \in Removals \ {d} : removal'[e] = removal[e]
<1>1. CASE BeginRemoval(d)
    BY <1>1 DEF BeginRemoval, Active, TypeOK
<1>2. CASE RemoveAtProvider(d) \/ DropRow(d) \/ DropMisses(d) \/ RemovalFails(d)
    <2>1. /\ removal[d].step # "new" /\ Object(d) \in Creations
          /\ \A e \in Removals \ {d} : removal'[e] = removal[e]
          /\ UNCHANGED <<kind, owner, creation, blind>>
        BY <1>2, Removed DEF RemoveAtProvider, DropRow, DropMisses, RemovalFails
    <2>2. kind # "member"
        BY <2>1 DEF Shape, RemovalsFit
    <2>3. provider' = provider \/ (RemoveAtProvider(d) /\ provider' = provider \ {Object(d)})
        BY <1>2 DEF RemoveAtProvider, DropRow, DropMisses, RemovalFails
    <2>4. Active' = Active \/ (DropRow(d) /\ Active' = Active \ {Object(d)})
        BY <1>2, <2>1 DEF RemoveAtProvider, DropRow, DropMisses, RemovalFails, Active,
            TypeOK
    <2>5. faults' = faults \/ (RemovalFails(d) /\ faults' = faults + 1)
        BY <1>2 DEF RemoveAtProvider, DropRow, DropMisses, RemovalFails, Fault
    <2>6. QED
        BY <2>1, <2>2, <2>3, <2>4, <2>5
<1>3. QED
    BY <1>1, <1>2 DEF RemovalStep

(* Counting: a set of objects grows by no more than one for each fault.    *)
LEMMA OneMore ==
    ASSUME NEW S, NEW T, NEW x, NEW f \in Nat, NEW g \in Nat,
           IsFiniteSet(S), Cardinality(S) <= f,
           (T \subseteq S /\ g >= f) \/ (T \subseteq S \cup {x} /\ g = f + 1)
    PROVE  IsFiniteSet(T) /\ Cardinality(T) <= g
<1>1. /\ Cardinality(S) \in Nat /\ IsFiniteSet(S \cup {x})
      /\ Cardinality(S \cup {x}) \in Nat /\ Cardinality(S \cup {x}) <= Cardinality(S) + 1
    <2>1. Cardinality(S) \in Nat
        BY FS_CardinalityType
    <2>2. /\ IsFiniteSet(S \cup {x})
          /\ Cardinality(S \cup {x}) =
                IF x \in S THEN Cardinality(S) ELSE Cardinality(S) + 1
        BY FS_AddElement
    <2>3. QED
        BY <2>1, <2>2
<1>2. CASE T \subseteq S /\ g >= f
    <2>1. IsFiniteSet(T) /\ Cardinality(T) <= Cardinality(S) /\ Cardinality(T) \in Nat
        BY <1>2, FS_Subset, FS_CardinalityType
    <2>2. QED
        BY <1>1, <1>2, <2>1
<1>3. CASE T \subseteq S \cup {x} /\ g = f + 1
    <2>1. /\ IsFiniteSet(T) /\ Cardinality(T) <= Cardinality(S \cup {x})
          /\ Cardinality(T) \in Nat
        BY <1>1, <1>3, FS_Subset, FS_CardinalityType
    <2>2. QED
        BY <1>1, <1>3, <2>1
<1>4. QED
    BY <1>2, <1>3

LEMMA FaultsType == ASSUME TypeOK PROVE faults \in Nat /\ blind \in Nat
BY ResourcesAssumption DEF TypeOK

LEMMA StaleFinite == ASSUME TypeOK PROVE IsFiniteSet(StaleRows) /\ IsFiniteSet(Orphans)
<1>1. StaleRows \subseteq Creations /\ Orphans \subseteq Creations
    BY DEF TypeOK, StaleRows, Active, Orphans
<1>2. QED
    BY <1>1, ResourcesAssumption, FS_Subset

LEMMA StaleStep ==
    ASSUME TypeOK, TypeOK', Shape, StaleBounded, [Next]_vars
    PROVE  StaleBounded'
<1>0. /\ faults \in Nat /\ faults' \in Nat
      /\ IsFiniteSet(StaleRows) /\ Cardinality(StaleRows) <= faults
    BY FaultsType, StaleFinite DEF StaleBounded, TypeOK
<1>1. CASE UNCHANGED vars
    <2>1. UNCHANGED <<StaleRows, faults>>
        BY <1>1 DEF vars, StaleRows, Active, At, Object
    <2>2. QED
        BY <1>0, <2>1 DEF StaleBounded
<1>2. ASSUME NEW c \in Creations, CreationStep(c)
      PROVE  StaleBounded'
    <2>1. /\ {Object(d) : d \in At("drop")}' = {Object(d) : d \in At("drop")}
          /\ provider \subseteq provider' /\ faults' >= faults
          /\ Active' \subseteq Active \cup provider'
        BY <1>0, <1>2, CreationEffect DEF At, Object
    <2>2. StaleRows' \subseteq StaleRows
        BY <2>1 DEF StaleRows
    <2>3. QED
        BY <1>0, <2>1, <2>2, OneMore DEF StaleBounded
<1>3. ASSUME NEW d \in Removals, RemovalStep(d)
      PROVE  StaleBounded'
    <2>1. /\ \A e \in Removals \ {d} : removal'[e] = removal[e]
          /\ Active' \subseteq Active
        BY <1>3, RemovalEffect
    <2>2. ASSUME NEW x \in StaleRows', x \notin StaleRows
          PROVE  RemovalFails(d) /\ x = Object(d)
        <3>1. x \in Active /\ x \notin provider'
            BY <2>1, <2>2 DEF StaleRows
        <3>2. ASSUME x \in provider
              PROVE  FALSE
            <4>1. RemoveAtProvider(d) /\ x = Object(d)
                BY <1>3, <3>1, <3>2, RemovalEffect
            <4>2. removal'[d].step = "drop" /\ Object(d)' = x
                BY <4>1, Removed DEF RemoveAtProvider, Object
            <4>3. QED
                BY <2>2, <4>2 DEF StaleRows, At
        <3>3. PICK e \in Removals : removal[e].step = "drop" /\ Object(e) = x
            BY <2>2, <3>1, <3>2 DEF StaleRows, At
        <3>4. e = d
            BY <2>1, <2>2, <3>3 DEF StaleRows, At, Object
        <3>5. CASE DropRow(d)
            <4>1. x \notin Active'
                BY <3>3, <3>4, <3>5 DEF DropRow, Active, TypeOK
            <4>2. QED
                BY <2>2, <4>1 DEF StaleRows
        <3>6. CASE DropMisses(d)
            BY <3>1, <3>3, <3>4, <3>6 DEF DropMisses, Active
        <3>7. QED
            BY <1>3, <3>3, <3>4, <3>5, <3>6
                DEF RemovalStep, BeginRemoval, RemoveAtProvider, Remove
    <2>3. CASE RemovalFails(d)
        <3>1. faults' = faults + 1 /\ StaleRows' \subseteq StaleRows \cup {Object(d)}
            BY <2>2, <2>3 DEF RemovalFails, Fault
        <3>2. QED
            BY <1>0, <3>1, OneMore DEF StaleBounded
    <2>4. CASE ~RemovalFails(d)
        <3>1. faults' = faults /\ StaleRows' \subseteq StaleRows
            BY <1>3, <2>2, <2>4, RemovalEffect
        <3>2. QED
            BY <1>0, <3>1, OneMore DEF StaleBounded
    <2>5. QED
        BY <2>3, <2>4
<1>4. QED
    BY <1>1, <1>2, <1>3 DEF Next

(* An active row whose object OpenPay no longer has is about to be dropped,*)
(* or its removal took a fault (DeleteCard, DeactivatePlan).               *)
THEOREM StaleRowsBounded == Spec => []StaleBounded
<1>1. Init => StaleBounded
    <2> SUFFICES ASSUME Init
                 PROVE  StaleBounded
        OBVIOUS
    <2>1. StaleRows = {} /\ faults = 0
        BY DEF Init, StaleRows, Active
    <2>2. QED
        BY <2>1, FS_EmptySet DEF StaleBounded
<1>2. TypeOK /\ TypeOK' /\ Shape /\ StaleBounded /\ [Next]_vars => StaleBounded'
    BY StaleStep
<1>3. QED
    BY <1>1, <1>2, ShapeInvariant, PTL DEF Spec

-----------------------------------------------------------------------------
(* Orphans.                                                                *)

LEMMA HopefulFinite ==
    ASSUME TypeOK
    PROVE  /\ IsFiniteSet(Hopeful) /\ IsFiniteSet(Askers)
           /\ Cardinality(Hopeful) \in Nat /\ Cardinality(Askers) \in Nat
           /\ Cardinality(Askers) <= Cardinality(Hopeful)
<1>1. IsFiniteSet(Hopeful)
    <2>1. Hopeful \subseteq Creations
        BY DEF Hopeful, Running, Active
    <2>2. QED
        BY <2>1, ResourcesAssumption, FS_Subset
<1>2. PICK f : f = [c \in Hopeful |-> owner[c]]
    OBVIOUS
<1>3. f \in Surjection(Hopeful, Askers)
    BY <1>2 DEF Surjection, Askers
<1>4. IsFiniteSet(Askers) /\ Cardinality(Askers) <= Cardinality(Hopeful)
    BY <1>1, <1>3, FS_Surjection
<1>5. QED
    BY <1>1, <1>4, FS_CardinalityType

(* A creation that loses hope takes its tenant along if it was the last.   *)
LEMMA HopeLost ==
    ASSUME TypeOK, NEW c \in Hopeful, Hopeful' = Hopeful \ {c}, UNCHANGED owner
    PROVE  /\ Cardinality(Hopeful)' = Cardinality(Hopeful) - 1
           /\ Cardinality(Askers)' \in Int
           /\ Cardinality(Askers)' >= Cardinality(Askers) - 1
           /\ (\E x \in Hopeful \ {c} : owner[x] = owner[c]) =>
                  Cardinality(Askers)' = Cardinality(Askers)
<1>1. /\ IsFiniteSet(Hopeful) /\ IsFiniteSet(Askers)
      /\ Cardinality(Hopeful) \in Nat /\ Cardinality(Askers) \in Nat
    BY HopefulFinite
<1>2. Cardinality(Hopeful \ {c}) = Cardinality(Hopeful) - 1
    BY <1>1, FS_RemoveElement
<1>3. Cardinality(Askers \ {owner[c]}) = Cardinality(Askers) - 1
    <2>1. owner[c] \in Askers
        BY DEF Askers
    <2>2. QED
        BY <1>1, <2>1, FS_RemoveElement
<1>4. Askers' = IF \E x \in Hopeful \ {c} : owner[x] = owner[c]
                THEN Askers ELSE Askers \ {owner[c]}
    BY DEF Askers
<1>5. QED
    BY <1>1, <1>2, <1>3, <1>4

LEMMA HopeGained ==
    ASSUME TypeOK, NEW c, c \notin Hopeful, Hopeful' = Hopeful \cup {c},
           UNCHANGED owner
    PROVE  /\ Cardinality(Hopeful)' = Cardinality(Hopeful) + 1
           /\ Cardinality(Askers)' = IF \E x \in Hopeful : owner[x] = owner[c]
                                     THEN Cardinality(Askers)
                                     ELSE Cardinality(Askers) + 1
<1>1. /\ IsFiniteSet(Hopeful) /\ IsFiniteSet(Askers)
      /\ Cardinality(Hopeful) \in Nat /\ Cardinality(Askers) \in Nat
    BY HopefulFinite
<1>2. Cardinality(Hopeful \cup {c}) = Cardinality(Hopeful) + 1
    BY <1>1, FS_AddElement
<1>3. Askers' = Askers \cup {owner[c]}
    BY DEF Askers
<1>4. owner[c] \in Askers <=> \E x \in Hopeful : owner[x] = owner[c]
    BY DEF Askers
<1>5. Cardinality(Askers \cup {owner[c]}) =
          IF owner[c] \in Askers THEN Cardinality(Askers) ELSE Cardinality(Askers) + 1
    BY <1>1, FS_AddElement
<1>6. QED
    BY <1>2, <1>3, <1>4, <1>5

(* What becomes an orphan.                                                 *)
LEMMA OrphansOfCreation ==
    ASSUME TypeOK, Shape, NEW c \in Creations, CreationStep(c)
    PROVE  /\ Orphans' \subseteq Orphans \cup {c}
           /\ ~StoreConflicts(c) /\ ~CreationFails(c) => Orphans' \subseteq Orphans
<1>1. /\ provider' \subseteq provider \cup {c}
      /\ Active \subseteq Active'
      /\ \A x \in Creations \ {c} : creation'[x] = creation[x]
    BY CreationEffect
<1>2. Orphans' \subseteq Orphans \cup {c}
    BY <1>1 DEF Orphans, TypeOK
<1>3. ASSUME ~StoreConflicts(c), ~CreationFails(c)
      PROVE  c \notin Orphans'
    <2>1. CASE StoreRow(c)
        BY <2>1 DEF StoreRow, Orphans, Active, TypeOK
    <2>2. CASE CreateAtProvider(c)
        <3>1. creation'[c] = "store"
            BY <2>2, Created DEF CreateAtProvider
        <3>2. QED
            BY <3>1 DEF Orphans
    <2>3. CASE Find(c) \/ Begin(c) \/ DeclineCreation(c)
        <3>1. creation[c] \in {"new", "ask"} /\ UNCHANGED provider
            BY <2>3, Created DEF Find, Begin, DeclineCreation
        <3>2. c \notin provider'
            BY <3>1 DEF Shape, CreationsFit
        <3>3. QED
            BY <3>2 DEF Orphans
    <2>4. QED
        BY <1>3, <2>1, <2>2, <2>3 DEF CreationStep
<1>4. QED
    BY <1>2, <1>3

LEMMA DebtOfCreation ==
    ASSUME TypeOK, TypeOK', Shape, Debt, NEW c \in Creations, CreationStep(c)
    PROVE  Debt'
<1>0. /\ faults \in Nat /\ faults' \in Nat /\ blind \in Nat /\ blind' \in Nat
      /\ IsFiniteSet(Orphans) /\ Cardinality(Orphans) \in Nat
      /\ Cardinality(Hopeful) \in Nat /\ Cardinality(Askers) \in Nat
      /\ kind' = kind /\ owner' = owner
    BY FaultsType, StaleFinite, HopefulFinite, CreationEffect, FS_CardinalityType
        DEF TypeOK
<1>1. CASE kind # "member"
    <2>1. Cardinality(Orphans) <= faults
        BY <1>1 DEF Debt
    <2>2. ~StoreConflicts(c)
        BY <1>1 DEF StoreConflicts, Taken
    <2>3. CASE CreationFails(c)
        <3>1. faults' = faults + 1 /\ Orphans' \subseteq Orphans \cup {c}
            BY <2>3, OrphansOfCreation DEF CreationFails, Fault
        <3>2. Cardinality(Orphans') <= faults'
            BY <1>0, <2>1, <3>1, OneMore
        <3>3. QED
            BY <1>0, <1>1, <3>2 DEF Debt
    <2>4. CASE ~CreationFails(c)
        <3>1. faults' = faults /\ Orphans' \subseteq Orphans
            BY <2>2, <2>4, OrphansOfCreation, CreationEffect
        <3>2. Cardinality(Orphans') <= faults'
            <4>1. /\ IsFiniteSet(Orphans) /\ Cardinality(Orphans) <= faults
                  /\ Orphans' \subseteq Orphans /\ faults' >= faults
                  /\ faults \in Nat /\ faults' \in Nat
                BY <1>0, <2>1, <3>1
            <4>2. QED
                BY <4>1, OneMore
        <3>3. QED
            BY <1>0, <1>1, <3>2 DEF Debt
    <2>5. QED
        BY <2>3, <2>4
<1>2. CASE kind = "member"
    <2>0. Cardinality(Orphans) + Cardinality(Hopeful)
              <= faults + blind + Cardinality(Askers)
        BY <1>2 DEF Debt
    <2>1. SUFFICES Cardinality(Orphans)' + Cardinality(Hopeful)'
                       <= faults' + blind' + Cardinality(Askers)'
        BY <1>0, <1>2 DEF Debt
    <2>2. /\ \A x \in Creations \ {c} : creation'[x] = creation[x]
          /\ row[c] = "none" /\ c \notin Active
        BY CreationEffect
    <2>3. CASE Begin(c)
        <3>1. Cardinality(Orphans') <= Cardinality(Orphans) /\ Cardinality(Orphans') \in Nat
            <4>1. Orphans' \subseteq Orphans
                BY <2>3, OrphansOfCreation, Created
                    DEF Begin, StoreConflicts, CreationFails, Running
            <4>2. QED
                BY <1>0, <4>1, FS_Subset, FS_CardinalityType
        <3>2. c \notin Hopeful /\ Hopeful' = Hopeful \cup {c}
            BY <2>2, <2>3, Created DEF Begin, Hopeful, Running, Active
        <3>3. /\ Cardinality(Hopeful)' = Cardinality(Hopeful) + 1
              /\ Cardinality(Askers)' = IF \E x \in Hopeful : owner[x] = owner[c]
                                        THEN Cardinality(Askers)
                                        ELSE Cardinality(Askers) + 1
            BY <1>0, <3>2, HopeGained
        <3>4. /\ blind' = IF \E x \in Hopeful : owner[x] = owner[c]
                          THEN blind + 1 ELSE blind
              /\ faults' = faults
            BY <1>2, <2>3 DEF Begin, Hopeful
        <3>5. QED
            BY <1>0, <2>0, <3>1, <3>3, <3>4
    <2>4. CASE Find(c) \/ CreateAtProvider(c) \/ StoreRow(c)
        <3>1. Cardinality(Orphans') <= Cardinality(Orphans) /\ Cardinality(Orphans') \in Nat
            <4>1. Orphans' \subseteq Orphans
                <5>1. ~StoreConflicts(c) /\ ~CreationFails(c)
                    BY <2>4, Created DEF Find, CreateAtProvider, StoreRow,
                        StoreConflicts, CreationFails, Running
                <5>2. QED
                    BY <5>1, OrphansOfCreation
            <4>2. QED
                BY <1>0, <4>1, FS_Subset, FS_CardinalityType
        <3>2. Hopeful' = Hopeful
            <4>1. CASE Find(c)
                <5>1. creation[c] = "new" /\ creation'[c] = "answered" /\ row' = row
                    BY <4>1, Created DEF Find
                <5>2. QED
                    BY <2>2, <5>1 DEF Hopeful, Running, Active
            <4>2. CASE CreateAtProvider(c)
                <5>1. creation[c] = "ask" /\ creation'[c] = "store" /\ row' = row
                    BY <4>2, Created DEF CreateAtProvider
                <5>2. QED
                    BY <2>2, <5>1 DEF Hopeful, Running, Active
            <4>3. CASE StoreRow(c)
                <5>1. creation[c] = "store" /\ creation'[c] = "answered"
                    BY <4>3, Created DEF StoreRow
                <5>2. Active' = Active \cup {c}
                    BY <4>3 DEF StoreRow, Active, TypeOK
                <5>3. QED
                    BY <2>2, <5>1, <5>2 DEF Hopeful, Running
            <4>4. QED
                BY <2>4, <4>1, <4>2, <4>3
        <3>3. Askers' = Askers
            BY <1>0, <3>2 DEF Askers
        <3>4. faults' = faults /\ blind' = blind
            BY <2>4 DEF Find, CreateAtProvider, StoreRow
        <3>5. QED
            BY <1>0, <2>0, <3>1, <3>2, <3>3, <3>4
    <2>5. CASE DeclineCreation(c) \/ StoreConflicts(c) \/ CreationFails(c)
        <3>1. /\ creation[c] \in {"ask", "store"} /\ creation'[c] = "failed"
              /\ row' = row /\ blind' = blind
            BY <2>5, Created DEF DeclineCreation, StoreConflicts, CreationFails, Running
        <3>2. c \in Hopeful /\ Hopeful' = Hopeful \ {c}
            BY <2>2, <3>1 DEF Hopeful, Running, Active
        <3>3. /\ Cardinality(Hopeful)' = Cardinality(Hopeful) - 1
              /\ Cardinality(Askers)' >= Cardinality(Askers) - 1
              /\ Cardinality(Askers)' \in Int
              /\ (\E x \in Hopeful \ {c} : owner[x] = owner[c]) =>
                     Cardinality(Askers)' = Cardinality(Askers)
            BY <1>0, <3>2, HopeLost
        <3>4. /\ Cardinality(Orphans') \in Nat
              /\ Cardinality(Orphans') <= Cardinality(Orphans) + 1
              /\ DeclineCreation(c) => Cardinality(Orphans') <= Cardinality(Orphans)
            <4>1. Orphans' \subseteq Orphans \cup {c}
                BY OrphansOfCreation
            <4>2. IsFiniteSet(Orphans') /\ Cardinality(Orphans') <= Cardinality(Orphans) + 1
                <5>1. /\ IsFiniteSet(Orphans) /\ Cardinality(Orphans) \in Nat
                      /\ Cardinality(Orphans) + 1 \in Nat
                      /\ Cardinality(Orphans) <= Cardinality(Orphans)
                    BY <1>0
                <5>2. QED
                    BY <4>1, <5>1, OneMore
            <4>3. CASE DeclineCreation(c)
                <5>1. c \notin provider /\ UNCHANGED provider
                    BY <4>3, Created DEF DeclineCreation, Shape, CreationsFit
                <5>2. Orphans' \subseteq Orphans
                    BY <4>1, <5>1 DEF Orphans
                <5>3. QED
                    BY <1>0, <4>2, <5>2, FS_Subset, FS_CardinalityType
            <4>4. QED
                BY <4>2, <4>3, FS_CardinalityType
        <3>5. CASE DeclineCreation(c)
            <4>1. faults' = faults
                BY <3>5 DEF DeclineCreation
            <4>2. QED
                BY <1>0, <2>0, <3>1, <3>3, <3>4, <3>5, <4>1
        <3>6. CASE StoreConflicts(c)
            <4>1. faults' = faults
                BY <3>6 DEF StoreConflicts
            <4>2. \E x \in Hopeful \ {c} : owner[x] = owner[c]
                BY <2>2, <3>6 DEF StoreConflicts, Taken, Hopeful
            <4>3. QED
                BY <1>0, <2>0, <3>1, <3>3, <3>4, <4>1, <4>2
        <3>7. CASE CreationFails(c)
            <4>1. faults' = faults + 1
                BY <3>7 DEF CreationFails, Fault
            <4>2. QED
                BY <1>0, <2>0, <3>1, <3>3, <3>4, <4>1
        <3>8. QED
            BY <2>5, <3>5, <3>6, <3>7
    <2>6. QED
        BY <2>3, <2>4, <2>5 DEF CreationStep
<1>3. QED
    BY <1>1, <1>2

LEMMA DebtOfRemoval ==
    ASSUME TypeOK, TypeOK', Shape, Debt, NEW d \in Removals, RemovalStep(d)
    PROVE  Debt'
<1>1. /\ kind # "member" /\ kind' = kind /\ creation' = creation
      /\ provider' \subseteq provider
      /\ faults \in Nat /\ faults' \in Nat /\ faults' >= faults
    BY RemovalEffect, FaultsType DEF TypeOK
<1>2. Cardinality(Orphans) <= faults /\ IsFiniteSet(Orphans)
    BY <1>1, StaleFinite DEF Debt
<1>3. Orphans' \subseteq Orphans
    <2>1. CASE DropRow(d)
        <3>1. removal[d].step = "drop" /\ UNCHANGED provider
            BY <2>1 DEF DropRow, Remove
        <3>2. Object(d) \notin provider
            BY <3>1 DEF Shape, RemovalsFit
        <3>3. Active \subseteq Active' \cup {Object(d)}
            BY RemovalEffect
        <3>4. QED
            BY <1>1, <3>1, <3>2, <3>3 DEF Orphans
    <2>2. CASE ~DropRow(d)
        <3>1. Active' = Active
            BY <2>2, RemovalEffect
        <3>2. QED
            BY <1>1, <3>1 DEF Orphans
    <2>3. QED
        BY <2>1, <2>2
<1>4. Cardinality(Orphans') <= faults'
    BY <1>1, <1>2, <1>3, OneMore
<1>5. QED
    BY <1>1, <1>4 DEF Debt

LEMMA DebtStep ==
    ASSUME TypeOK, TypeOK', Shape, Debt, [Next]_vars
    PROVE  Debt'
<1>1. CASE UNCHANGED vars
    BY <1>1 DEF vars, Debt, Orphans, Hopeful, Askers, Running, Active
<1>2. CASE Next
    BY <1>2, DebtOfCreation, DebtOfRemoval DEF Next
<1>3. QED
    BY <1>1, <1>2

(* An object left at OpenPay without a row took a fault, or is the customer*)
(* of a member that another request created as well (CreateMember,         *)
(* RegisterCard, CreatePlan, DeleteCard, DeactivatePlan).                  *)
THEOREM OrphansAreBounded == Spec => []OrphansBounded
<1>1. Init => Debt
    <2> SUFFICES ASSUME Init
                 PROVE  Debt
        OBVIOUS
    <2>1. Orphans = {} /\ Hopeful = {} /\ Askers = {} /\ faults = 0 /\ blind = 0
        BY DEF Init, Orphans, Hopeful, Askers, Running, Active
    <2>2. QED
        BY <2>1, FS_EmptySet DEF Debt
<1>2. TypeOK /\ TypeOK' /\ Shape /\ Debt /\ [Next]_vars => Debt'
    BY DebtStep
<1>3. TypeOK /\ Debt => OrphansBounded
    <2> SUFFICES ASSUME TypeOK, Debt
                 PROVE  Cardinality(Orphans) <= faults + blind
        BY DEF OrphansBounded
    <2>1. /\ faults \in Nat /\ blind \in Nat /\ Cardinality(Orphans) \in Nat
          /\ Cardinality(Hopeful) \in Nat /\ Cardinality(Askers) \in Nat
          /\ Cardinality(Askers) <= Cardinality(Hopeful)
        BY FaultsType, HopefulFinite, StaleFinite, FS_CardinalityType
    <2>2. QED
        BY <2>1 DEF Debt
<1>4. QED
    BY <1>1, <1>2, <1>3, ShapeInvariant, PTL DEF Spec
=============================================================================
