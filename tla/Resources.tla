------------------------------ MODULE Resources ------------------------------
(***************************************************************************)
(* What exists twice, at OpenPay and as a row: the customer behind a       *)
(* member, a member's card, a plan.  A creation asks OpenPay and then      *)
(* inserts the row; a removal deletes at OpenPay and then drops the row    *)
(* (a card) or marks it inactive (a plan); members are never removed.  No  *)
(* step is undone when the next one fails, so the two sides part.          *)
(* Objects are named by the creation that made them.  All creations of     *)
(* members here carry the same external id, which the table holds once for *)
(* each tenant; a member without one is like a card that is never removed. *)
(***************************************************************************)
EXTENDS Integers, FiniteSets

CONSTANTS
    Tenants,
    Creations,   \* CreateMember, RegisterCard or CreatePlan requests
    Removals,    \* DeleteCard or DeactivatePlan requests
    Nothing,
    MaxFaults    \* bound on faults: crashes, lost answers, failed calls

ASSUME ResourcesAssumption ==
    /\ IsFiniteSet(Creations)
    /\ Nothing \notin Creations
    /\ MaxFaults \in Nat

VARIABLES
    kind,        \* of which table this is
    owner,       \* [Creations -> the tenant that asks]
    provider,    \* objects at OpenPay
    row,         \* [Creations -> the state of the object's row]
    creation,    \* [Creations -> the step each takes next]
    answer,      \* [Creations -> the object it answered, or Nothing]
    removal,     \* [Removals -> the step each takes next and its object]
    blind,       \* creations of members that another one came before
    faults       \* faults so far

vars == <<kind, owner, provider, row, creation, answer, removal, blind, faults>>

-----------------------------------------------------------------------------
Kinds == {"member", "card", "plan"}

Running == {c \in Creations : creation[c] \in {"ask", "store"}}
Active == {c \in Creations : row[c] = "active"}
At(step) == {d \in Removals : removal[d].step = step}
Object(d) == removal[d].object

TypeOK ==
    /\ kind \in Kinds
    /\ owner \in [Creations -> Tenants]
    /\ provider \subseteq Creations
    /\ row \in [Creations ->
          {"none", "active"} \cup IF kind = "plan" THEN {"inactive"} ELSE {}]
    /\ creation \in [Creations -> {"new", "ask", "store", "answered", "failed"}]
    /\ answer \in [Creations -> Creations \cup {Nothing}]
    /\ removal \in [Removals ->
          [step : {"new"}, object : {Nothing}]
          \cup [step : {"delete", "drop", "answered", "refused", "failed"},
                object : Creations]]
    /\ blind \in Nat
    /\ faults \in 0 .. MaxFaults

Init ==
    /\ kind \in Kinds
    /\ owner \in [Creations -> Tenants]
    /\ provider = {}
    /\ row = [c \in Creations |-> "none"]
    /\ creation = [c \in Creations |-> "new"]
    /\ answer = [c \in Creations |-> Nothing]
    /\ removal = [d \in Removals |-> [step |-> "new", object |-> Nothing]]
    /\ blind = 0
    /\ faults = 0

Fault == faults < MaxFaults /\ faults' = faults + 1

Create(c, from, to) ==
    /\ creation[c] = from
    /\ creation' = [creation EXCEPT ![c] = to]
    /\ UNCHANGED <<kind, owner, removal>>

Remove(d, from, to) ==
    /\ removal[d].step = from
    /\ removal' = [removal EXCEPT ![d].step = to]
    /\ UNCHANGED <<kind, owner, creation, answer, blind>>

-----------------------------------------------------------------------------
(* GetByExternalID finds the member: no customer is created.               *)
Find(c) ==
    /\ kind = "member"
    /\ \E x \in Active :
        /\ owner[x] = owner[c]
        /\ answer' = [answer EXCEPT ![c] = x]
    /\ Create(c, "new", "answered")
    /\ UNCHANGED <<provider, row, blind, faults>>

(* The request goes on to OpenPay: there is no such member, or the request *)
(* has no idempotency key, or the lookup failed, which counts as no member.*)
Begin(c) ==
    /\ Create(c, "new", "ask")
    /\ blind' =
          IF kind = "member" /\ \E x \in Running \cup Active : owner[x] = owner[c]
          THEN blind + 1 ELSE blind
    /\ UNCHANGED <<provider, row, answer, faults>>

(* CreateCustomer, CreateCard or CreatePlan at OpenPay, ...                *)
CreateAtProvider(c) ==
    /\ Create(c, "ask", "store")
    /\ provider' = provider \cup {c}
    /\ UNCHANGED <<row, answer, blind, faults>>

(* ... which may decline the card, or an external id that it already has.  *)
DeclineCreation(c) ==
    /\ Create(c, "ask", "failed")
    /\ UNCHANGED <<provider, row, answer, blind, faults>>

(* Deviation: the external id is not unique.                               *)
StoreRowTwice(c) ==
    /\ Create(c, "store", "answered")
    /\ row' = [row EXCEPT ![c] = "active"]
    /\ answer' = [answer EXCEPT ![c] = c]
    /\ UNCHANGED <<provider, blind, faults>>

Taken(c) == kind = "member" /\ \E x \in Active : owner[x] = owner[c]

(* The INSERT.                                                             *)
StoreRow(c) ==
    /\ ~Taken(c)
    /\ Create(c, "store", "answered")
    /\ row' = [row EXCEPT ![c] = "active"]
    /\ answer' = [answer EXCEPT ![c] = c]
    /\ UNCHANGED <<provider, blind, faults>>

(* The unique index on tenant and external id refuses it.                  *)
StoreConflicts(c) ==
    /\ Taken(c)
    /\ Create(c, "store", "failed")
    /\ UNCHANGED <<provider, row, answer, blind, faults>>

(* A failed statement, a lost answer of OpenPay, or a crash.               *)
CreationFails(c) ==
    /\ c \in Running
    /\ Create(c, creation[c], "failed")
    /\ Fault
    /\ UNCHANGED <<provider, row, answer, blind>>

-----------------------------------------------------------------------------
(* GetCardByID, or plans.GetByID, which also finds an inactive plan.       *)
BeginRemoval(d) ==
    /\ kind # "member"
    /\ removal[d].step = "new"
    /\ \E x \in Creations :
        /\ row[x] # "none"
        /\ removal' = [removal EXCEPT ![d] = [step |-> "delete", object |-> x]]
    /\ UNCHANGED <<kind, owner, provider, row, creation, answer, blind, faults>>

(* Deviation: an object that OpenPay no longer has ends the removal.       *)
RemoveAtProviderStrictly(d) ==
    /\ Remove(d, "delete", IF Object(d) \in provider THEN "drop" ELSE "refused")
    /\ provider' = provider \ {Object(d)}
    /\ UNCHANGED <<row, faults>>

(* Deviation: OpenPay may keep the object, and the removal goes on.        *)
RemoveAtProviderTolerantly(d) ==
    /\ Remove(d, "delete", "drop")
    /\ provider' \in {provider, provider \ {Object(d)}}
    /\ UNCHANGED <<row, faults>>

(* DeleteCard or DeletePlan at OpenPay.  That it has none is as good.      *)
RemoveAtProvider(d) ==
    /\ Remove(d, "delete", "drop")
    /\ provider' = provider \ {Object(d)}
    /\ UNCHANGED <<row, faults>>

(* Deviation: cards are marked as plans are.                               *)
DeactivateRow(d) ==
    /\ Remove(d, "drop", "answered")
    /\ row' = [row EXCEPT ![Object(d)] = "inactive"]
    /\ UNCHANGED <<provider, faults>>

(* Deviation: the DELETE is filtered by the wrong id and affects no row.   *)
KeepRow(d) ==
    /\ Remove(d, "drop", "failed")
    /\ UNCHANGED <<provider, row, faults>>

(* DeleteCard or Deactivate.                                               *)
DropRow(d) ==
    /\ Remove(d, "drop", "answered")
    /\ row[Object(d)] # "none"
    /\ row' = [row EXCEPT ![Object(d)] = IF kind = "plan" THEN "inactive" ELSE "none"]
    /\ UNCHANGED <<provider, faults>>

(* Another request has deleted the card: no row is affected, an error.     *)
DropMisses(d) ==
    /\ Remove(d, "drop", "refused")
    /\ row[Object(d)] = "none"
    /\ UNCHANGED <<provider, row, faults>>

RemovalFails(d) ==
    /\ removal[d].step \in {"delete", "drop"}
    /\ Remove(d, removal[d].step, "failed")
    /\ Fault
    /\ UNCHANGED <<provider, row>>

CreationStep(c) ==
    \/ Find(c) \/ Begin(c) \/ CreateAtProvider(c) \/ DeclineCreation(c)
    \/ StoreRow(c) \/ StoreConflicts(c) \/ CreationFails(c)

RemovalStep(d) ==
    \/ BeginRemoval(d) \/ RemoveAtProvider(d)
    \/ DropRow(d) \/ DropMisses(d) \/ RemovalFails(d)

Next ==
    \/ \E c \in Creations : CreationStep(c)
    \/ \E d \in Removals : RemovalStep(d)

Spec == Init /\ [][Next]_vars

-----------------------------------------------------------------------------
(* All requests of a tenant for a member with one external id that succeed *)
(* answer the same member, whose row and customer exist: also those that   *)
(* raced, or came without a key.                                           *)
AnswersAgree ==
    kind = "member" =>
        \A c, x \in Creations :
            answer[c] # Nothing /\ answer[x] # Nothing /\ owner[c] = owner[x] =>
                answer[c] = answer[x] /\ answer[c] \in Active \cap provider

(* An object that is left at OpenPay without a row took a fault, or is the *)
(* customer of a member that was created again (creations race, or have no *)
(* key).  No removal leaves one: OpenPay is asked first.                   *)
Orphans == provider \ (Active \cup {c \in Creations : creation[c] = "store"})
OrphansBounded == Cardinality(Orphans) <= faults + blind

(* An active row whose object OpenPay no longer has (a card that cannot be *)
(* charged, a plan nobody can subscribe to) is about to be dropped, or its *)
(* removal took a fault.                                                   *)
StaleRows == Active \ (provider \cup {Object(d) : d \in At("drop")})
StaleBounded == Cardinality(StaleRows) <= faults

(* A removal that has answered, or that failed without a fault, finds the  *)
(* object gone from both sides for good: one that was cut short can always *)
(* be repeated.                                                            *)
RemovalsHold ==
    \A d \in At("answered") \cup At("refused") :
        Object(d) \notin Active \cup provider
=============================================================================
