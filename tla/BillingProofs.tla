---------------------------- MODULE BillingProofs ----------------------------
(***************************************************************************)
(* Nobody who has paid is refused, and the settings agree between runs of  *)
(* the job, for any length of the graces and any times of payment.  The    *)
(* argument: an answer, wherever it is kept, promises at least what is     *)
(* left of its time (Promised), and the assignments already made are those *)
(* of the present answer (Assigned).                                       *)
(***************************************************************************)
EXTENDS Billing, TLAPS

\* An answer that is used, or kept to be used again.
Kept(a) == a \in Plan /\ a.validity >= a.until - now

\* validity is at least what is left of the time it was computed from.
Promised ==
    /\ step # 0 => Kept(answer)
    /\ plan # None => Kept(plan)
    /\ contact = None => validity = 0
    /\ contact # None => validity >= contact - now

\* What has been assigned in this run is of its answer, and between runs
\* everything is of the stored plan.
Assigned ==
    /\ mode # "cluster" =>
          /\ step \in {2, 3, 4} => validity = answer.validity
          /\ step = 4 => plan = answer
    /\ mode = "cluster" =>
          /\ step \in {2, 3, 4} => plan = answer
          /\ step \in {3, 4} => tier = answer.tier
          /\ step = 4 => validity = answer.validity
    /\ SettingsAgree

\* The inductive invariant.
IInv == TypeOK /\ Promised /\ Assigned

-----------------------------------------------------------------------------
\* Nothing is assigned at the start.
LEMMA InitIInv == Init => IInv
<1>. SUFFICES ASSUME Init PROVE IInv
  OBVIOUS
<1>1. TypeOK
  <2>1. now \in 0..MaxTime /\ validity \in (-MaxTime)..MaxPaid
    BY BillingAssumption DEF Init
  <2>2. serving \in BOOLEAN /\ invalid \in BOOLEAN
    BY Zenon DEF Init
  <2>3. step \in 0..4
    BY DEF Init
  <2>. QED
    BY <2>1, <2>2, <2>3 DEF Init, TypeOK
<1>2. Promised /\ Assigned
  BY DEF Init, Promised, Assigned, SettingsAgree
<1>. QED
  BY <1>1, <1>2 DEF IInv

\* A fresh answer promises exactly what is left.
LEMMA RefreshAnsweredIInv == IInv /\ RefreshAnswered => IInv'
<1>. SUFFICES ASSUME IInv, RefreshAnswered PROVE IInv'
  OBVIOUS
<1>. USE DEF IInv, world, settings
<1>1. PICK t \in Tiers \cup {None}, l \in BOOLEAN :
         Begin([validity |-> paidUntil - now, tier |-> t, lasting |-> l, until |-> paidUntil])
  BY DEF RefreshAnswered
<1>2. answer' \in Plan /\ answer'.validity = answer'.until - now /\ step = 0 /\ step' = 1
  <2>1. paidUntil - now \in (-MaxTime)..MaxPaid
    BY BillingAssumption DEF TypeOK
  <2>. QED
    BY <1>1, <2>1 DEF Begin, Plan, RefreshAnswered, Due, TypeOK
<1>3. /\ UNCHANGED <<now, paidUntil, mode, serving, validity, grace, plan, tier, contact>>
      /\ invalid' \in BOOLEAN
  <2>1. ValidateArcID(FALSE, TRUE) /\ invalid \in BOOLEAN
    BY DEF RefreshAnswered, TypeOK
  <2>2. invalid' \in BOOLEAN
    BY <2>1 DEF ValidateArcID
  <2>. QED
    BY <2>2 DEF RefreshAnswered
<1>4. TypeOK'
  BY <1>2, <1>3 DEF TypeOK
<1>5. Kept(answer)'
  BY <1>2, <1>3, BillingAssumption DEF Kept, Plan, TypeOK
<1>6. Promised'
  BY <1>2, <1>3, <1>5 DEF Promised, Kept
<1>7. Assigned'
  BY <1>2, <1>3 DEF Assigned, SettingsAgree
<1>. QED
  BY <1>4, <1>6, <1>7

\* An answer without a plan leaves everything but invalid and serving.
LEMMA RefreshRefusedIInv == IInv /\ RefreshRefused => IInv'
<1>. SUFFICES ASSUME IInv, RefreshRefused PROVE IInv'
  OBVIOUS
<1>1. /\ UNCHANGED <<now, paidUntil, mode, validity, grace, plan, tier, step, answer, contact>>
      /\ invalid' \in BOOLEAN /\ serving' \in BOOLEAN
  BY DEF RefreshRefused, ValidateArcID, IInv, TypeOK, world
<1>. QED
  BY <1>1 DEF IInv, TypeOK, Promised, Kept, Assigned, SettingsAgree

\* The stored answer still promises at least what is left of its time.
LEMMA RefreshRepeatedIInv == IInv /\ RefreshRepeated => IInv'
<1>. SUFFICES ASSUME IInv, RefreshRepeated PROVE IInv'
  OBVIOUS
<1>1. /\ UNCHANGED <<now, paidUntil, mode, serving, validity, grace, plan, tier, invalid, contact>>
      /\ step = 0 /\ step' = 1 /\ answer' = plan /\ plan # None
  BY DEF RefreshRepeated, Begin, Due, world, settings
<1>. QED
  BY <1>1 DEF IInv, TypeOK, Promised, Kept, Assigned, SettingsAgree

\* The highest plan is assumed only while there is no stored one.
LEMMA RefreshWithoutPlanIInv == IInv /\ RefreshWithoutPlan => IInv'
<1>. SUFFICES ASSUME IInv, RefreshWithoutPlan PROVE IInv'
  OBVIOUS
<1>1. /\ UNCHANGED <<now, paidUntil, mode, validity, grace, plan, invalid, step, answer, contact>>
      /\ plan = None /\ tier' \in {tier, Highest} /\ serving' \in BOOLEAN
      /\ step = 0
  BY DEF RefreshWithoutPlan, world, Due
<1>. QED
  BY <1>1 DEF IInv, TypeOK, Promised, Kept, Assigned, SettingsAgree

-----------------------------------------------------------------------------
\* Of every assignment: the types, and the variables it leaves alone.
LEMMA AssignTypes ==
    ASSUME IInv, NEW f \in Fields, Assign(f)
    PROVE  /\ TypeOK'
           /\ step \in 1..4 /\ f = Assignments[step]
           /\ step' = IF step = 4 THEN 0 ELSE step + 1
           /\ Kept(answer) /\ Kept(answer)'
           /\ UNCHANGED <<now, mode, answer>>
<1>. USE DEF IInv
<1>1. /\ UNCHANGED <<now, paidUntil, mode, invalid, answer>>
      /\ step \in 1..4 /\ f = Assignments[step]
      /\ step' = IF step = 4 THEN 0 ELSE step + 1
  BY DEF Assign, TypeOK, world
<1>2. Kept(answer) /\ Kept(answer)'
  BY <1>1 DEF Promised, Kept
<1>3. answer.validity \in (-MaxTime)..MaxPaid /\ answer.tier \in Tiers \cup {None} /\ answer.until \in 0..MaxPaid
  BY <1>2 DEF Kept, Plan
<1>4. /\ validity' \in (-MaxTime)..MaxPaid
      /\ contact' \in (0..MaxPaid) \cup {None}
  BY <1>3 DEF Assign, TypeOK
<1>5. grace' \in {ShortGrace, LongGrace}
  BY DEF Assign, NewGrace, TypeOK
<1>6. plan' \in Plan \cup {None} /\ tier' \in Tiers \cup {Highest, None}
  BY <1>2, <1>3 DEF Assign, NewTier, TypeOK, Kept
<1>7. serving' \in BOOLEAN /\ step' \in 0..4
  BY <1>1 DEF Assign
<1>. QED
  BY <1>1, <1>2, <1>4, <1>5, <1>6, <1>7 DEF TypeOK

\* The order of the assignments.
LEMMA Order ==
    ASSUME NEW k \in 1..4
    PROVE  /\ mode # "cluster" =>
              /\ Assignments[k] = "validity" <=> k = 1
              /\ Assignments[k] = "grace" <=> k = 2
              /\ Assignments[k] = "plan" <=> k = 3
              /\ Assignments[k] = "tier" <=> k = 4
           /\ mode = "cluster" =>
              /\ Assignments[k] = "plan" <=> k = 1
              /\ Assignments[k] = "tier" <=> k = 2
              /\ Assignments[k] = "validity" <=> k = 3
              /\ Assignments[k] = "grace" <=> k = 4
<1>1. k = 1 \/ k = 2 \/ k = 3 \/ k = 4
  OBVIOUS
<1>. QED
  BY <1>1 DEF Assignments

\* An assignment copies from an answer that promises enough.
LEMMA AssignPromised == ASSUME IInv, NEW f \in Fields, Assign(f) PROVE Promised'
<1>1. /\ Kept(answer)' /\ Kept(answer) /\ UNCHANGED <<now, answer>> /\ TypeOK'
  BY AssignTypes
<1>2. (plan # None => Kept(plan))'
  BY <1>1 DEF Assign, IInv, Promised, Kept
<1>3. CASE f = "validity"
  <2>1. validity' = answer.validity /\ contact' = answer.until /\ answer.until \in 0..MaxPaid
    BY <1>1, <1>3 DEF Assign, Kept, Plan
  <2>2. contact' # None /\ validity' >= contact' - now'
    BY <2>1, <1>1, BillingAssumption DEF Kept
  <2>. QED
    BY <1>1, <1>2, <2>2 DEF Promised
<1>4. CASE f # "validity"
  BY <1>1, <1>2, <1>4 DEF Promised, Assign, IInv
<1>. QED
  BY <1>3, <1>4

\* The assignments made so far are those of the answer, and the last one
\* makes the settings agree.
LEMMA AssignAssigned == ASSUME IInv, NEW f \in Fields, Assign(f) PROVE Assigned'
<1>. USE DEF IInv
<1>1. /\ step \in 1..4 /\ f = Assignments[step]
      /\ step' = IF step = 4 THEN 0 ELSE step + 1
      /\ UNCHANGED <<now, mode, answer>>
  BY AssignTypes
<1>2. /\ f = "validity" => validity' = answer.validity
      /\ f # "validity" => validity' = validity
      /\ plan' = IF f = "plan" THEN answer ELSE plan
      /\ tier' = IF f = "tier" THEN answer.tier ELSE tier
  BY DEF Assign, NewTier
<1>3. CASE mode # "cluster"
  <2>1. /\ f = "validity" <=> step = 1
        /\ f = "plan" <=> step = 3
        /\ f = "tier" <=> step = 4
    BY <1>1, <1>3, Order
  <2>. QED
    BY <1>1, <1>2, <1>3, <2>1 DEF Assigned, SettingsAgree
<1>4. CASE mode = "cluster"
  <2>1. /\ f = "plan" <=> step = 1
        /\ f = "tier" <=> step = 2
        /\ f = "validity" <=> step = 3
    BY <1>1, <1>4, Order
  <2>. QED
    BY <1>1, <1>2, <1>4, <2>1 DEF Assigned, SettingsAgree
<1>. QED
  BY <1>3, <1>4

-----------------------------------------------------------------------------
\* Time only lessens what is left.
LEMMA TickIInv == IInv /\ Tick => IInv'
<1>. SUFFICES ASSUME IInv, Tick PROVE IInv'
  OBVIOUS
<1>1. /\ now' = now + 1 /\ now' \in 0..MaxTime
      /\ UNCHANGED <<paidUntil, mode, serving, validity, grace, plan, tier, invalid,
                     step, answer, contact>>
  BY BillingAssumption DEF Tick, IInv, TypeOK, settings
<1>2. TypeOK'
  BY <1>1 DEF IInv, TypeOK
<1>3. ASSUME NEW a, Kept(a) PROVE a \in Plan /\ a.validity >= a.until - now'
  BY <1>1, <1>3, BillingAssumption DEF Kept, Plan, IInv, TypeOK
<1>4. (step # 0 => Kept(answer))' /\ (plan # None => Kept(plan))'
  BY <1>1, <1>3 DEF IInv, Promised, Kept
<1>5. contact # None => validity >= contact - now'
  BY <1>1, BillingAssumption DEF IInv, Promised, TypeOK
<1>6. Promised'
  BY <1>1, <1>4, <1>5 DEF IInv, Promised
<1>7. Assigned'
  BY <1>1 DEF IInv, Assigned, SettingsAgree
<1>. QED
  BY <1>2, <1>6, <1>7 DEF IInv

\* What is paid now is not in the settings yet.
LEMMA PayIInv == IInv /\ Pay => IInv'
<1>. SUFFICES ASSUME IInv, Pay PROVE IInv'
  OBVIOUS
<1>1. /\ paidUntil' \in 0..MaxPaid
      /\ UNCHANGED <<now, mode, serving, validity, grace, plan, tier, invalid,
                     step, answer, contact>>
  BY BillingAssumption DEF Pay, IInv, TypeOK, settings
<1>. QED
  BY <1>1 DEF IInv, TypeOK, Promised, Kept, Assigned, SettingsAgree

\* IInv is inductive.
LEMMA NextIInv == IInv /\ [Next]_vars => IInv'
<1>. SUFFICES ASSUME IInv, [Next]_vars PROVE IInv'
  OBVIOUS
<1>1. CASE Refresh
  BY <1>1, RefreshAnsweredIInv, RefreshRefusedIInv, RefreshRepeatedIInv, RefreshWithoutPlanIInv
     DEF Refresh
<1>2. ASSUME NEW f \in Fields, Assign(f) PROVE IInv'
  BY <1>2, AssignTypes, AssignPromised, AssignAssigned DEF IInv
<1>3. CASE Tick
  BY <1>3, TickIInv
<1>4. CASE Pay
  BY <1>4, PayIInv
<1>5. CASE UNCHANGED vars
  BY <1>5 DEF vars, IInv, TypeOK, Promised, Kept, Assigned, SettingsAgree
<1>. QED
  BY <1>1, <1>2, <1>3, <1>4, <1>5 DEF Next

\* The inductive invariant holds in every state.
THEOREM Inductive == Spec => []IInv
BY InitIInv, NextIInv, PTL DEF Spec

\* The settings and the job keep their types (util/billing.go).
THEOREM TypeCorrect == Spec => []TypeOK
<1>1. IInv => TypeOK
  BY DEF IInv
<1>. QED
  BY <1>1, Inductive, PTL

\* Whoever is refused had not paid, as of the last answer, for at least the
\* short grace (BillingMiddleware and the job it goes by).
THEOREM OnlyUnpaidAreRefused == Spec => []RefusedWasUnpaid
<1>1. ASSUME IInv, ~ validateTimeValidity
      PROVE  contact # None /\ now >= contact + ShortGrace
  <2>1. validity \in Int /\ grace \in Nat /\ grace >= ShortGrace /\ ShortGrace \in Nat \ {0}
    BY <1>1, BillingAssumption DEF IInv, TypeOK
  <2>2. validity <= -ShortGrace /\ validity # 0
    BY <1>1, <2>1 DEF validateTimeValidity
  <2>3. contact # None /\ validity >= contact - now
    BY <1>1, <2>2 DEF IInv, Promised
  <2>4. contact \in Int /\ now \in Int
    BY <1>1, <2>3, BillingAssumption DEF IInv, TypeOK
  <2>. QED
    BY <2>1, <2>2, <2>3, <2>4
<1>2. IInv => RefusedWasUnpaid
  BY <1>1 DEF RefusedWasUnpaid
<1>. QED
  BY <1>2, Inductive, PTL

\* Between two runs of the job the validity and the tier are those of the
\* stored plan (setBillingVarsArcInstance, setBillingVarsCluster).
THEOREM SettingsOfOneAnswer == Spec => []SettingsAgree
<1>1. IInv => SettingsAgree
  BY DEF IInv, Assigned
<1>. QED
  BY <1>1, Inductive, PTL
=============================================================================
