------------------------------- MODULE Billing -------------------------------
(***************************************************************************)
(* Billing (util/billing.go, main.go).                                     *)
(*                                                                         *)
(* A job asks ACCAPI every hour what the installation has paid for and     *)
(* copies the answer into package variables one after another; the billing *)
(* middleware lets a request pass by what these variables hold at that     *)
(* moment.  While ACCAPI is down the job copies the last answer again.     *)
(***************************************************************************)
EXTENDS Integers

CONSTANTS
    Modes,          \* the ways of billing a build may have
    Tiers,          \* plans ACCAPI may name
    Highest,        \* the plan assumed when ACCAPI has never answered
    None,
    Interval,       \* PLAN_REFRESH_INTERVAL of the build, None if not given
    ShortGrace,     \* maxErrorTime at the start (168 hours)
    LongGrace,      \* maxErrorTime of a long subscription (720 hours)
    MaxPaid,        \* bound: the latest time anyone pays for
    MaxTime         \* bound: the clock stops there

\* What setBillingVarsArcInstance and setBillingVarsCluster read of an answer.
\* lasting: subscribed, not canceled and for more than sixty days.  until is for
\* the properties only: the paidUntil the validity was computed from.
Plan == [validity: (-MaxTime)..MaxPaid, tier: Tiers \cup {None}, lasting: BOOLEAN, until: 0..MaxPaid]

Fields == {"validity", "grace", "plan", "tier"}

ASSUME BillingAssumption ==
    /\ Modes \subseteq {"arc", "hosted", "cluster"}
    /\ None \notin Tiers \cup {Highest} \cup Plan \cup (0..MaxPaid)
    /\ ShortGrace \in Nat \ {0} /\ LongGrace \in Nat /\ LongGrace >= ShortGrace
    /\ Interval \in Nat \cup {None}
    /\ MaxPaid \in Nat /\ MaxTime \in Nat /\ MaxPaid <= MaxTime

VARIABLES
    now, paidUntil,     \* the world: the clock, and until when it is paid for
    mode,
    serving,            \* the server listens; main calls the job once before
    validity,           \* timeValidity as of the last answer
    grace,              \* maxErrorTime
    plan,               \* planDetails
    tier,
    invalid,            \* isInvalidArcIDUsed
    step,               \* the job: the assignment to make next, 0 between two runs
    answer,             \* ... and the answer they are made from
    contact             \* history: the until of the answer validity is from

world == <<now, paidUntil, mode>>
settings == <<validity, grace, plan, tier, invalid>>
vars == <<now, paidUntil, mode, serving, validity, grace, plan, tier, invalid,
          step, answer, contact>>

Init ==
    /\ now = 0
    /\ paidUntil \in 0..MaxPaid
    /\ mode \in Modes
    /\ serving = FALSE
    /\ validity = 0
    /\ grace = ShortGrace
    /\ plan = None
    /\ tier = None
    /\ invalid = FALSE
    /\ step = 0
    /\ answer = None
    /\ contact = None

-----------------------------------------------------------------------------
(* The job: ReportUsage, ReportHostedArcUsage or SetClusterPlan.  Reporting *)
(* the usage, its last part, leaves these variables as they are.            *)

\* cron refuses the schedule made of a given interval: its hours are 0-59.  The
\* error of AddFunc is dropped; only "default is hourly" is ever scheduled.
Scheduled == Interval = None

\* The order of the assignments in the two functions.
Assignments ==
    IF mode = "cluster" THEN <<"plan", "tier", "validity", "grace">>
                        ELSE <<"validity", "grace", "plan", "tier">>

\* main runs the job itself before it listens.
Due == step = 0 /\ (serving => Scheduled)

Begin(a) ==
    /\ answer' = a
    /\ step' = 1

\* ValidateArcID, bad with status 400; for clusters it is not called, and in
\* mode "arc" not when the body of the answer cannot be read.
ValidateArcID(bad, read) ==
    invalid' = IF mode = "cluster" \/ (mode = "arc" /\ ~ read) THEN invalid
               ELSE bad

\* ACCAPI has a plan; only the one of a cluster needs to be named.
RefreshAnswered ==
    /\ Due
    /\ ValidateArcID(FALSE, TRUE)
    /\ \E t \in Tiers \cup (IF mode = "cluster" THEN {} ELSE {None}), l \in BOOLEAN :
          Begin([validity |-> paidUntil - now, tier |-> t, lasting |-> l, until |-> paidUntil])
    /\ UNCHANGED <<world, serving, validity, grace, plan, tier, contact>>

\* An answer without a plan: an error, an empty list, or a body cut off.
RefreshRefused ==
    /\ Due
    /\ \E bad, read \in BOOLEAN : ValidateArcID(bad, read)
    /\ serving' = TRUE
    /\ UNCHANGED <<world, validity, grace, plan, tier, step, answer, contact>>

\* ACCAPI is down: the last answer is used again.
RefreshRepeated ==
    /\ Due
    /\ plan # None
    /\ Begin(plan)
    /\ UNCHANGED <<world, serving, settings, contact>>

\* ... or there is none: before the server listens the call to its own
\* /arc/plan/fs fails too and the highest plan is assumed; later that call is
\* answered, by no route of this repository, with a body that has no plan.
RefreshWithoutPlan ==
    /\ Due
    /\ plan = None
    /\ tier' = IF serving \/ tier # None THEN tier ELSE Highest
    /\ serving' = TRUE
    /\ UNCHANGED <<world, validity, grace, plan, invalid, step, answer, contact>>

\* Seeded fault: what is left to pay is added to what was left.
NewGraceAdded(a) == IF a.lasting THEN grace + LongGrace ELSE grace

\* setMaxErrorTime only ever extends.
NewGrace(a) == IF a.lasting THEN LongGrace ELSE grace

\* Seeded fault: a tier that is set is kept.
NewTierOnce(a) == IF tier = None THEN a.tier ELSE tier

NewTier(a) == a.tier

\* The next assignment.
Assign(f) ==
    /\ step # 0 /\ Assignments[step] = f
    /\ step' = IF step = 4 THEN 0 ELSE step + 1
    /\ IF f = "validity"
       THEN validity' = answer.validity /\ contact' = answer.until
       ELSE UNCHANGED <<validity, contact>>
    /\ grace' = IF f = "grace" THEN NewGrace(answer) ELSE grace
    /\ plan' = IF f = "plan" THEN answer ELSE plan
    /\ tier' = IF f = "tier" THEN NewTier(answer) ELSE tier
    /\ serving' = (serving \/ step = 4)
    /\ UNCHANGED <<world, invalid, answer>>

-----------------------------------------------------------------------------
(* The world.                                                               *)

Tick ==
    /\ now < MaxTime
    /\ now' = now + 1
    /\ UNCHANGED <<paidUntil, mode, serving, settings, step, answer, contact>>

Pay ==
    /\ \E t \in (paidUntil + 1)..MaxPaid : paidUntil' = t
    /\ UNCHANGED <<now, mode, serving, settings, step, answer, contact>>

Refresh == RefreshAnswered \/ RefreshRefused \/ RefreshRepeated \/ RefreshWithoutPlan

Next ==
    \/ Refresh
    \/ \E f \in Fields : Assign(f)
    \/ Tick
    \/ Pay

Spec == Init /\ [][Next]_vars

\* Time passes, cron runs the job as scheduled, and ACCAPI is not down for ever.
FairSpec ==
    /\ Spec
    /\ WF_vars(Tick)
    /\ \A f \in Fields : WF_vars(Assign(f))
    /\ SF_vars(RefreshAnswered)

-----------------------------------------------------------------------------
(* The middleware.                                                          *)

\* Seeded faults: the grace is dropped; the sign of the validity is lost.
ValidateNow == validity > 0
ValidateUnsigned == validity > 0 \/ validity < grace

validateTimeValidity == validity > 0 \/ -validity < grace

BillingMiddlewarePasses == ~ invalid /\ validateTimeValidity

-----------------------------------------------------------------------------
TypeOK ==
    /\ now \in 0..MaxTime
    /\ paidUntil \in 0..MaxPaid
    /\ mode \in Modes
    /\ serving \in BOOLEAN
    /\ validity \in (-MaxTime)..MaxPaid
    /\ grace \in {ShortGrace, LongGrace}
    /\ plan \in Plan \cup {None}
    /\ tier \in Tiers \cup {Highest, None}
    /\ invalid \in BOOLEAN
    /\ step \in 0..4
    /\ answer \in Plan \cup {None}
    /\ contact \in (0..MaxPaid) \cup {None}

\* 402 is an answer to somebody who had not paid: while requests are refused,
\* the time that was paid for when ACCAPI last told is over by the grace, also
\* in the middle of the assignments, after answers without a plan and during an
\* outage, in which stale answers are applied again.
RefusedWasUnpaid ==
    serving /\ ~ validateTimeValidity =>
        /\ contact # None
        /\ now >= contact + ShortGrace

\* Between two runs of the job the tier, the validity and the stored plan come
\* from one and the same answer, however runs failed in between.
SettingsAgree ==
    step = 0 /\ plan # None => validity = plan.validity /\ tier = plan.tier

\* Who stops paying is refused in the end, although the validity is not
\* counted down between answers and is renewed from the old one in outages.
\* It takes the hourly schedule: "to change the default interval of 1 hour"
\* (Dockerfile, which gives one itself) leaves the job without any, and the
\* first validity for ever.
ExpiredIsRefused == <>[](~ BillingMiddlewarePasses)
=============================================================================
