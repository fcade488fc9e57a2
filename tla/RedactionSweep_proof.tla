------------------------ MODULE RedactionSweep_proof ------------------------
(***************************************************************************)
(* TLAPS proofs about RedactionSweep, for any events, senders, rooms, page *)
(* size, number of workers and number of changes of Synapse's database.    *)
(***************************************************************************)
EXTENDS RedactionSweep, TLAPS, FiniteSetTheorems, SequenceTheorems,
        WellFoundedInduction

(* The kinds of outcomes are sets of a few strings, expanded everywhere.   *)
USE DEF Reported, Returned, Outcomes

-----------------------------------------------------------------------------
(* The order of the candidates, and the page taken from it. *)

LEMMA BeforeIsAnOrder ==
  /\ \A e \in Events : ~Before(e, e)
  /\ \A d, e, f \in Events : Before(d, e) /\ Before(e, f) => Before(d, f)
  /\ \A d, e \in Events : d = e \/ Before(d, e) \/ Before(e, d)
BY EventsAssumption, AttributesAssumption DEF Before

LEMMA FiniteEvents ==
  ASSUME NEW S \in SUBSET Events
  PROVE  IsFiniteSet(S) /\ Cardinality(S) \in Nat
BY EventsAssumption, FS_Subset, FS_CardinalityType

LEMMA DisjointUnion ==
  ASSUME NEW S, NEW T, IsFiniteSet(S), IsFiniteSet(T), \A x \in S : x \notin T
  PROVE  /\ IsFiniteSet(S \cup T)
         /\ Cardinality(S \cup T) = Cardinality(S) + Cardinality(T)
<1>1. S \cap T = {} /\ Cardinality({}) = 0
  BY FS_EmptySet
<1>2. Cardinality(S) \in Nat /\ Cardinality(T) \in Nat
  BY FS_CardinalityType
<1>3. /\ IsFiniteSet(S \cup T)
      /\ Cardinality(S \cup T) = Cardinality(S) + Cardinality(T) - Cardinality(S \cap T)
  BY FS_Union, Zenon
<1>4. Cardinality(S \cap T) = 0
  BY <1>1
<1> QED
  BY <1>2, <1>3, <1>4

LEMMA UnionBound ==
  ASSUME NEW S, NEW F, NEW A, NEW C,
         IsFiniteSet(S), IsFiniteSet(F), IsFiniteSet(A), IsFiniteSet(C)
  PROVE  /\ IsFiniteSet((S \cup F) \cup (A \cup C))
         /\ Cardinality((S \cup F) \cup (A \cup C)) <=
              Cardinality(S) + Cardinality(F) + Cardinality(A) + Cardinality(C)
<1>1. ASSUME NEW X, NEW Y, IsFiniteSet(X), IsFiniteSet(Y)
      PROVE  /\ IsFiniteSet(X \cup Y) /\ Cardinality(X \cup Y) \in Nat
             /\ Cardinality(X \cup Y) <= Cardinality(X) + Cardinality(Y)
  <2>1. /\ IsFiniteSet(X \cup Y)
        /\ Cardinality(X \cup Y) = Cardinality(X) + Cardinality(Y) - Cardinality(X \cap Y)
    BY <1>1, FS_Union, Zenon
  <2>2. IsFiniteSet(X \cap Y)
    BY <1>1, FS_Subset
  <2>3. /\ Cardinality(X) \in Nat /\ Cardinality(Y) \in Nat
        /\ Cardinality(X \cap Y) \in Nat /\ Cardinality(X \cup Y) \in Nat
    BY <1>1, <2>1, <2>2, FS_CardinalityType
  <2> QED
    BY <2>1, <2>3
<1>2. /\ IsFiniteSet(S \cup F) /\ Cardinality(S \cup F) \in Nat
      /\ Cardinality(S \cup F) <= Cardinality(S) + Cardinality(F)
  BY <1>1
<1>3. /\ IsFiniteSet(A \cup C) /\ Cardinality(A \cup C) \in Nat
      /\ Cardinality(A \cup C) <= Cardinality(A) + Cardinality(C)
  BY <1>1
<1>4. /\ IsFiniteSet((S \cup F) \cup (A \cup C))
      /\ Cardinality((S \cup F) \cup (A \cup C)) \in Nat
      /\ Cardinality((S \cup F) \cup (A \cup C)) <=
           Cardinality(S \cup F) + Cardinality(A \cup C)
  BY <1>1, <1>2, <1>3
<1>5. /\ Cardinality(S) \in Nat /\ Cardinality(F) \in Nat
      /\ Cardinality(A) \in Nat /\ Cardinality(C) \in Nat
  BY FS_CardinalityType
<1> QED
  BY <1>2, <1>3, <1>4, <1>5

(* A finite set that is not empty has a minimal element in any order. *)
LEMMA MinimalExists ==
  ASSUME NEW S, IsFiniteSet(S), S # {}, NEW R,
         \A x \in S : <<x, x>> \notin R,
         \A x, y, z \in S : <<x, y>> \in R /\ <<y, z>> \in R => <<x, z>> \in R
  PROVE  \E x \in S : \A y \in S : <<y, x>> \notin R
<1> DEFINE Below(x) == {y \in S : <<y, x>> \in R}
           Ranks == {Cardinality(Below(x)) : x \in S}
<1>1. \A x \in S : IsFiniteSet(Below(x)) /\ Cardinality(Below(x)) \in Nat
  <2> TAKE x \in S
  <2>1. Below(x) \in SUBSET S
    OBVIOUS
  <2> QED
    BY <2>1, FS_Subset, FS_CardinalityType
<1>2. Ranks \subseteq Nat /\ Ranks # {}
  <2> HIDE DEF Below
  <2> QED
    BY <1>1
<1>3. PICK m \in Ranks : \A n \in Ranks : ~(n < m)
  <2> HIDE DEF Ranks
  <2>1. PICK m \in Ranks : \A n \in Ranks : <<n, m>> \notin OpToRel(<, Nat)
    BY <1>2, NatLessThanWellFounded, WFMin
  <2> QED
    BY <1>2, <2>1 DEF OpToRel
<1>4. PICK x \in S : m = Cardinality(Below(x))
  <2> HIDE DEF Below
  <2> QED
    OBVIOUS
<1>5. SUFFICES ASSUME NEW y \in S, <<y, x>> \in R PROVE FALSE
  BY <1>4
<1>6. Below(y) \in SUBSET Below(x) /\ y \in Below(x) /\ y \notin Below(y)
  BY <1>5
<1>7. Cardinality(Below(y)) < Cardinality(Below(x))
  <2> HIDE DEF Below
  <2> QED
    BY <1>1, <1>6, FS_Subset
<1>8. Cardinality(Below(y)) \in Ranks
  <2> HIDE DEF Below
  <2> QED
    OBVIOUS
<1> QED
  BY <1>3, <1>4, <1>7, <1>8

LEMMA FirstAndLastExist ==
  ASSUME NEW S \in SUBSET Events, S # {}
  PROVE  /\ \E e \in S : \A d \in S : ~Before(d, e)
         /\ \E e \in S : \A d \in S \ {e} : Before(d, e)
<1> DEFINE R == {p \in S \X S : Before(p[1], p[2])}
           Q == {p \in S \X S : Before(p[2], p[1])}
<1>1. \A x, y \in S : /\ <<x, y>> \in R <=> Before(x, y)
                      /\ <<x, y>> \in Q <=> Before(y, x)
  OBVIOUS
<1> HIDE DEF R, Q
<1>2. /\ \A x \in S : <<x, x>> \notin R /\ <<x, x>> \notin Q
      /\ \A x, y, z \in S : <<x, y>> \in R /\ <<y, z>> \in R => <<x, z>> \in R
      /\ \A x, y, z \in S : <<x, y>> \in Q /\ <<y, z>> \in Q => <<x, z>> \in Q
  <2>1. \A x \in S : x \in Events
    OBVIOUS
  <2> QED
    BY <1>1, <2>1, BeforeIsAnOrder
<1>3. IsFiniteSet(S)
  BY FiniteEvents
<1>4. \E e \in S : \A d \in S : <<d, e>> \notin R
  BY <1>2, <1>3, MinimalExists
<1>5. \E e \in S : \A d \in S : <<d, e>> \notin Q
  BY <1>2, <1>3, MinimalExists
<1> QED
  BY <1>1, <1>4, <1>5, BeforeIsAnOrder

(* A page is a prefix of what is left, empty only when nothing is left,    *)
(* and no longer than BATCH_SIZE.                                          *)
LEMMA PageIsPrefix ==
  ASSUME NEW rest \in SUBSET Events
  PROVE  /\ Page(rest) \in SUBSET rest
         /\ Page(rest) = {} => rest = {}
         /\ \A d \in Page(rest), e \in rest \ Page(rest) : Before(d, e)
         /\ Cardinality(Page(rest)) <= BatchSize
<1> DEFINE Ahead(e) == {d \in rest : Before(d, e)}
<1>0. BatchSize \in Nat /\ BatchSize > 0
  BY ConfigAssumption
<1>1. \A e : IsFiniteSet(Ahead(e)) /\ Cardinality(Ahead(e)) \in Nat
  BY FiniteEvents
<1>2. \A e \in rest : e \in Page(rest) <=> Cardinality(Ahead(e)) < BatchSize
  BY DEF Page
<1>3. \A d, e \in rest : Before(d, e) => Cardinality(Ahead(d)) < Cardinality(Ahead(e))
  <2> SUFFICES ASSUME NEW d \in rest, NEW e \in rest, Before(d, e)
               PROVE  Cardinality(Ahead(d)) < Cardinality(Ahead(e))
    OBVIOUS
  <2>1. Ahead(d) \in SUBSET Ahead(e) /\ d \in Ahead(e) /\ d \notin Ahead(d)
    BY BeforeIsAnOrder
  <2> HIDE DEF Ahead
  <2> QED
    BY <1>1, <2>1, FS_Subset
<1>4. Page(rest) \in SUBSET rest
  BY DEF Page
<1>5. ASSUME rest # {} PROVE Page(rest) # {}
  <2>1. PICK e \in rest : \A d \in rest : ~Before(d, e)
    BY <1>5, FirstAndLastExist
  <2>2. Ahead(e) = {}
    BY <2>1
  <2>3. Cardinality(Ahead(e)) = 0
    BY <2>2, FS_EmptySet
  <2> QED
    BY <1>0, <1>2, <2>3
<1>6. \A d \in Page(rest), e \in rest \ Page(rest) : Before(d, e)
  <2> HIDE DEF Ahead
  <2> SUFFICES ASSUME NEW d \in Page(rest), NEW e \in rest \ Page(rest)
               PROVE  Before(d, e)
    OBVIOUS
  <2>1. Cardinality(Ahead(d)) < BatchSize /\ ~(Cardinality(Ahead(e)) < BatchSize)
    BY <1>2, <1>4
  <2>2. ~Before(e, d)
    BY <1>0, <1>1, <1>3, <1>4, <2>1
  <2> QED
    BY <1>4, <2>2, BeforeIsAnOrder
<1>7. Cardinality(Page(rest)) <= BatchSize
  <2> DEFINE place == [e \in Page(rest) |-> Cardinality(Ahead(e))]
  <2>1. place \in [Page(rest) -> 0..(BatchSize - 1)]
    <3> HIDE DEF Ahead
    <3> QED
      BY <1>0, <1>1, <1>2, <1>4
  <2>2. \A d, e \in Page(rest) : place[d] = place[e] => d = e
    <3> HIDE DEF Ahead
    <3> QED
      BY <1>1, <1>3, <1>4, BeforeIsAnOrder
  <2>3. place \in Injection(Page(rest), 0..(BatchSize - 1))
    <3> HIDE DEF place
    <3> QED
      BY <2>1, <2>2 DEF Injection, IsInjective
  <2>4. IsFiniteSet(0..(BatchSize - 1)) /\ Cardinality(0..(BatchSize - 1)) = BatchSize
    BY <1>0, FS_Interval
  <2> HIDE DEF place
  <2> QED
    BY <2>3, <2>4, FS_Injection
<1> QED
  BY <1>4, <1>5, <1>6, <1>7

-----------------------------------------------------------------------------
(* Types, and which action may change which variables *)

DbTypes ==
  /\ candidates \in SUBSET Events /\ arriving \in SUBSET Events
  /\ profile \in [Senders -> {"remote", "active", "deactivated"}]
  /\ tokens \in SUBSET Senders /\ joined \in SUBSET (Senders \X Rooms)

Scopes == {"unknown", "unchecked", "ok"} \cup ScopeReasons

PlanTypes ==
  /\ dry_run \in BOOLEAN /\ candidate_count \in Nat
  /\ reported \in SUBSET Senders
  /\ scope \in [Senders -> Scopes]
  /\ sender_tokens \in SUBSET Senders

PageTypes ==
  /\ last \in Events \cup {0}
  /\ batch \in SUBSET Events /\ unjoined \in SUBSET Events
  /\ processed \in SUBSET Events
  /\ eligible \in [Senders -> Seq(Events)]
  /\ processed_count \in Nat

Kinds == {"sender_scope", "room_membership", "redaction_request"}

CountTypes ==
  /\ success_count \in Nat /\ skipped_count \in Nat /\ failure_count \in Nat
  /\ run_failures \in SUBSET (Events \X Kinds)
  /\ status \in {"running", "completed", "failed"}

DispatchTypes ==
  /\ phase \in {"idle", "open", "complete", "aborted"}
  /\ work \in [Senders -> Seq(Events)]
  /\ active \in SUBSET [sender : Senders, item : Events]
  /\ outcome \in [Events -> {"none"} \cup Outcomes]
  /\ current \in Events \cup {0}

TypeInv ==
  /\ DbTypes /\ PlanTypes /\ PageTypes /\ CountTypes /\ DispatchTypes
  /\ requested \in SUBSET Events /\ cut_short \in BOOLEAN

LEMMA DbFrame ==
  ASSUME [Next]_vars
  PROVE  WorkerStep \/ Change \/ UNCHANGED dbVars
BY DEF Next, MainStep, vars, CountCandidates, ReportSenders, VerifyProfiles,
       VerifyTokens, LoadTokens, ReadPage, CheckMembership, Classify, Take, Yield,
       WorkerRaised, Count, EndDispatch, Drain, CutShort, Finish, FinishFailed, Fail

LEMMA PlanFrame ==
  ASSUME [Next]_vars
  PROVE  \/ CountCandidates \/ ReportSenders \/ VerifyProfiles \/ VerifyTokens
         \/ LoadTokens \/ Fail \/ UNCHANGED planVars
BY DEF Next, MainStep, WorkerStep, vars, ReadPage, CheckMembership, Classify, Take,
       Execute, Yield, WorkerRaised, Count, EndDispatch, Drain, CutShort, Finish, FinishFailed,
       Change

LEMMA PageFrame ==
  ASSUME [Next]_vars
  PROVE  \/ ReadPage \/ CheckMembership \/ (\E e \in batch : Classify(e))
         \/ UNCHANGED pageVars
BY DEF Next, MainStep, WorkerStep, vars, CountCandidates, ReportSenders,
       VerifyProfiles, VerifyTokens, LoadTokens, Take, Execute, Yield, WorkerRaised,
       Count, EndDispatch, Drain, CutShort, Finish, FinishFailed, Fail, Change

LEMMA CountFrame ==
  ASSUME [Next]_vars
  PROVE  \/ (\E e \in batch : Classify(e)) \/ Count \/ Finish \/ FinishFailed
         \/ UNCHANGED countVars
BY DEF Next, MainStep, WorkerStep, vars, CountCandidates, ReportSenders,
       VerifyProfiles, VerifyTokens, LoadTokens, ReadPage, CheckMembership, Take,
       Execute, Yield, WorkerRaised, EndDispatch, Drain, CutShort, Fail, Change

LEMMA DispatchFrame ==
  ASSUME [Next]_vars
  PROVE  \/ ReadPage \/ (\E s \in Senders : Take(s)) \/ WorkerStep
         \/ (\E f \in active : Yield(f) \/ WorkerRaised(f)) \/ Count \/ EndDispatch
         \/ Fail \/ UNCHANGED dispatchVars
BY DEF Next, MainStep, vars, CountCandidates, ReportSenders, VerifyProfiles,
       VerifyTokens, LoadTokens, CheckMembership, Classify, Drain, CutShort, Finish,
       FinishFailed, Change

LEMMA HistoryFrame ==
  ASSUME [Next]_vars
  PROVE  LoadTokens \/ WorkerStep \/ CutShort \/ Change \/ UNCHANGED historyVars
BY DEF Next, MainStep, vars, CountCandidates, ReportSenders, VerifyProfiles,
       VerifyTokens, ReadPage, CheckMembership, Classify, Take, Yield, WorkerRaised,
       Count, EndDispatch, Drain, Finish, FinishFailed, Fail

LEMMA InitTypeInv == Init => TypeInv
<1> SUFFICES ASSUME Init PROVE TypeInv
  OBVIOUS
<1> USE EventsAssumption, InitialAssumption DEF Init
<1>1. DbTypes /\ PlanTypes /\ PageTypes
  BY DEF DbTypes, PlanTypes, Scopes, PageTypes
<1>2. CountTypes /\ DispatchTypes /\ requested \in SUBSET Events
  BY DEF CountTypes, DispatchTypes, Dispatch!Init
<1>3. cut_short \in BOOLEAN
  OBVIOUS
<1> QED
  BY <1>1, <1>2, <1>3 DEF TypeInv

LEMMA DbTypesStep ==
  ASSUME TypeInv, [Next]_vars
  PROVE  DbTypes'
<1> USE DEF TypeInv, DbTypes
<1>1. CASE Change
  <2>1. Synapse!Memberships \in SUBSET (Senders \X Rooms)
    BY AttributesAssumption DEF Synapse!Memberships
  <2>2. CASE \E e \in Events : Synapse!Redact(e) \/ Synapse!Arrive(e)
    BY <2>2 DEF Synapse!Redact, Synapse!Arrive
  <2>3. CASE \E s \in Senders : Synapse!Deactivate(s) \/ Synapse!ChangeToken(s)
    BY <2>3 DEF Synapse!Deactivate, Synapse!ChangeToken
  <2>4. CASE \E m \in Synapse!Memberships : Synapse!ChangeMembership(m)
    BY <2>1, <2>4 DEF Synapse!ChangeMembership
  <2> QED
    BY <1>1, <2>2, <2>3, <2>4 DEF Change, Synapse!Next
<1>2. CASE WorkerStep
  BY <1>2 DEF WorkerStep, Execute
<1>3. CASE UNCHANGED dbVars
  BY <1>3 DEF dbVars
<1> QED
  BY <1>1, <1>2, <1>3, DbFrame

LEMMA PlanTypesStep ==
  ASSUME TypeInv, [Next]_vars
  PROVE  PlanTypes'
<1> USE DEF TypeInv, PlanTypes, DbTypes, Scopes, ScopeReasons
<1>1. CASE CountCandidates
  BY <1>1, FiniteEvents DEF CountCandidates
<1>2. CASE ReportSenders
  BY <1>2, AttributesAssumption DEF ReportSenders, CandidateSenders
<1>3. CASE VerifyProfiles
  BY <1>3 DEF VerifyProfiles, ScopeByProfile
<1>4. CASE VerifyTokens
  BY <1>4 DEF VerifyTokens
<1>5. CASE LoadTokens
  BY <1>5 DEF LoadTokens, WithToken
<1>6. CASE Fail \/ UNCHANGED planVars
  BY <1>6 DEF Fail, planVars
<1> QED
  BY <1>1, <1>2, <1>3, <1>4, <1>5, <1>6, PlanFrame

(* What a page that is read means for the events read before. *)
LEMMA ReadPageRefined ==
  ASSUME TypeInv, ReadPage
  PROVE  LET rest == {e \in candidates : BehindCursor(e)}
         IN  /\ pc = "page"
             /\ \/ /\ rest = {} /\ EndOfPages
                   /\ UNCHANGED <<last, batch, processed, processed_count>>
                \/ /\ batch' \in SUBSET rest /\ last' \in batch'
                   /\ \A e \in batch' \ {last'} : Before(e, last')
                   /\ \A e \in rest \ batch' : Before(last', e)
                   /\ Cardinality(batch') <= BatchSize
                   /\ processed' = processed \cup batch'
                   /\ processed_count' = processed_count + Cardinality(batch')
                   /\ pc' = "membership"
                   /\ UNCHANGED <<phase, work, active, delivered>>
<1> DEFINE rest == {e \in candidates : BehindCursor(e)}
           page == Page(rest)
<1>1. rest \in SUBSET Events
  BY DEF TypeInv, DbTypes
<1>2. /\ page \in SUBSET rest
      /\ page = {} => rest = {}
      /\ \A d \in page, e \in rest \ page : Before(d, e)
      /\ Cardinality(page) <= BatchSize
  BY <1>1, PageIsPrefix
<1>3. page # {} => \E e \in page : \A d \in page \ {e} : Before(d, e)
  BY <1>1, <1>2, FirstAndLastExist
<1>4. /\ pc = "page"
      /\ IF page = {}
         THEN EndOfPages /\ UNCHANGED <<last, batch, processed, processed_count>>
         ELSE /\ last' = CHOOSE e \in page : \A d \in page \ {e} : Before(d, e)
              /\ batch' = page
              /\ processed' = processed \cup page
              /\ processed_count' = processed_count + Cardinality(page)
              /\ pc' = "membership"
              /\ UNCHANGED <<phase, work, active, delivered>>
  BY DEF ReadPage
<1> HIDE DEF rest, page
<1>5. CASE page = {}
  BY <1>2, <1>4, <1>5 DEF rest
<1>6. CASE page # {}
  <2>1. last' \in page /\ \A d \in page \ {last'} : Before(d, last')
    BY <1>3, <1>4, <1>6
  <2>2. \A e \in rest \ page : Before(last', e)
    BY <1>2, <2>1
  <2> QED
    BY <1>2, <1>4, <1>6, <2>1, <2>2 DEF rest
<1> QED
  BY <1>5, <1>6

LEMMA PageTypesStep ==
  ASSUME TypeInv, [Next]_vars
  PROVE  PageTypes'
<1> USE DEF TypeInv, DbTypes, PageTypes
<1>1. CASE ReadPage
  <2>1. batch' \in SUBSET Events /\ last' \in Events \cup {0}
        /\ processed' \in SUBSET Events /\ processed_count' \in Nat
    BY <1>1, ReadPageRefined, FiniteEvents
  <2>2. UNCHANGED <<unjoined, eligible>>
    BY <1>1 DEF ReadPage
  <2> QED
    BY <2>1, <2>2
<1>2. CASE CheckMembership
  BY <1>2 DEF CheckMembership, MembershipFailures
<1>3. ASSUME NEW e \in batch, Classify(e) PROVE PageTypes'
  <2>1. SenderOf[e] \in Senders /\ Append(eligible[SenderOf[e]], e) \in Seq(Events)
    BY AttributesAssumption
  <2>2. eligible' \in [Senders -> Seq(Events)]
    <3>1. CASE MayRedact(e)
      BY <1>3, <2>1, <3>1 DEF Classify
    <3>2. CASE ~MayRedact(e)
      BY <1>3, <3>2 DEF Classify
    <3> QED
      BY <3>1, <3>2
  <2> QED
    BY <1>3, <2>2 DEF Classify
<1>4. CASE UNCHANGED pageVars
  BY <1>4 DEF pageVars
<1> QED
  BY <1>1, <1>2, <1>3, <1>4, PageFrame

(* The item at the consumer is an event (of PhaseInv, below). *)
CurrentInv == pc = "count" => current \in Events

LEMMA CountTypesStep ==
  ASSUME TypeInv, CurrentInv, [Next]_vars
  PROVE  CountTypes'
<1> USE DEF TypeInv, PageTypes, CountTypes, Kinds, RecordFailure
<1>1. CASE \E e \in batch : Classify(e)
  BY <1>1 DEF Classify, SkipKind
<1>2. CASE Count
  BY <1>2 DEF Count, CountSuccess, CountFailure, CurrentInv
<1>3. CASE Finish \/ FinishFailed
  BY <1>3 DEF Finish, FinalStatus, FinishFailed
<1>4. CASE UNCHANGED countVars
  BY <1>4 DEF countVars
<1> QED
  BY <1>1, <1>2, <1>3, <1>4, CountFrame

LEMMA DispatchTypesStep ==
  ASSUME TypeInv, [Next]_vars
  PROVE  DispatchTypes'
<1> USE DEF TypeInv, DispatchTypes
<1>1. CASE ReadPage
  BY <1>1 DEF ReadPage, EndOfPages, Dispatch!Begin, PageTypes
<1>2. ASSUME NEW s \in Senders, Take(s) PROVE DispatchTypes'
  <2>1. Head(work[s]) \in Events /\ Tail(work[s]) \in Seq(Events)
    BY <1>2, HeadTailProperties DEF Take, Dispatch!Take
  <2> QED
    BY <1>2, <2>1 DEF Take, Dispatch!Take
<1>3. CASE WorkerStep
  BY <1>3 DEF WorkerStep, Execute
<1>4. CASE \E f \in active : Yield(f) \/ WorkerRaised(f)
  BY <1>4 DEF Yield, WorkerRaised, Dispatch!HandBack, Dispatch!Abort
<1>5. CASE Count
  BY <1>5 DEF Count, CountSuccess, CountFailure, Dispatch!Abort
<1>6. CASE EndDispatch \/ Fail
  BY <1>6 DEF EndDispatch, Fail, Dispatch!Complete, Dispatch!Abort
<1>7. CASE UNCHANGED dispatchVars
  BY <1>7 DEF dispatchVars
<1> QED
  BY <1>1, <1>2, <1>3, <1>4, <1>5, <1>6, <1>7, DispatchFrame

LEMMA TypeInvStep ==
  ASSUME TypeInv, CurrentInv, [Next]_vars
  PROVE  TypeInv'
<1>1. requested' \in SUBSET Events /\ cut_short' \in BOOLEAN
  <2>1. CASE WorkerStep
    BY <2>1 DEF WorkerStep, Execute, TypeInv, DispatchTypes
  <2>2. CASE LoadTokens \/ CutShort \/ Change \/ UNCHANGED historyVars
    BY <2>2 DEF LoadTokens, CutShort, Change, historyVars, TypeInv
  <2> QED
    BY <2>1, <2>2, HistoryFrame
<1> QED
  BY <1>1, DbTypesStep, PlanTypesStep, PageTypesStep, CountTypesStep,
     DispatchTypesStep DEF TypeInv

-----------------------------------------------------------------------------
(* Sequences without repetitions *)

LEMMA AppendFresh ==
  ASSUME NEW S, NEW q \in Seq(S), NEW e \in S
  PROVE  /\ ToSet(Append(q, e)) = ToSet(q) \cup {e}
         /\ IsInjective(q) /\ e \notin ToSet(q) => IsInjective(Append(q, e))
<1>1. /\ Append(q, e) \in Seq(S) /\ Len(Append(q, e)) = Len(q) + 1
      /\ \A i \in 1..Len(q) : Append(q, e)[i] = q[i]
      /\ Append(q, e)[Len(q) + 1] = e
      /\ DOMAIN q = 1..Len(q) /\ DOMAIN Append(q, e) = 1..(Len(q) + 1)
      /\ Len(q) \in Nat
  BY AppendProperties, LenProperties
<1>2. ToSet(Append(q, e)) = ToSet(q) \cup {e}
  BY <1>1 DEF ToSet
<1>3. IsInjective(q) /\ e \notin ToSet(q) => IsInjective(Append(q, e))
  BY <1>1 DEF ToSet, IsInjective
<1> QED
  BY <1>2, <1>3

LEMMA TailFresh ==
  ASSUME NEW S, NEW q \in Seq(S), q # <<>>
  PROVE  /\ Head(q) \in S /\ Tail(q) \in Seq(S)
         /\ ToSet(q) = ToSet(Tail(q)) \cup {Head(q)}
         /\ IsInjective(q) => IsInjective(Tail(q)) /\ Head(q) \notin ToSet(Tail(q))
<1>1. /\ Head(q) \in S /\ Tail(q) \in Seq(S)
      /\ Head(q) = q[1] /\ Len(q) \in Nat /\ Len(q) >= 1
      /\ Len(Tail(q)) = Len(q) - 1
      /\ \A i \in 1..(Len(q) - 1) : Tail(q)[i] = q[i + 1]
      /\ DOMAIN q = 1..Len(q) /\ DOMAIN Tail(q) = 1..(Len(q) - 1)
  BY HeadTailProperties, LenProperties, EmptySeq
<1>2. ToSet(q) = ToSet(Tail(q)) \cup {Head(q)}
  <2>1. ASSUME NEW i \in DOMAIN q PROVE q[i] \in ToSet(Tail(q)) \cup {Head(q)}
    <3>1. CASE i = 1
      BY <1>1, <3>1
    <3>2. CASE i # 1
      <4>1. i - 1 \in DOMAIN Tail(q) /\ Tail(q)[i - 1] = q[i]
        BY <1>1, <3>2
      <4> QED
        BY <4>1 DEF ToSet
    <3> QED
      BY <3>1, <3>2
  <2>2. ASSUME NEW i \in DOMAIN Tail(q) PROVE Tail(q)[i] \in ToSet(q)
    BY <1>1 DEF ToSet
  <2>3. Head(q) \in ToSet(q)
    BY <1>1 DEF ToSet
  <2> QED
    BY <2>1, <2>2, <2>3 DEF ToSet
<1>3. IsInjective(q) => IsInjective(Tail(q)) /\ Head(q) \notin ToSet(Tail(q))
  BY <1>1 DEF ToSet, IsInjective
<1> QED
  BY <1>1, <1>2, <1>3

-----------------------------------------------------------------------------
(* The pages: the cursor stands at the last event read, nothing read is    *)
(* behind it, and what has been queued has been read and classified.       *)

Early == {"total", "report", "profiles", "tokens", "load"}

Cursor ==
  /\ last = 0 => processed = {}
  /\ \A e \in processed : e = last \/ Before(e, last)
  /\ processed_count = Cardinality(processed)
  /\ pc \in Early => last = 0

Batch ==
  /\ batch \subseteq processed
  /\ Cardinality(batch) <= BatchSize
  /\ pc \notin {"membership", "classify", "except", "raised"} => batch = {}

Queued ==
  \A s \in Senders :
    /\ IsInjective(eligible[s])
    /\ \A e \in ToSet(eligible[s]) : SenderOf[e] = s /\ e \in processed \ batch

PageInv == Cursor /\ Batch /\ Queued

LEMMA InitPageInv == Init => PageInv
<1>1. \A S : ToSet(<<>>) = {} /\ IsInjective(<<>>)
  BY DEF ToSet, IsInjective
<1> QED
  BY <1>1, ConfigAssumption, FS_EmptySet DEF Init, PageInv, Cursor, Batch, Queued, Early

(* What one page reads has not been read before.                           *)
LEMMA PagesAreDisjoint ==
  ASSUME TypeInv, PageInv, ReadPage
  PROVE  batch' \cap processed = {}
<1>1. batch' \in SUBSET {e \in candidates : BehindCursor(e)}
  BY ReadPageRefined DEF PageInv, Batch
<1>2. \A e \in Events : e \in processed => ~BehindCursor(e)
  BY BeforeIsAnOrder DEF TypeInv, PageTypes, PageInv, Cursor, BehindCursor
<1> QED
  BY <1>1, <1>2 DEF TypeInv, DbTypes

(* Whatever else happens, a page in hand stays, and the cursor.            *)
LEMMA PageKept ==
  ASSUME TypeInv, PageInv, [Next]_vars, UNCHANGED pageVars
  PROVE  PageInv'
<1>1. Queued'
  BY DEF PageInv, Queued, pageVars
<1>2. pc' \in Early => pc \in Early
  BY DEF Early, Next, MainStep, WorkerStep, vars, CountCandidates, ReportSenders,
     VerifyProfiles, VerifyTokens, LoadTokens, ReadPage, EndOfPages, CheckMembership,
     Classify, Take, Execute, Yield, WorkerRaised, Count, CountSuccess, CountFailure,
     EndDispatch, Drain, CutShort, Finish, FinishFailed, Fail, Change
<1>3. pc \in {"membership", "classify", "except", "raised"} =>
      pc' \in {"membership", "classify", "except", "raised"}
  BY DEF PageInv, Batch, pageVars, Next, MainStep, WorkerStep, vars, CountCandidates,
     ReportSenders, VerifyProfiles, VerifyTokens, LoadTokens, ReadPage,
     CheckMembership, Classify, Take, Execute, Yield, WorkerRaised, Count,
     EndDispatch, Drain, CutShort, Finish, FinishFailed, Fail, Change
<1> QED
  BY <1>1, <1>2, <1>3 DEF PageInv, Cursor, Batch, pageVars

LEMMA ReadPagePageInv ==
  ASSUME TypeInv, PageInv, ReadPage
  PROVE  PageInv'
<1>1. UNCHANGED <<unjoined, eligible>>
  BY DEF ReadPage
<1>2. CASE UNCHANGED <<last, batch, processed, processed_count>> /\ EndOfPages
  <2>1. pc = "page" /\ pc' \in {"finish", "dispatch"}
    BY <1>2 DEF ReadPage, EndOfPages
  <2>2. UNCHANGED pageVars
    BY <1>1, <1>2 DEF pageVars
  <2> QED
    BY <2>1, <2>2 DEF PageInv, Cursor, Batch, Queued, Early, pageVars
<1>3. CASE /\ batch' \in SUBSET {e \in candidates : BehindCursor(e)} /\ last' \in batch'
           /\ \A e \in batch' \ {last'} : Before(e, last')
           /\ Cardinality(batch') <= BatchSize
           /\ processed' = processed \cup batch'
           /\ processed_count' = processed_count + Cardinality(batch')
           /\ pc' = "membership"
  <2>1. batch' \cap processed = {}
    BY PagesAreDisjoint
  <2>2. last' \in Events /\ processed \in SUBSET Events /\ batch' \in SUBSET Events
    BY <1>3 DEF TypeInv, DbTypes, PageTypes
  <2>3. Cursor'
    <3>1. last' # 0
      BY <2>2, EventsAssumption
    <3>2. \A e \in processed : Before(e, last')
      <4>1. ASSUME NEW e \in processed PROVE Before(e, last')
        <5>1. last # 0 /\ last \in Events
          BY <4>1 DEF PageInv, Cursor, TypeInv, PageTypes
        <5>2. Before(last, last')
          BY <1>3, <5>1 DEF BehindCursor
        <5>3. e = last \/ Before(e, last)
          BY DEF PageInv, Cursor
        <5> QED
          BY <2>2, <5>1, <5>2, <5>3, BeforeIsAnOrder
      <4> QED
        BY <4>1
    <3>3. processed_count' = Cardinality(processed')
      <4>1. IsFiniteSet(processed) /\ IsFiniteSet(batch')
        BY <2>2, FiniteEvents
      <4>2. Cardinality(processed \cup batch') =
              Cardinality(processed) + Cardinality(batch')
        BY <2>1, <4>1, DisjointUnion
      <4> QED
        BY <1>3, <4>2 DEF PageInv, Cursor
    <3> QED
      BY <1>3, <3>1, <3>2, <3>3 DEF Cursor, Early
  <2>4. Batch'
    BY <1>3 DEF Batch
  <2>5. Queued'
    BY <1>1, <1>3, <2>1 DEF PageInv, Queued
  <2> QED
    BY <2>3, <2>4, <2>5 DEF PageInv
<1> QED
  BY <1>2, <1>3, ReadPageRefined

LEMMA ClassifyPageInv ==
  ASSUME TypeInv, PageInv, NEW e \in batch, Classify(e)
  PROVE  PageInv'
<1>1. /\ e \in Events /\ SenderOf[e] \in Senders /\ batch \in SUBSET Events
      /\ eligible \in [Senders -> Seq(Events)]
  BY AttributesAssumption DEF TypeInv, PageTypes
<1>2. batch' = batch \ {e} /\ UNCHANGED <<last, processed, processed_count>>
  BY DEF Classify
<1>3. pc = "classify" /\ pc' \in {"page", "classify", "except"}
      /\ (pc' = "page" => batch' = {})
  BY DEF Classify
<1>4. Cursor'
  BY <1>2, <1>3 DEF PageInv, Cursor, Early
<1>5. Batch'
  <2>1. Cardinality(batch') <= Cardinality(batch) /\ Cardinality(batch) \in Nat
        /\ Cardinality(batch') \in Nat
    BY <1>1, <1>2, FiniteEvents, FS_Subset
  <2>2. BatchSize \in Nat
    BY ConfigAssumption
  <2> QED
    BY <1>2, <1>3, <2>1, <2>2 DEF PageInv, Batch
<1>6. Queued'
  <2>1. CASE MayRedact(e)
    <3> DEFINE t == SenderOf[e]
    <3>1. eligible' = [eligible EXCEPT ![t] = Append(@, e)]
      BY <2>1 DEF Classify
    <3>2. e \notin ToSet(eligible[t]) /\ IsInjective(eligible[t])
      BY <1>1 DEF PageInv, Queued
    <3>3. /\ ToSet(Append(eligible[t], e)) = ToSet(eligible[t]) \cup {e}
          /\ IsInjective(Append(eligible[t], e))
      BY <1>1, <3>2, AppendFresh
    <3>4. e \in processed' \ batch'
      BY <1>2 DEF PageInv, Batch
    <3> QED
      BY <1>1, <1>2, <3>1, <3>3, <3>4 DEF PageInv, Queued
  <2>2. CASE ~MayRedact(e)
    BY <1>2, <2>2 DEF Classify, PageInv, Queued
  <2> QED
    BY <2>1, <2>2
<1> QED
  BY <1>4, <1>5, <1>6 DEF PageInv

LEMMA PageInvStep ==
  ASSUME TypeInv, PageInv, [Next]_vars
  PROVE  PageInv'
<1>1. CASE CheckMembership
  BY <1>1 DEF CheckMembership, PageInv, Cursor, Batch, Queued, Early
<1> QED
  BY <1>1, PageFrame, PageKept, ReadPagePageInv, ClassifyPageInv

-----------------------------------------------------------------------------
(* The events that stay are all behind the cursor or read already, and     *)
(* after the last page they have all been read.                            *)

SteadyInv ==
  /\ steady \subseteq candidates
  /\ pc \in {"page", "membership", "classify"} =>
       \A e \in steady : e \in processed \/ BehindCursor(e)
  /\ pc \in {"dispatch", "count"} \/ (pc \in {"finish", "done"} /\ ~dry_run) =>
       steady \subseteq processed

LEMMA SteadyIsCandidate ==
  ASSUME TypeInv, SteadyInv, [Next]_vars
  PROVE  steady' \subseteq candidates' /\ (steady' \subseteq steady \/ LoadTokens)
<1> USE DEF SteadyInv
<1>1. CASE LoadTokens
  BY <1>1 DEF LoadTokens, dbVars
<1>2. CASE WorkerStep
  BY <1>2 DEF WorkerStep, Execute
<1>3. CASE Change
  BY <1>3 DEF Change
<1>4. CASE CutShort \/ (UNCHANGED historyVars /\ UNCHANGED dbVars)
  BY <1>4 DEF CutShort, historyVars, dbVars
<1> QED
  BY <1>1, <1>2, <1>3, <1>4, HistoryFrame, DbFrame

LEMMA SteadyInvStep ==
  ASSUME TypeInv, PageInv, SteadyInv, [Next]_vars
  PROVE  SteadyInv'
<1>1. steady' \subseteq candidates' /\ (steady' \subseteq steady \/ LoadTokens)
  BY SteadyIsCandidate
<1>2. CASE LoadTokens
  <2>1. pc' = "page" /\ last' = 0
    BY <1>2 DEF LoadTokens, PageInv, Cursor, Early, pageVars
  <2> QED
    BY <1>1, <2>1 DEF SteadyInv, BehindCursor
<1>3. CASE ReadPage
  <2> DEFINE rest == {e \in candidates : BehindCursor(e)}
  <2>1. UNCHANGED <<steady, candidates, dry_run>>
    BY <1>3 DEF ReadPage, historyVars, dbVars, planVars
  <2>2. \A e \in steady : e \in processed \/ e \in rest
    BY <1>3 DEF SteadyInv, ReadPage
  <2>3. CASE /\ rest = {} /\ EndOfPages
             /\ UNCHANGED <<last, batch, processed, processed_count>>
    BY <1>1, <2>1, <2>2, <2>3 DEF SteadyInv, EndOfPages
  <2>4. CASE /\ batch' \in SUBSET rest /\ last' \in batch'
             /\ \A e \in rest \ batch' : Before(last', e)
             /\ processed' = processed \cup batch' /\ pc' = "membership"
    <3>1. \A e \in rest : e \in processed' \/ BehindCursor(e)'
      BY <2>4 DEF BehindCursor, Before
    <3> QED
      BY <1>1, <2>1, <2>2, <2>4, <3>1 DEF SteadyInv
  <2> QED
    BY <1>3, <2>3, <2>4, ReadPageRefined
<1>4. CASE ~LoadTokens /\ ~ReadPage
  <2>1. UNCHANGED <<last, processed>>
    BY <1>4, PageFrame DEF CheckMembership, Classify, pageVars
  <2>2. pc' \in {"page", "membership", "classify"} =>
        pc \in {"page", "membership", "classify"}
    BY <1>4 DEF Next, MainStep, WorkerStep, vars, CountCandidates, ReportSenders,
       VerifyProfiles, VerifyTokens, CheckMembership, Classify, Take, Execute, Yield,
       WorkerRaised, Count, CountSuccess, CountFailure, EndDispatch, Drain, CutShort, Finish,
       FinishFailed, Fail, Change
  <2>3. pc' \in {"dispatch", "count"} \/ (pc' \in {"finish", "done"} /\ ~dry_run') =>
        pc \in {"dispatch", "count"} \/ (pc \in {"finish", "done"} /\ ~dry_run)
    BY <1>4 DEF Next, MainStep, WorkerStep, vars, CountCandidates, ReportSenders,
       VerifyProfiles, VerifyTokens, CheckMembership, Classify, Take, Execute, Yield,
       WorkerRaised, Count, CountSuccess, CountFailure, EndDispatch, Drain, CutShort, Finish,
       FinishFailed, Fail, Change, planVars
  <2> QED
    BY <1>1, <1>4, <2>1, <2>2, <2>3 DEF SteadyInv, BehindCursor, Before
<1> QED
  BY <1>2, <1>3, <1>4

-----------------------------------------------------------------------------
(* Where the run is, and what that says of the dispatch and of its row. *)

BeforeDispatch == Early \cup {"page", "membership", "classify"}

Untouched ==
  /\ active = {} /\ current = 0
  /\ \A s \in Senders : work[s] = <<>>
  /\ \A e \in Events : outcome[e] = "none"

PhaseInv ==
  /\ pc \in BeforeDispatch \cup {"dispatch", "count", "drain", "finish", "done",
                                 "except", "raised"}
  /\ pc \in BeforeDispatch => phase = "idle"
  /\ phase = "open" <=> pc \in {"dispatch", "count"}
  /\ phase = "idle" => Untouched
  /\ pc = "dispatch" => current = 0
  /\ pc = "count" => current \in Events
  /\ pc = "drain" => phase = "aborted"

EndInv ==
  /\ pc \in {"finish", "done"} =>
       /\ active = {} /\ current = 0
       /\ phase = "complete" \/ (dry_run /\ phase = "idle")
  /\ phase = "complete" => active = {} /\ current = 0 /\ \A s \in Senders : work[s] = <<>>
  /\ pc \in {"except", "raised"} => WorkersIdle \/ cut_short = TRUE
  /\ status = "running" <=> pc \notin {"done", "raised"}
  /\ pc = "done" => status = FinalStatus
  /\ pc = "raised" => status = "failed"

PcInv == PhaseInv /\ EndInv

LEMMA InitPcInv == Init => PcInv
BY DEF Init, PcInv, PhaseInv, EndInv, BeforeDispatch, Early, Untouched, Dispatch!Init

LEMMA PcInvStep ==
  ASSUME TypeInv, PcInv, [Next]_vars
  PROVE  PcInv'
<1> USE DEF PcInv, PhaseInv, EndInv, BeforeDispatch, Early
<1>1. CASE \/ CountCandidates \/ ReportSenders \/ VerifyProfiles \/ VerifyTokens
           \/ LoadTokens \/ CheckMembership \/ \E e \in batch : Classify(e)
  <2>1. UNCHANGED <<phase, work, active, outcome, current, status>> /\ phase = "idle"
    BY <1>1 DEF CountCandidates, ReportSenders, VerifyProfiles, VerifyTokens,
       LoadTokens, CheckMembership, Classify, dispatchVars, countVars
  <2>2. \/ pc' \in BeforeDispatch \cup {"except"}
        \/ pc' = "finish" /\ dry_run'
    BY <1>1 DEF CountCandidates, ReportSenders, VerifyProfiles, VerifyTokens,
       LoadTokens, CheckMembership, Classify
  <2>3. pc \notin {"done", "raised"}
    BY <1>1 DEF CountCandidates, ReportSenders, VerifyProfiles, VerifyTokens,
       LoadTokens, CheckMembership, Classify
  <2> QED
    BY <2>1, <2>2, <2>3 DEF Untouched, WorkersIdle
<1>2. CASE ReadPage
  <2>1. UNCHANGED <<outcome, current, status>> /\ pc = "page" /\ phase = "idle"
        /\ active = {} /\ UNCHANGED active
    BY <1>2 DEF ReadPage, EndOfPages, countVars, Dispatch!Begin, Untouched
  <2>2. CASE EndOfPages
    BY <2>1, <2>2 DEF EndOfPages, Dispatch!Begin, Untouched
  <2>3. CASE UNCHANGED <<phase, work, active>> /\ pc' = "membership"
    BY <2>1, <2>3 DEF Untouched
  <2> QED
    BY <1>2, <2>2, <2>3, ReadPageRefined
<1>3. CASE \E s \in Senders : Take(s)
  BY <1>3 DEF Take, Dispatch!Take, countVars
<1>4. CASE \E f \in active : Yield(f) \/ WorkerRaised(f)
  BY <1>4 DEF Yield, WorkerRaised, Dispatch!HandBack, Dispatch!Abort, countVars,
     TypeInv, DispatchTypes
<1>5. CASE Count
  BY <1>5 DEF Count, CountSuccess, CountFailure, Dispatch!Abort
<1>6. CASE EndDispatch
  BY <1>6 DEF EndDispatch, Dispatch!Complete, countVars
<1>7. CASE WorkerStep
  <2>1. active # {} /\ UNCHANGED <<pc, phase, work, active, current, dry_run>>
        /\ UNCHANGED countVars /\ UNCHANGED cut_short
    BY <1>7 DEF WorkerStep, Execute, planVars
  <2>2. ASSUME NEW e \in Events, outcome[e] # "none" PROVE outcome'[e] # "none"
    BY <1>7, <2>2 DEF WorkerStep, Execute, TypeInv, DispatchTypes
  <2>3. WorkersIdle => WorkersIdle'
    <3>1. \A f \in active : f.item \in Events
      BY DEF TypeInv, DispatchTypes
    <3> QED
      BY <2>1, <2>2, <3>1 DEF WorkersIdle
  <2> QED
    BY <2>1, <2>3 DEF Untouched, FinalStatus, countVars
<1>8. CASE Drain \/ CutShort \/ Finish \/ FinishFailed
  BY <1>8 DEF Drain, CutShort, Finish, FinishFailed, dispatchVars, countVars, planVars,
     historyVars, Untouched, WorkersIdle, FinalStatus
<1>9. CASE Fail
  <2>1. UNCHANGED <<work, active, outcome, current, status, cut_short>>
    BY <1>9 DEF Fail, Dispatch!Abort, countVars, historyVars
  <2> QED
    BY <1>9, <2>1 DEF Fail, Dispatch!Abort, Untouched, WorkersIdle
<1>10. CASE Change \/ UNCHANGED vars
  BY <1>10 DEF Change, vars, dispatchVars, countVars, planVars, historyVars, Untouched,
     WorkersIdle, FinalStatus
<1> QED
  BY <1>1, <1>2, <1>3, <1>4, <1>5, <1>6, <1>7, <1>8, <1>9, <1>10 DEF Next, MainStep

-----------------------------------------------------------------------------
(* An item is queued, active, at the consumer or behind it, and in one of  *)
(* these places only.                                                      *)

QueueInv ==
  \A s \in Senders :
    /\ IsInjective(work[s])
    /\ \A e \in ToSet(work[s]) :
         SenderOf[e] = s /\ outcome[e] = "none" /\ e \in ToSet(eligible[s])

ActiveInv ==
  /\ \A f \in active :
       /\ SenderOf[f.item] = f.sender
       /\ f.item \notin ToSet(work[f.sender])
       /\ Admitted(f.item)
  /\ \A f, g \in active : f.sender = g.sender => f = g

CurrentIsDone ==
  current # 0 =>
    /\ outcome[current] \in Returned
    /\ Admitted(current)
    /\ \A f \in active : f.item # current

OutcomeInv ==
  \A e \in Events :
    /\ outcome[e] # "none" => Admitted(e)
    /\ outcome[e] = "raise" => \E f \in active : f.item = e

WorkInv == QueueInv /\ ActiveInv /\ CurrentIsDone /\ OutcomeInv

LEMMA InitWorkInv == Init => WorkInv
<1>1. ToSet(<<>>) = {} /\ IsInjective(<<>>)
  BY DEF ToSet, IsInjective
<1> QED
  BY <1>1 DEF Init, Dispatch!Init, WorkInv, QueueInv, ActiveInv, CurrentIsDone,
     OutcomeInv

(* Before the dispatch there is nothing to say.                            *)
LEMMA UntouchedWork ==
  ASSUME Untouched
  PROVE  WorkInv
<1>1. ToSet(<<>>) = {} /\ IsInjective(<<>>)
  BY DEF ToSet, IsInjective
<1> QED
  BY <1>1 DEF Untouched, WorkInv, QueueInv, ActiveInv, CurrentIsDone, OutcomeInv

LEMMA ReadPageWorkInv ==
  ASSUME TypeInv, PageInv, PcInv, ReadPage
  PROVE  WorkInv'
<1>1. Untouched /\ UNCHANGED <<eligible, outcome, current>>
  BY DEF ReadPage, PcInv, PhaseInv, BeforeDispatch
<1>2. CASE UNCHANGED <<phase, work, active, delivered>>
  <2>1. Untouched'
    BY <1>1, <1>2 DEF Untouched
  <2> QED
    BY <2>1, UntouchedWork, PTL
<1>3. CASE EndOfPages
  <2>1. work' = eligible /\ active' = {}
    BY <1>1, <1>3 DEF EndOfPages, Dispatch!Begin, Untouched
  <2>2. \A s \in Senders : \A e \in ToSet(eligible[s]) : e \in Events
    BY DEF PageInv, Queued, TypeInv, PageTypes
  <2> QED
    BY <1>1, <2>1, <2>2 DEF Untouched, PageInv, Queued, WorkInv, QueueInv, ActiveInv,
       CurrentIsDone, OutcomeInv
<1> QED
  BY <1>2, <1>3, ReadPageRefined

LEMMA SameCardinality == \A S : Dispatch!Cardinality(S) = Cardinality(S)
BY DEF Dispatch!Cardinality, Cardinality

LEMMA TakeWorkInv ==
  ASSUME TypeInv, PcInv, WorkInv, NEW s \in Senders, Take(s)
  PROVE  WorkInv'
<1> DEFINE e == Head(work[s])
           f == [sender |-> s, item |-> e]
<1>1. /\ work[s] # <<>> /\ \A g \in active : g.sender # s
      /\ active' = active \cup {f}
      /\ work' = [work EXCEPT ![s] = Tail(@)]
      /\ UNCHANGED <<eligible, outcome, current>> /\ current = 0
  BY DEF Take, Dispatch!Take, pageVars, PcInv, PhaseInv
<1>2. /\ e \in Events /\ Tail(work[s]) \in Seq(Events)
      /\ ToSet(work[s]) = ToSet(Tail(work[s])) \cup {e}
      /\ IsInjective(Tail(work[s])) /\ e \notin ToSet(Tail(work[s]))
  BY <1>1, TailFresh DEF TypeInv, DispatchTypes, WorkInv, QueueInv
<1>3. SenderOf[e] = s /\ outcome[e] = "none" /\ e \in ToSet(eligible[s])
  BY <1>2 DEF WorkInv, QueueInv
<1>4. work \in [Senders -> Seq(Events)] /\ active \subseteq [sender : Senders, item : Events]
  BY DEF TypeInv, DispatchTypes
<1> HIDE DEF e
<1>5. QueueInv'
  BY <1>1, <1>2, <1>4 DEF WorkInv, QueueInv
<1>6. ActiveInv'
  BY <1>1, <1>2, <1>3, <1>4 DEF WorkInv, ActiveInv, Admitted
<1>7. CurrentIsDone' /\ OutcomeInv'
  BY <1>1 DEF WorkInv, CurrentIsDone, OutcomeInv, Admitted
<1> QED
  BY <1>5, <1>6, <1>7 DEF WorkInv

LEMMA ExecuteWorkInv ==
  ASSUME TypeInv, WorkInv, NEW f \in active, NEW result \in Outcomes, Execute(f, result)
  PROVE  WorkInv'
<1>1. /\ f.item \in Events /\ outcome[f.item] = "none"
      /\ outcome' = [outcome EXCEPT ![f.item] = result]
      /\ UNCHANGED <<eligible, work, active, current>>
  BY DEF Execute, TypeInv, DispatchTypes, pageVars
<1>2. outcome \in [Events -> {"none"} \cup Outcomes]
  BY DEF TypeInv, DispatchTypes
<1>3. \A s \in Senders : f.item \notin ToSet(work[s])
  BY DEF WorkInv, QueueInv, ActiveInv
<1>4. QueueInv'
  BY <1>1, <1>2, <1>3 DEF WorkInv, QueueInv, TypeInv, DispatchTypes
<1>5. ActiveInv'
  BY <1>1 DEF WorkInv, ActiveInv, Admitted
<1>6. CurrentIsDone'
  BY <1>1, <1>2 DEF WorkInv, CurrentIsDone, Admitted
<1>7. OutcomeInv'
  BY <1>1, <1>2 DEF WorkInv, OutcomeInv, ActiveInv, Admitted
<1> QED
  BY <1>4, <1>5, <1>6, <1>7 DEF WorkInv

LEMMA YieldWorkInv ==
  ASSUME TypeInv, PcInv, WorkInv, NEW f \in active, Yield(f)
  PROVE  WorkInv'
<1>1. /\ outcome[f.item] \in Returned
      /\ active' = active \ {f} /\ current' = f.item
      /\ UNCHANGED <<eligible, outcome, work>>
  BY DEF Yield, Dispatch!HandBack, pageVars
<1>2. f.item \in Events
  BY DEF TypeInv, DispatchTypes
<1>3. \A g \in active \ {f} : g.item # f.item
  BY DEF WorkInv, ActiveInv
<1>4. QueueInv' /\ ActiveInv'
  BY <1>1 DEF WorkInv, QueueInv, ActiveInv, Admitted
<1>5. CurrentIsDone'
  BY <1>1, <1>3 DEF WorkInv, CurrentIsDone, ActiveInv, Admitted
<1>6. OutcomeInv'
  BY <1>1 DEF WorkInv, OutcomeInv, Admitted
<1> QED
  BY <1>4, <1>5, <1>6 DEF WorkInv

LEMMA WorkInvStep ==
  ASSUME TypeInv, PageInv, PcInv, WorkInv, [Next]_vars
  PROVE  WorkInv'
<1> USE DEF WorkInv, QueueInv, ActiveInv, CurrentIsDone, OutcomeInv, Admitted
<1>1. CASE \E e \in batch : Classify(e)
  <2>1. Untouched'
    BY <1>1 DEF Classify, dispatchVars, PcInv, PhaseInv, BeforeDispatch, Untouched
  <2> QED
    BY <2>1, UntouchedWork, PTL
<1>2. CASE \E f \in active : WorkerRaised(f)
  BY <1>2 DEF WorkerRaised, Dispatch!Abort, pageVars
<1>3. CASE Count
  BY <1>3 DEF Count, CountSuccess, CountFailure, Dispatch!Abort, pageVars
<1>4. CASE EndDispatch \/ Fail
  BY <1>4 DEF EndDispatch, Fail, Dispatch!Complete, Dispatch!Abort, pageVars
<1>5. CASE UNCHANGED dispatchVars /\ UNCHANGED eligible
  BY <1>5 DEF dispatchVars
<1>6. CASE WorkerStep
  BY <1>6, ExecuteWorkInv DEF WorkerStep
<1>7. UNCHANGED pageVars \/ CheckMembership => UNCHANGED eligible
  BY DEF pageVars, CheckMembership
<1> QED
  BY <1>1, <1>2, <1>3, <1>4, <1>5, <1>6, <1>7, DispatchFrame, PageFrame, ReadPageWorkInv,
     TakeWorkInv, YieldWorkInv

-----------------------------------------------------------------------------
(* No item is dropped, unless the dispatch is aborted.                     *)

Underway(e) ==
  \/ e \in ToSet(work[SenderOf[e]])
  \/ \E f \in active : f.item = e
  \/ outcome[e] \in Returned

NothingDropped ==
  phase \in {"open", "complete"} => \A e \in Events : Admitted(e) => Underway(e)

LEMMA NothingDroppedStep ==
  ASSUME TypeInv, PcInv, WorkInv, NothingDropped, [Next]_vars
  PROVE  NothingDropped'
<1> USE DEF NothingDropped
<1>1. CASE ReadPage
  <2>1. UNCHANGED <<eligible, outcome>> /\ phase = "idle"
    BY <1>1 DEF ReadPage, PcInv, PhaseInv, BeforeDispatch
  <2>2. CASE EndOfPages
    BY <2>1, <2>2 DEF EndOfPages, Dispatch!Begin, Admitted, Underway
  <2>3. CASE UNCHANGED <<phase, work, active, delivered>>
    BY <2>1, <2>3
  <2> QED
    BY <1>1, <2>2, <2>3, ReadPageRefined
<1>2. ASSUME NEW s \in Senders, Take(s) PROVE NothingDropped'
  <2> DEFINE d == Head(work[s])
             f == [sender |-> s, item |-> d]
  <2>1. /\ work[s] # <<>> /\ active' = active \cup {f}
        /\ work' = [work EXCEPT ![s] = Tail(@)]
        /\ UNCHANGED <<phase, eligible, outcome>>
    BY <1>2 DEF Take, Dispatch!Take, pageVars
  <2>2. work[s] \in Seq(Events) /\ ToSet(work[s]) = ToSet(Tail(work[s])) \cup {d}
    BY <2>1, TailFresh DEF TypeInv, DispatchTypes
  <2>3. work \in [Senders -> Seq(Events)]
    BY DEF TypeInv, DispatchTypes
  <2> HIDE DEF d
  <2>4. f \in active' /\ f.item = d
    BY <2>1
  <2> HIDE DEF f
  <2>5. ASSUME NEW e \in Events, Underway(e) PROVE Underway(e)'
    <3>1. CASE e \in ToSet(work[SenderOf[e]])
      <4>1. CASE SenderOf[e] = s
        BY <2>1, <2>2, <2>3, <2>4, <3>1, <4>1 DEF Underway
      <4>2. CASE SenderOf[e] # s
        BY <2>1, <2>3, <3>1, <4>2, AttributesAssumption DEF Underway
      <4> QED
        BY <4>1, <4>2
    <3>2. CASE e \notin ToSet(work[SenderOf[e]])
      BY <2>1, <2>5, <3>2 DEF Underway
    <3> QED
      BY <3>1, <3>2
  <2> QED
    BY <2>1, <2>5 DEF Admitted
<1>3. CASE WorkerStep
  <2>1. UNCHANGED <<phase, eligible, work, active>>
    BY <1>3 DEF WorkerStep, Execute, pageVars
  <2>2. \A e \in Events : outcome[e] # "none" => outcome'[e] = outcome[e]
    BY <1>3 DEF WorkerStep, Execute, TypeInv, DispatchTypes
  <2> QED
    BY <2>1, <2>2 DEF Admitted, Underway
<1>4. ASSUME NEW f \in active, Yield(f) PROVE NothingDropped'
  <2>1. /\ outcome[f.item] \in Returned /\ active' = active \ {f}
        /\ UNCHANGED <<phase, eligible, outcome, work>>
    BY <1>4 DEF Yield, Dispatch!HandBack, pageVars
  <2> QED
    BY <2>1 DEF Admitted, Underway
<1>5. CASE \E f \in active : WorkerRaised(f)
  BY <1>5 DEF WorkerRaised, Dispatch!Abort
<1>6. CASE Count
  BY <1>6 DEF Count, CountSuccess, CountFailure, Dispatch!Abort, pageVars, Admitted,
     Underway
<1>7. CASE EndDispatch
  BY <1>7 DEF EndDispatch, Dispatch!Complete, pageVars, Admitted, Underway, PcInv,
     PhaseInv
<1>8. CASE Fail
  BY <1>8 DEF Fail, Dispatch!Abort, pageVars, Admitted, Underway
<1>9. CASE UNCHANGED dispatchVars
  <2>1. UNCHANGED eligible \/ phase = "idle"
    BY PageFrame DEF CheckMembership, Classify, ReadPage, pageVars, PcInv, PhaseInv,
       BeforeDispatch
  <2> QED
    BY <1>9, <2>1 DEF dispatchVars, Admitted, Underway
<1> QED
  BY <1>1, <1>2, <1>3, <1>4, <1>5, <1>6, <1>7, <1>8, <1>9, DispatchFrame

-----------------------------------------------------------------------------
(* The counts are the settled items: handed back, and no longer at the     *)
(* consumer.                                                               *)

Settled(results) ==
  {e \in Events : outcome[e] \in results /\ e # current /\ \A f \in active : f.item # e}

CountInv ==
  /\ success_count = Cardinality(Settled(Reported))
  /\ failure_count = Cardinality(Settled({"failure"})) + IF pc = "raised" THEN 1 ELSE 0

ThreadInv ==
  /\ IsFiniteSet(active)
  /\ Cardinality(active) + (IF current = 0 THEN 0 ELSE 1) <= MaxConcurrentSenders

LEMMA InitCountInv == Init => CountInv /\ ThreadInv /\ NothingDropped
<1> SUFFICES ASSUME Init PROVE CountInv /\ ThreadInv /\ NothingDropped
  OBVIOUS
<1>1. Settled(Reported) = {} /\ Settled({"failure"}) = {} /\ active = {}
  BY DEF Init, Dispatch!Init, Settled
<1>2. CountInv
  <2>1. /\ Cardinality(Settled(Reported)) = 0 /\ Cardinality(Settled({"failure"})) = 0
        /\ pc # "raised" /\ success_count = 0 /\ failure_count = 0
    BY <1>1, FS_EmptySet DEF Init
  <2> HIDE DEF Settled
  <2> QED
    BY <2>1 DEF CountInv
<1>3. ThreadInv
  BY <1>1, FS_EmptySet, ConfigAssumption DEF Init, ThreadInv
<1>4. NothingDropped
  BY DEF Init, Dispatch!Init, NothingDropped
<1> QED
  BY <1>2, <1>3, <1>4

LEMMA SettledKept ==
  ASSUME TypeInv, PcInv, WorkInv, [Next]_vars, ~Count, NEW R \in SUBSET Returned
  PROVE  Settled(R)' = Settled(R)
<1> USE DEF Settled
<1>1. CASE ReadPage
  <2>1. Untouched /\ UNCHANGED <<outcome, current>>
    BY <1>1 DEF ReadPage, PcInv, PhaseInv, BeforeDispatch
  <2> QED
    BY <2>1 DEF Untouched
<1>2. ASSUME NEW s \in Senders, Take(s) PROVE Settled(R)' = Settled(R)
  <2>1. /\ active' = active \cup {[sender |-> s, item |-> Head(work[s])]}
        /\ work[s] # <<>> /\ UNCHANGED <<outcome, current>>
    BY <1>2 DEF Take, Dispatch!Take
  <2>2. outcome[Head(work[s])] = "none"
    BY <2>1, TailFresh DEF WorkInv, QueueInv, TypeInv, DispatchTypes
  <2> QED
    BY <2>1, <2>2
<1>3. CASE WorkerStep
  BY <1>3 DEF WorkerStep, Execute, TypeInv, DispatchTypes
<1>4. ASSUME NEW f \in active, Yield(f) PROVE Settled(R)' = Settled(R)
  <2>1. /\ active' = active \ {f} /\ current' = f.item /\ current = 0
        /\ UNCHANGED outcome
    BY <1>4 DEF Yield, Dispatch!HandBack, PcInv, PhaseInv
  <2>2. \A e \in Events : e # current
    BY <2>1, EventsAssumption
  <2> QED
    BY <2>1, <2>2
<1>5. CASE \E f \in active : WorkerRaised(f)
  BY <1>5 DEF WorkerRaised, Dispatch!Abort
<1>6. CASE EndDispatch \/ Fail \/ UNCHANGED dispatchVars
  BY <1>6 DEF EndDispatch, Fail, dispatchVars, Dispatch!Complete, Dispatch!Abort
<1> QED
  BY <1>1, <1>2, <1>3, <1>4, <1>5, <1>6, DispatchFrame

(* The result at the consumer is settled once it is counted.               *)
LEMMA CountSettles ==
  ASSUME TypeInv, PcInv, WorkInv, Count
  PROVE  /\ current \in Events
         /\ \A R \in SUBSET Returned :
              /\ current \notin Settled(R)
              /\ Settled(R)' = IF outcome[current] \in R
                               THEN Settled(R) \cup {current} ELSE Settled(R)
<1>1. /\ current \in Events /\ current' = 0 /\ UNCHANGED <<active, outcome>>
      /\ \A f \in active : f.item # current
  BY EventsAssumption DEF Count, CountSuccess, CountFailure, Dispatch!Abort, PcInv,
     PhaseInv, WorkInv, CurrentIsDone
<1>2. \A e \in Events : e # 0
  BY EventsAssumption
<1> QED
  BY <1>1, <1>2 DEF Settled

LEMMA CountInvStep ==
  ASSUME TypeInv, PcInv, WorkInv, CountInv, [Next]_vars
  PROVE  CountInv'
<1> DEFINE S == Settled(Reported)
           F == Settled({"failure"})
<1>1. /\ S \in SUBSET Events /\ IsFiniteSet(S) /\ Cardinality(S) \in Nat
      /\ F \in SUBSET Events /\ IsFiniteSet(F) /\ Cardinality(F) \in Nat
  <2>1. S \in SUBSET Events /\ F \in SUBSET Events
    BY DEF Settled
  <2> QED
    BY <2>1, FiniteEvents
<1>2. CASE Count
  <2>1. current \in Events /\ current \notin S /\ current \notin F
    BY <1>2, CountSettles
  <2>2. /\ S' = IF outcome[current] \in Reported THEN S \cup {current} ELSE S
        /\ F' = IF outcome[current] = "failure" THEN F \cup {current} ELSE F
    BY <1>2, CountSettles
  <2>3. /\ Cardinality(S \cup {current}) = Cardinality(S) + 1
        /\ Cardinality(F \cup {current}) = Cardinality(F) + 1
    BY <1>1, <2>1, FS_AddElement
  <2>4. /\ outcome[current] \in Returned
        /\ pc = "count" /\ pc' \in {"dispatch", "drain"}
        /\ IF outcome[current] \in Reported
           THEN success_count' = success_count + 1 /\ UNCHANGED failure_count
           ELSE failure_count' = failure_count + 1 /\ UNCHANGED success_count
    BY <1>2, <2>1, EventsAssumption DEF Count, CountSuccess, CountFailure, WorkInv,
       CurrentIsDone
  <2> HIDE DEF S, F
  <2>5. success_count' = Cardinality(S') /\ failure_count' = Cardinality(F')
    BY <1>1, <2>2, <2>3, <2>4 DEF CountInv, S, F
  <2> QED
    BY <2>4, <2>5 DEF CountInv, S, F
<1>3. CASE ~Count
  <2>1. S' = S /\ F' = F
    BY <1>3, SettledKept
  <2>2. UNCHANGED success_count
    BY <1>3, CountFrame DEF Classify, Finish, FinishFailed, countVars
  <2>3. failure_count' + (IF pc = "raised" THEN 1 ELSE 0) =
        failure_count + (IF pc' = "raised" THEN 1 ELSE 0)
    <3>1. CASE FinishFailed
      BY <3>1 DEF FinishFailed, TypeInv, CountTypes
    <3>2. CASE ~FinishFailed
      <4>1. UNCHANGED failure_count
        BY <1>3, <3>2, CountFrame DEF Classify, Finish, countVars
      <4>2. pc' = "raised" <=> pc = "raised"
        BY <1>3, <3>2 DEF Next, MainStep, WorkerStep, vars, CountCandidates,
           ReportSenders, VerifyProfiles, VerifyTokens, LoadTokens, ReadPage,
           EndOfPages, CheckMembership, Classify, Take, Execute, Yield, WorkerRaised,
           EndDispatch, Drain, CutShort, Finish, Fail, Change
      <4> QED
        BY <4>1, <4>2 DEF TypeInv, CountTypes
    <3> QED
      BY <3>1, <3>2
  <2> HIDE DEF S, F
  <2>4. failure_count' \in Nat \/ failure_count' \in Int
    BY CountFrame, <1>3 DEF Classify, Finish, FinishFailed, countVars, TypeInv, CountTypes
  <2> QED
    BY <1>1, <2>1, <2>2, <2>3, <2>4 DEF CountInv, S, F, TypeInv, CountTypes
<1> QED
  BY <1>2, <1>3

LEMMA ThreadInvStep ==
  ASSUME TypeInv, PcInv, WorkInv, ThreadInv, [Next]_vars
  PROVE  ThreadInv'
<1>0. Cardinality(active) \in Nat /\ MaxConcurrentSenders \in Nat
  BY FS_CardinalityType, ConfigAssumption DEF ThreadInv
<1>1. CASE ReadPage
  BY <1>1, ReadPageRefined DEF ReadPage, EndOfPages, Dispatch!Begin, ThreadInv
<1>2. ASSUME NEW s \in Senders, Take(s) PROVE ThreadInv'
  <2> DEFINE f == [sender |-> s, item |-> Head(work[s])]
  <2>1. /\ active' = active \cup {f} /\ Cardinality(active) < MaxConcurrentSenders
        /\ current = 0 /\ UNCHANGED current /\ \A g \in active : g.sender # s
    BY <1>2, SameCardinality DEF Take, Dispatch!Take, PcInv, PhaseInv
  <2>2. f.sender = s
    OBVIOUS
  <2> HIDE DEF f
  <2>3. IsFiniteSet(active') /\ Cardinality(active') = Cardinality(active) + 1
    BY <2>1, <2>2, FS_AddElement DEF ThreadInv
  <2> QED
    BY <1>0, <2>1, <2>3 DEF ThreadInv
<1>3. ASSUME NEW f \in active, Yield(f) PROVE ThreadInv'
  <2>1. active' = active \ {f} /\ current = 0
    BY <1>3 DEF Yield, Dispatch!HandBack, PcInv, PhaseInv
  <2>2. IsFiniteSet(active') /\ Cardinality(active') = Cardinality(active) - 1
    BY <2>1, FS_RemoveElement DEF ThreadInv
  <2> QED
    BY <1>0, <2>1, <2>2 DEF ThreadInv
<1>4. CASE Count
  BY <1>0, <1>4 DEF Count, CountSuccess, CountFailure, Dispatch!Abort, ThreadInv
<1>5. CASE \/ WorkerStep \/ (\E f \in active : WorkerRaised(f)) \/ EndDispatch \/ Fail
           \/ UNCHANGED dispatchVars
  BY <1>5 DEF WorkerStep, Execute, WorkerRaised, EndDispatch, Fail, dispatchVars,
     Dispatch!Complete, Dispatch!Abort, ThreadInv
<1> QED
  BY <1>1, <1>2, <1>3, <1>4, <1>5, DispatchFrame

-----------------------------------------------------------------------------
(* Until something aborts the run, each event read is in the page in hand, *)
(* skipped with one row in the journal, or queued, and the failed ones     *)
(* among the settled have the rows that are not about skipping.            *)

Undisturbed == pc \notin {"drain", "except", "raised"}
Skipped == Journalled({"sender_scope", "room_membership"})

Explained ==
  /\ Journalled({"redaction_request"}) = Settled({"failure"})
  /\ \A e \in Events, j, k \in Kinds :
       <<e, j>> \in run_failures /\ <<e, k>> \in run_failures => j = k
  /\ skipped_count = Cardinality(Skipped)

Sorted ==
  \A e \in Events :
    /\ e \in processed <=> e \in batch \/ e \in Skipped \/ Admitted(e)
    /\ e \in Skipped => e \notin batch /\ ~Admitted(e)

JournalInv == Undisturbed => Explained /\ Sorted

LEMMA InitJournalInv == Init => JournalInv
<1> SUFFICES ASSUME Init PROVE Explained /\ Sorted
  BY DEF JournalInv
<1>1. Skipped = {} /\ Journalled({"redaction_request"}) = {} /\ Settled({"failure"}) = {}
  BY DEF Init, Skipped, Journalled, Settled
<1>2. \A e \in Events : ~Admitted(e)
  BY AttributesAssumption DEF Init, Admitted, ToSet
<1>3. Cardinality(Skipped) = 0
  BY <1>1, FS_EmptySet
<1> QED
  BY <1>1, <1>2, <1>3 DEF Init, Explained, Sorted

(* A skipped event, or one without a row, has no result.                   *)
LEMMA AdmittedIsRead ==
  ASSUME TypeInv, PageInv, NEW e \in Events, Admitted(e)
  PROVE  e \in processed /\ e \notin batch
BY AttributesAssumption DEF PageInv, Queued, Admitted

LEMMA ReadPageJournalInv ==
  ASSUME TypeInv, PageInv, PcInv, WorkInv, JournalInv, ReadPage
  PROVE  JournalInv'
<1>1. /\ pc = "page" /\ batch = {} /\ Untouched
      /\ UNCHANGED <<eligible, skipped_count, run_failures, outcome, current>>
  BY DEF ReadPage, PageInv, Batch, PcInv, PhaseInv, BeforeDispatch, countVars
<1>2. Explained /\ Sorted
  BY <1>1 DEF JournalInv, Undisturbed
<1>3. Explained'
  <2>1. Settled({"failure"})' = Settled({"failure"})
    BY <1>1 DEF Untouched, Settled
  <2> QED
    BY <1>1, <1>2, <2>1 DEF Explained, Journalled, Skipped
<1>4. Sorted'
  <2>1. CASE UNCHANGED <<last, batch, processed, processed_count>>
    BY <1>1, <1>2, <2>1 DEF Sorted, Skipped, Journalled, Admitted
  <2>2. CASE processed' = processed \cup batch'
    <3>1. batch' \cap processed = {}
      BY PagesAreDisjoint
    <3> QED
      BY <1>1, <1>2, <2>2, <3>1 DEF Sorted, Skipped, Journalled, Admitted
  <2> QED
    BY <2>1, <2>2, ReadPageRefined
<1> QED
  BY <1>3, <1>4 DEF JournalInv

LEMMA ClassifyJournalInv ==
  ASSUME TypeInv, PageInv, PcInv, WorkInv, JournalInv, NEW e \in batch, Classify(e),
         Undisturbed'
  PROVE  JournalInv'
<1> DEFINE kind == SkipKind(e)
<1>1. /\ e \in Events /\ SenderOf[e] \in Senders /\ Explained /\ Sorted
      /\ eligible \in [Senders -> Seq(Events)]
  BY AttributesAssumption DEF TypeInv, PageTypes, Classify, JournalInv, Undisturbed
<1>2. /\ batch' = batch \ {e} /\ processed' = processed
      /\ UNCHANGED <<outcome, current, active>> /\ Untouched
  BY DEF Classify, dispatchVars, PcInv, PhaseInv, BeforeDispatch
<1>3. /\ Settled({"failure"}) = {} /\ Settled({"failure"})' = {}
      /\ \A d \in Events : \A k \in Kinds : <<d, k>> \in run_failures => d \in Skipped
  <2>1. Settled({"failure"}) = {} /\ Settled({"failure"})' = {}
    BY <1>2 DEF Settled, Untouched
  <2> QED
    BY <1>1, <2>1 DEF Explained, Journalled, Skipped, Kinds
<1>4. e \notin Skipped /\ e \in processed
  BY <1>1 DEF Sorted
<1>5. CASE MayRedact(e)
  <2>1. /\ eligible' = [eligible EXCEPT ![SenderOf[e]] = Append(@, e)]
        /\ UNCHANGED <<skipped_count, run_failures>>
    BY <1>5 DEF Classify
  <2>2. ToSet(Append(eligible[SenderOf[e]], e)) = ToSet(eligible[SenderOf[e]]) \cup {e}
    BY <1>1, AppendFresh
  <2>3. \A d \in Events : Admitted(d)' <=> Admitted(d) \/ d = e
    BY <1>1, <2>1, <2>2, AttributesAssumption DEF Admitted
  <2>4. Skipped' = Skipped /\ UNCHANGED Journalled({"redaction_request"})
    BY <2>1 DEF Skipped, Journalled
  <2> QED
    BY <1>1, <1>2, <1>3, <1>4, <2>1, <2>3, <2>4 DEF JournalInv, Explained, Sorted
<1>6. CASE ~MayRedact(e)
  <2>1. /\ run_failures' = run_failures \cup {<<e, kind>>}
        /\ skipped_count' = skipped_count + 1 /\ UNCHANGED eligible
    BY <1>6 DEF Classify, RecordFailure, Undisturbed
  <2>2. kind \in {"sender_scope", "room_membership"}
    BY DEF SkipKind
  <2> HIDE DEF kind
  <2>3. Skipped' = Skipped \cup {e} /\ UNCHANGED Journalled({"redaction_request"})
    BY <1>1, <2>1, <2>2 DEF Skipped, Journalled
  <2>4. Cardinality(Skipped') = Cardinality(Skipped) + 1
    <3>1. IsFiniteSet(Skipped)
      <4>1. Skipped \in SUBSET Events
        BY DEF Skipped, Journalled
      <4> QED
        BY <4>1, FiniteEvents
    <3> QED
      BY <1>4, <2>3, <3>1, FS_AddElement
  <2>5. Explained'
    <3>1. \A d \in Events, j, k \in Kinds :
            <<d, j>> \in run_failures' /\ <<d, k>> \in run_failures' => j = k
      BY <1>1, <1>3, <1>4, <2>1 DEF Explained
    <3> QED
      BY <1>1, <1>3, <2>1, <2>3, <2>4, <3>1 DEF Explained
  <2>6. Sorted'
    <3>1. ~Admitted(e)
      BY <1>1, AdmittedIsRead
    <3> QED
      BY <1>1, <1>2, <1>4, <2>1, <2>3, <3>1 DEF Sorted, Admitted
  <2> QED
    BY <2>5, <2>6 DEF JournalInv
<1> QED
  BY <1>5, <1>6

LEMMA CountJournalInv ==
  ASSUME TypeInv, PageInv, PcInv, WorkInv, JournalInv, Count, Undisturbed'
  PROVE  JournalInv'
<1>1. /\ current \in Events /\ Explained /\ Sorted /\ Admitted(current)
      /\ outcome[current] \in Returned
      /\ UNCHANGED <<eligible, batch, processed, skipped_count>>
  BY EventsAssumption DEF Count, PcInv, PhaseInv, JournalInv, Undisturbed, pageVars,
     WorkInv, CurrentIsDone
<1>2. CASE outcome[current] \in Reported
  <2>1. UNCHANGED run_failures
    BY <1>2 DEF Count, CountSuccess
  <2>2. Settled({"failure"})' = Settled({"failure"})
    BY <1>2, CountSettles
  <2>3. UNCHANGED <<Skipped, Journalled({"redaction_request"})>>
    BY <2>1 DEF Skipped, Journalled
  <2> QED
    BY <1>1, <2>1, <2>2, <2>3 DEF JournalInv, Explained, Sorted, Admitted
<1>3. CASE outcome[current] = "failure"
  <2>1. run_failures' = run_failures \cup {<<current, "redaction_request">>}
    BY <1>3 DEF Count, CountFailure, RecordFailure, Undisturbed
  <2>2. /\ Settled({"failure"})' = Settled({"failure"}) \cup {current}
        /\ current \notin Settled({"failure"})
    BY <1>3, CountSettles
  <2>3. /\ Skipped' = Skipped
        /\ Journalled({"redaction_request"})' =
             Journalled({"redaction_request"}) \cup {current}
    BY <1>1, <2>1 DEF Skipped, Journalled
  <2>4. \A k \in Kinds : <<current, k>> \notin run_failures
    BY <1>1, <2>2 DEF Explained, Sorted, Skipped, Journalled, Kinds
  <2>5. \A d \in Events, j, k \in Kinds :
          <<d, j>> \in run_failures' /\ <<d, k>> \in run_failures' => j = k
    BY <1>1, <2>1, <2>4 DEF Explained
  <2> QED
    BY <1>1, <2>2, <2>3, <2>5 DEF JournalInv, Explained, Sorted, Admitted
<1> QED
  BY <1>1, <1>2, <1>3

LEMMA JournalInvStep ==
  ASSUME TypeInv, PageInv, PcInv, WorkInv, JournalInv, [Next]_vars
  PROVE  JournalInv'
<1> SUFFICES ASSUME Undisturbed' PROVE JournalInv'
  BY DEF JournalInv
<1>1. Undisturbed
  BY DEF Undisturbed, Next, MainStep, WorkerStep, vars, CountCandidates, ReportSenders,
     VerifyProfiles, VerifyTokens, LoadTokens, ReadPage, CheckMembership, Classify,
     Take, Execute, Yield, WorkerRaised, Count, EndDispatch, Drain, CutShort, Finish,
     FinishFailed, Fail, Change
<1>2. CASE ~ReadPage /\ ~Count /\ ~(\E e \in batch : Classify(e))
  <2>1. UNCHANGED <<batch, eligible, processed>>
    BY <1>2, PageFrame DEF CheckMembership, pageVars
  <2>2. UNCHANGED <<skipped_count, run_failures>>
    BY <1>2, CountFrame DEF Finish, FinishFailed, countVars
  <2>3. Settled({"failure"})' = Settled({"failure"})
    BY <1>2, SettledKept
  <2>4. UNCHANGED <<Skipped, Journalled({"redaction_request"})>>
    BY <2>2 DEF Skipped, Journalled
  <2> QED
    BY <1>1, <2>1, <2>2, <2>3, <2>4 DEF JournalInv, Explained, Sorted, Admitted
<1> QED
  BY <1>2, ReadPageJournalInv, ClassifyJournalInv, CountJournalInv

-----------------------------------------------------------------------------
(* What a worker reported redacted without a redirect has left Synapse's   *)
(* candidates, and can no longer arrive among them.                        *)

GoneInv ==
  /\ \A e \in arriving : e \notin candidates /\ e \notin processed
  /\ \A e \in Events :
       outcome[e] = "success" => e \notin candidates /\ e \notin arriving

LEMMA GoneInvStep ==
  ASSUME TypeInv, PageInv, WorkInv, GoneInv, [Next]_vars
  PROVE  GoneInv'
<1> USE DEF GoneInv
<1>1. CASE ReadPage
  <2>1. UNCHANGED <<candidates, arriving, outcome>>
    BY <1>1 DEF ReadPage, dbVars
  <2>2. \A e \in processed' : e \in processed \/ e \in candidates
    BY <1>1, ReadPageRefined
  <2> QED
    BY <2>1, <2>2
<1>2. ASSUME NEW f \in active, NEW result \in Outcomes, Execute(f, result)
      PROVE  GoneInv'
  <2>1. /\ f.item \in Events /\ UNCHANGED <<arriving, processed>>
        /\ outcome' = [outcome EXCEPT ![f.item] = result]
        /\ \/ candidates' = candidates \ {f.item}
           \/ result # "success" /\ UNCHANGED candidates
    BY <1>2 DEF Execute, TypeInv, DispatchTypes, pageVars
  <2>2. f.item \in processed
    BY <2>1, AdmittedIsRead DEF WorkInv, ActiveInv
  <2>3. outcome \in [Events -> {"none"} \cup Outcomes]
    BY DEF TypeInv, DispatchTypes
  <2> QED
    BY <2>1, <2>2, <2>3
<1>3. CASE Change
  <2>1. UNCHANGED <<processed, outcome>>
    BY <1>3 DEF Change, pageVars, dispatchVars
  <2>2. /\ arriving' \subseteq arriving
        /\ \A e \in candidates' : e \in candidates \/ e \in arriving \ arriving'
    BY <1>3 DEF Change, Synapse!Next, Synapse!Redact, Synapse!Arrive,
       Synapse!Deactivate, Synapse!ChangeToken, Synapse!ChangeMembership
  <2> QED
    BY <2>1, <2>2
<1>4. CASE ~ReadPage /\ ~WorkerStep /\ ~Change
  <2>1. UNCHANGED <<candidates, arriving>>
    BY <1>4, DbFrame DEF dbVars
  <2>2. UNCHANGED processed
    BY <1>4, PageFrame DEF CheckMembership, Classify, pageVars
  <2>3. UNCHANGED outcome
    BY <1>4, DispatchFrame DEF Take, Yield, WorkerRaised, Count, EndDispatch, Fail,
       dispatchVars
  <2> QED
    BY <2>1, <2>2, <2>3
<1> QED
  BY <1>1, <1>2, <1>3, <1>4 DEF WorkerStep

-----------------------------------------------------------------------------
(* The inductive invariant *)

IInv ==
  /\ TypeInv /\ PageInv /\ SteadyInv /\ PcInv /\ WorkInv /\ NothingDropped
  /\ CountInv /\ ThreadInv /\ JournalInv /\ GoneInv

LEMMA IInvAlways == Spec => []IInv
<1>1. Init => IInv
  <2>1. Init => SteadyInv /\ GoneInv
    BY DEF Init, SteadyInv, GoneInv
  <2> QED
    BY <2>1, InitTypeInv, InitPageInv, InitPcInv, InitWorkInv, InitCountInv,
       InitJournalInv DEF IInv
<1>2. IInv /\ [Next]_vars => IInv'
  <2> SUFFICES ASSUME IInv, [Next]_vars PROVE IInv'
    OBVIOUS
  <2>1. TypeInv /\ CurrentInv
    BY DEF IInv, PcInv, PhaseInv, CurrentInv
  <2> QED
    BY <2>1, TypeInvStep, PageInvStep, SteadyInvStep, PcInvStep, WorkInvStep,
       NothingDroppedStep, CountInvStep, ThreadInvStep, JournalInvStep,
       GoneInvStep DEF IInv
<1> QED
  BY <1>1, <1>2, PTL DEF Spec

-----------------------------------------------------------------------------
(* The properties *)

(* The variables of a sweep have their types, whatever Synapse's database  *)
(* does meanwhile, and a page is never longer than BATCH_SIZE.             *)
THEOREM TypeCorrect == Spec => []TypeOK
<1>1. IInv => TypeOK
  BY DEF IInv, TypeInv, DbTypes, PlanTypes, Scopes, PageTypes, CountTypes, Kinds,
     DispatchTypes, PageInv, Batch, SteadyInv, TypeOK
<1> QED
  BY <1>1, IInvAlways, PTL

(* Pages never overlap, for any page size and any number of events that    *)
(* come, go or share a timestamp: each is read and queued at most once.    *)
THEOREM PagesNeverOverlap == Spec => []ReadOnce
<1>1. IInv => ReadOnce
  BY DEF IInv, PageInv, Cursor, Queued, ReadOnce
<1> QED
  BY <1>1, IInvAlways, PTL

(* Pages leave no gap: what has been a candidate since the first page was  *)
(* read has been read when the dispatch begins.                            *)
THEOREM PagesLeaveNoGap == Spec => []NothingSteadyMissed
<1>1. IInv => NothingSteadyMissed
  BY DEF IInv, SteadyInv, NothingSteadyMissed
<1> QED
  BY <1>1, IInvAlways, PTL

LEMMA SettledAtRest ==
  ASSUME active = {}, current = 0, NEW R
  PROVE  WithOutcome(R) = Settled(R)
BY EventsAssumption DEF WithOutcome, Settled

(* When a row is final the run's threads are idle, unless a second         *)
(* interrupt left them behind, and COMPLETED means that every candidate    *)
(* let through is gone from Synapse's candidates, but for a redaction      *)
(* answered without a body.                                                *)
THEOREM FinalStatusIsRight == Spec => []FinalStatusIsTrue
<1>1. IInv => FinalStatusIsTrue
  <2> SUFFICES ASSUME IInv, status # "running" PROVE FinalStatusIsTrue
    BY DEF FinalStatusIsTrue
  <2>1. pc \in {"done", "raised"}
    BY DEF IInv, PcInv, EndInv
  <2>2. WorkersIdle \/ cut_short
    BY <2>1 DEF IInv, PcInv, EndInv, WorkersIdle
  <2>3. ASSUME status = "completed", ~dry_run, NEW s \in Senders,
               NEW e \in ToSet(eligible[s])
        PROVE  e \notin candidates \/ outcome[e] = "redirect"
    <3>1. /\ pc = "done" /\ failure_count = 0 /\ phase = "complete"
          /\ active = {} /\ current = 0 /\ \A t \in Senders : work[t] = <<>>
      BY <2>1, <2>3 DEF IInv, PcInv, EndInv, FinalStatus
    <3>2. Settled({"failure"}) = {}
      <4>1. Settled({"failure"}) \in SUBSET Events
        BY DEF Settled
      <4>2. IsFiniteSet(Settled({"failure"})) /\ Cardinality(Settled({"failure"})) \in Nat
        BY <4>1, FiniteEvents
      <4>3. Cardinality(Settled({"failure"})) = 0
        BY <3>1, <4>2 DEF IInv, CountInv
      <4> QED
        BY <4>2, <4>3, FS_EmptySet
    <3>3. e \in Events /\ SenderOf[e] = s
      BY DEF IInv, PageInv, Queued, TypeInv, PageTypes
    <3>4. outcome[e] \in Returned
      <4>1. e \notin ToSet(work[SenderOf[e]])
        BY <3>1, <3>3 DEF ToSet
      <4> QED
        BY <3>1, <3>3, <4>1 DEF IInv, NothingDropped, Admitted, Underway
    <3>5. outcome[e] = "failure" => e \in Settled({"failure"})
      BY <3>1, <3>3, EventsAssumption DEF Settled
    <3> QED
      BY <3>2, <3>3, <3>4, <3>5 DEF IInv, GoneInv
  <2> QED
    BY <2>2, <2>3 DEF FinalStatusIsTrue
<1> QED
  BY <1>1, IInvAlways, PTL

(* An aborted run has lost the outcomes of at most as many candidates as   *)
(* it has threads.                                                         *)
THEOREM LossesAreBounded == Spec => []LossIsBounded
<1>1. ASSUME IInv PROVE LossIsBounded
  <2> DEFINE S == Settled(Reported)
             F == Settled({"failure"})
             A == {f.item : f \in active}
             C == IF current = 0 THEN {} ELSE {current}
             O == WithOutcome(Outcomes)
  <2>1. /\ IsFiniteSet(S) /\ Cardinality(S) \in Nat
        /\ IsFiniteSet(F) /\ Cardinality(F) \in Nat
        /\ IsFiniteSet(O) /\ Cardinality(O) \in Nat
        /\ IsFiniteSet(WithOutcome(Reported))
    <3>1. /\ S \in SUBSET Events /\ F \in SUBSET Events /\ O \in SUBSET Events
          /\ WithOutcome(Reported) \in SUBSET Events
      BY DEF Settled, WithOutcome
    <3> QED
      BY <3>1, FiniteEvents
  <2>2. success_count <= Cardinality(WithOutcome(Reported))
    <3>1. S \in SUBSET WithOutcome(Reported)
      BY DEF Settled, WithOutcome
    <3> QED
      BY <1>1, <2>1, <3>1, FS_Subset DEF IInv, CountInv
  <2>3. IsFiniteSet(A) /\ Cardinality(A) <= Cardinality(active)
    <3> DEFINE itemOf == [f \in active |-> f.item]
    <3>1. itemOf \in Surjection(active, A)
      BY DEF Surjection
    <3> HIDE DEF itemOf, A
    <3> QED
      BY <1>1, <3>1, FS_Surjection DEF IInv, ThreadInv
  <2>4. /\ IsFiniteSet(C)
        /\ Cardinality(C) = IF current = 0 THEN 0 ELSE 1
    BY FS_EmptySet, FS_Singleton
  <2>5. O \in SUBSET ((S \cup F) \cup (A \cup C))
    <3> SUFFICES ASSUME NEW e \in O PROVE e \in (S \cup F) \cup (A \cup C)
      OBVIOUS
    <3>1. e \in Events /\ outcome[e] \in Outcomes
      BY DEF WithOutcome
    <3>2. CASE e \in A \/ e \in C
      BY <3>2
    <3>3. CASE e \notin A /\ e \notin C
      <4>1. e # current /\ \A f \in active : f.item # e
        BY <3>1, <3>3, EventsAssumption
      <4>2. outcome[e] # "raise"
        BY <1>1, <3>1, <4>1 DEF IInv, WorkInv, OutcomeInv
      <4> QED
        BY <3>1, <4>1, <4>2 DEF Settled
    <3> QED
      BY <3>2, <3>3
  <2> HIDE DEF S, F, A, C, O
  <2>6. /\ IsFiniteSet((S \cup F) \cup (A \cup C))
        /\ Cardinality((S \cup F) \cup (A \cup C)) <=
             Cardinality(S) + Cardinality(F) + Cardinality(A) + Cardinality(C)
    BY <2>1, <2>3, <2>4, UnionBound
  <2>7. Cardinality(O) <=
          Cardinality(S) + Cardinality(F) + Cardinality(A) + Cardinality(C)
    <3>1. /\ Cardinality((S \cup F) \cup (A \cup C)) \in Nat
          /\ Cardinality(O) <= Cardinality((S \cup F) \cup (A \cup C))
      BY <2>5, <2>6, FS_Subset, FS_CardinalityType
    <3>2. Cardinality(A) \in Nat /\ Cardinality(C) \in Nat
      BY <2>3, <2>4, FS_CardinalityType
    <3> QED
      BY <2>1, <2>6, <3>1, <3>2
  <2>8. Cardinality(A) + Cardinality(C) <= MaxConcurrentSenders
    <3>1. /\ Cardinality(A) \in Nat /\ Cardinality(active) \in Nat
          /\ Cardinality(C) \in Nat /\ MaxConcurrentSenders \in Nat
      BY <1>1, <2>3, <2>4, FS_CardinalityType, ConfigAssumption DEF IInv, ThreadInv
    <3> QED
      BY <1>1, <2>3, <2>4, <3>1 DEF IInv, ThreadInv
  <2>9. success_count = Cardinality(S) /\ failure_count >= Cardinality(F)
        /\ failure_count \in Nat
    BY <1>1, <2>1 DEF IInv, CountInv, TypeInv, CountTypes, S, F
  <2>10. Cardinality(O) <= success_count + failure_count + MaxConcurrentSenders
    <3>1. Cardinality(A) \in Nat /\ Cardinality(C) \in Nat /\ MaxConcurrentSenders \in Nat
      BY <2>3, <2>4, FS_CardinalityType, ConfigAssumption
    <3> QED
      BY <2>1, <2>7, <2>8, <2>9, <3>1
  <2> QED
    BY <2>2, <2>10 DEF LossIsBounded, O
<1> QED
  BY <1>1, IInvAlways, PTL

(* One row each: the journal is as long as the number of events in it.     *)
LEMMA RowsAreEvents ==
  ASSUME TypeInv, Explained
  PROVE  /\ IsFiniteSet(Journalled(Kinds))
         /\ Cardinality(run_failures) = Cardinality(Journalled(Kinds))
<1> DEFINE eventOf == [r \in run_failures |-> r[1]]
<1>1. run_failures \in SUBSET (Events \X Kinds) /\ Journalled(Kinds) \in SUBSET Events
  BY DEF TypeInv, CountTypes, Journalled
<1>2. IsFiniteSet(Journalled(Kinds))
  BY <1>1, FiniteEvents
<1>3. eventOf \in [run_failures -> Journalled(Kinds)]
  BY <1>1 DEF Journalled
<1>4. \A q, r \in run_failures : eventOf[q] = eventOf[r] => q = r
  BY <1>1 DEF Explained
<1>5. \A e \in Journalled(Kinds) : \E r \in run_failures : eventOf[r] = e
  BY DEF Journalled
<1> HIDE DEF eventOf
<1>6. eventOf \in Injection(run_failures, Journalled(Kinds))
  BY <1>3, <1>4 DEF Injection, IsInjective
<1>7. eventOf \in Surjection(run_failures, Journalled(Kinds))
  BY <1>3, <1>5 DEF Surjection
<1> QED
  BY <1>2, <1>6, <1>7, FS_Injection

(* The row of a run that reached its end adds up and the journal explains  *)
(* it, however many pages, senders and failures there were.                *)
THEOREM CountsAreExact == Spec => []CountsAddUp
<1>1. ASSUME IInv, pc = "done", ~dry_run PROVE CountsAddUp
  <2> DEFINE S == WithOutcome(Reported)
             F == WithOutcome({"failure"})
             R == Journalled({"redaction_request"})
  <2>1. /\ phase = "complete" /\ active = {} /\ current = 0 /\ batch = {}
        /\ \A s \in Senders : work[s] = <<>>
        /\ Undisturbed
    BY <1>1 DEF IInv, PcInv, EndInv, PageInv, Batch, Undisturbed
  <2>2. Explained /\ Sorted
    BY <1>1, <2>1 DEF IInv, JournalInv
  <2>3. S = Settled(Reported) /\ F = Settled({"failure"}) /\ F = R
    BY <2>1, <2>2, SettledAtRest DEF Explained
  <2>4. success_count = Cardinality(S) /\ failure_count = Cardinality(F)
        /\ skipped_count = Cardinality(Skipped)
    <3>1. Cardinality(F) \in Nat
      <4>1. F \in SUBSET Events
        BY DEF WithOutcome
      <4> QED
        BY <4>1, FiniteEvents
    <3> HIDE DEF S, F
    <3> QED
      BY <1>1, <2>2, <2>3, <3>1 DEF IInv, CountInv, Explained
  <2>5. \A e \in Events : Admitted(e) <=> e \in S \/ e \in F
    <3>1. ASSUME NEW e \in Events, Admitted(e) PROVE e \in S \/ e \in F
      <4>1. Underway(e)
        BY <1>1, <2>1, <3>1 DEF IInv, NothingDropped
      <4>2. e \notin ToSet(work[SenderOf[e]])
        BY <2>1, AttributesAssumption DEF ToSet
      <4> QED
        BY <2>1, <4>1, <4>2 DEF Underway, WithOutcome
    <3>2. ASSUME NEW e \in Events, e \in S \/ e \in F PROVE Admitted(e)
      BY <1>1, <3>2 DEF IInv, WorkInv, OutcomeInv, WithOutcome
    <3> QED
      BY <3>1, <3>2
  <2>6. processed = (S \cup F) \cup Skipped
    <3>1. /\ processed \in SUBSET Events /\ Skipped \in SUBSET Events
          /\ S \in SUBSET Events /\ F \in SUBSET Events
      BY <1>1 DEF IInv, TypeInv, PageTypes, Skipped, Journalled, WithOutcome
    <3> HIDE DEF S, F
    <3> QED
      BY <2>1, <2>2, <2>5, <3>1 DEF Sorted
  <2>7. /\ \A e \in S : e \notin F
        /\ \A e \in S \cup F : e \notin Skipped
    <3>1. \A e \in S \cup F : e \in Events
      BY DEF WithOutcome
    <3> QED
      BY <2>2, <2>5, <3>1 DEF Sorted, WithOutcome
  <2>8. IsFiniteSet(S) /\ IsFiniteSet(F) /\ IsFiniteSet(Skipped)
    <3>1. S \in SUBSET Events /\ F \in SUBSET Events /\ Skipped \in SUBSET Events
      BY DEF WithOutcome, Skipped, Journalled
    <3> QED
      BY <3>1, FiniteEvents
  <2>9. /\ Cardinality(S) \in Nat /\ Cardinality(F) \in Nat
        /\ Cardinality(Skipped) \in Nat
    BY <2>8, FS_CardinalityType
  <2>10. processed_count = success_count + skipped_count + failure_count
    <3> HIDE DEF S, F
    <3>1. IsFiniteSet(S \cup F) /\ Cardinality(S \cup F) = Cardinality(S) + Cardinality(F)
      BY <2>7, <2>8, DisjointUnion
    <3>2. Cardinality((S \cup F) \cup Skipped) = Cardinality(S \cup F) + Cardinality(Skipped)
      BY <2>7, <2>8, <3>1, DisjointUnion
    <3>3. processed_count = Cardinality(processed)
      BY <1>1 DEF IInv, PageInv, Cursor
    <3> QED
      BY <2>4, <2>6, <2>9, <3>1, <3>2, <3>3
  <2>11. Cardinality(run_failures) = skipped_count + failure_count
    <3>1. Journalled(Kinds) = Skipped \cup F
      BY <2>3 DEF Journalled, Kinds, Skipped
    <3>2. Cardinality(run_failures) = Cardinality(Journalled(Kinds))
      BY <1>1, <2>2, RowsAreEvents DEF IInv
    <3> HIDE DEF S, F
    <3>3. Cardinality(Skipped \cup F) = Cardinality(Skipped) + Cardinality(F)
      BY <2>7, <2>8, DisjointUnion
    <3> QED
      BY <2>4, <3>1, <3>2, <3>3
  <2> QED
    BY <2>3, <2>4, <2>10, <2>11 DEF CountsAddUp, Skipped
<1>2. IInv => CountsAddUp
  BY <1>1 DEF CountsAddUp
<1> QED
  BY <1>2, IInvAlways, PTL

-----------------------------------------------------------------------------
(* A run beside which nothing changes: what it found when it planned still *)
(* holds, so that what it queues is what the policy permits.               *)

HasRight(e) ==
  /\ profile[SenderOf[e]] = "active"
  /\ SenderOf[e] \in tokens
  /\ <<SenderOf[e], RoomOf[e]>> \in joined

InitialSenders == {SenderOf[e] : e \in InitialCandidates}

Loaded ==
  \/ pc \in {"page", "membership", "classify", "dispatch", "count", "drain"}
  \/ pc \in {"finish", "done"} /\ ~dry_run
  \/ phase = "aborted"

QuietCandidates ==
  /\ candidates \subseteq InitialCandidates
  /\ phase = "idle" => candidates = InitialCandidates

QuietPlan ==
  /\ pc \notin {"total", "except", "raised"} =>
       candidate_count = Cardinality(InitialCandidates)
  /\ pc \notin {"total", "report", "except", "raised"} => reported = InitialSenders
  /\ pc = "tokens" => \A s \in Senders :
       scope[s] = IF s \in reported THEN ScopeByProfile[profile[s]] ELSE "unknown"
  /\ Loaded \/ pc \notin {"total", "report", "profiles", "tokens", "except", "raised"} =>
       \A s \in Senders :
         scope[s] = "ok" <=> s \in InitialSenders /\ profile[s] = "active" /\ s \in tokens
  /\ Loaded => \A s \in Senders : scope[s] = "ok" <=> s \in sender_tokens

QuietPages ==
  /\ processed \subseteq InitialCandidates
  /\ pc \in {"page", "membership", "classify"} =>
       \A e \in InitialCandidates : e \in processed \/ BehindCursor(e)
  /\ phase # "idle" => InitialCandidates \subseteq processed
  /\ pc = "classify" => \A e \in batch :
       e \in unjoined <=> /\ scope[SenderOf[e]] = "ok"
                          /\ <<SenderOf[e], RoomOf[e]>> \notin joined
  /\ Loaded => \A e \in processed \ batch : Admitted(e) <=> HasRight(e)

QuietRequests == requested = {e \in Events : outcome[e] # "none"}

Quiet == QuietCandidates /\ QuietPlan /\ QuietPages /\ QuietRequests
QuietInv == changes \in Nat /\ (changes = 0 => Quiet)

(* Only a dispatch is aborted. *)
LEMMA AbortedIsLoaded ==
  ASSUME PcInv, [Next]_vars
  PROVE  phase' = "aborted" => Loaded
BY DispatchFrame DEF Loaded, ReadPage, EndOfPages, Take, WorkerStep, Execute, Yield,
   WorkerRaised, Count, CountSuccess, CountFailure, EndDispatch, Fail, dispatchVars,
   Dispatch!Begin, Dispatch!Take, Dispatch!HandBack, Dispatch!Abort, Dispatch!Complete

LEMMA InitQuietInv == Init => QuietInv
<1> SUFFICES ASSUME Init PROVE Quiet /\ changes = 0
  BY DEF QuietInv
<1>1. QuietCandidates /\ QuietPlan /\ changes = 0
  BY DEF Init, Dispatch!Init, QuietCandidates, QuietPlan, Loaded
<1>2. QuietPages
  BY DEF Init, Dispatch!Init, QuietPages, Loaded
<1>3. QuietRequests
  BY DEF Init, QuietRequests
<1> QED
  BY <1>1, <1>2, <1>3 DEF Quiet

(* While the count of changes is 0 only the run's own requests change what *)
(* is in the database.                                                     *)
LEMMA QuietFrame ==
  ASSUME QuietInv, [Next]_vars, changes' = 0
  PROVE  /\ Quiet /\ ~Change
         /\ UNCHANGED <<profile, tokens, joined>>
         /\ WorkerStep \/ UNCHANGED candidates
<1>1. changes = 0
  <2>1. changes' \in {changes, changes + 1}
    BY DbFrame DEF WorkerStep, Execute, Change, dbVars
  <2> QED
    BY <2>1 DEF QuietInv
<1>2. ~Change
  BY <1>1 DEF Change
<1> QED
  BY <1>1, <1>2, DbFrame DEF QuietInv, WorkerStep, Execute, dbVars

LEMMA QuietCandidatesStep ==
  ASSUME PcInv, QuietInv, [Next]_vars, changes' = 0
  PROVE  QuietCandidates'
<1>1. Quiet /\ (WorkerStep \/ UNCHANGED candidates)
  BY QuietFrame
<1>2. CASE WorkerStep
  <2>1. active # {} /\ UNCHANGED phase /\ candidates' \subseteq candidates
    BY <1>2 DEF WorkerStep, Execute
  <2> QED
    BY <1>1, <2>1 DEF Quiet, QuietCandidates, PcInv, PhaseInv, Untouched
<1>3. CASE UNCHANGED candidates
  <2>1. phase' = "idle" => phase = "idle"
    BY DispatchFrame DEF ReadPage, EndOfPages, Take, WorkerStep, Execute, Yield,
       WorkerRaised, Count, CountSuccess, CountFailure, EndDispatch, Fail, dispatchVars,
       Dispatch!Begin, Dispatch!Take, Dispatch!HandBack, Dispatch!Abort,
       Dispatch!Complete
  <2> QED
    BY <1>1, <1>3, <2>1 DEF Quiet, QuietCandidates
<1> QED
  BY <1>1, <1>2, <1>3

LEMMA QuietPlanStep ==
  ASSUME TypeInv, PcInv, QuietInv, [Next]_vars, changes' = 0
  PROVE  QuietPlan'
<1>1. /\ QuietCandidates /\ QuietPlan
      /\ UNCHANGED <<profile, tokens>>
  BY QuietFrame DEF Quiet
<1>2. CASE CountCandidates
  BY <1>1, <1>2, AbortedIsLoaded DEF CountCandidates, QuietPlan, QuietCandidates, Loaded, PcInv,
     PhaseInv, BeforeDispatch, Early
<1>3. CASE ReportSenders
  BY <1>1, <1>3, AbortedIsLoaded DEF ReportSenders, CandidateSenders, InitialSenders, QuietPlan,
     QuietCandidates, Loaded, PcInv, PhaseInv, BeforeDispatch, Early
<1>4. CASE VerifyProfiles
  BY <1>1, <1>4, AbortedIsLoaded DEF VerifyProfiles, QuietPlan, Loaded, PcInv, PhaseInv,
     BeforeDispatch, Early
<1>5. CASE VerifyTokens
  <2>1. \A s \in Senders : profile[s] \in {"remote", "active", "deactivated"}
    BY DEF TypeInv, DbTypes
  <2>2. /\ \A s \in Senders :
             scope[s] = IF s \in reported THEN ScopeByProfile[profile[s]] ELSE "unknown"
        /\ reported = InitialSenders
        /\ candidate_count = Cardinality(InitialCandidates)
    BY <1>1, <1>5 DEF VerifyTokens, QuietPlan
  <2>3. \A s \in Senders :
          scope'[s] = "ok" <=> s \in InitialSenders /\ profile[s] = "active" /\ s \in tokens
    BY <1>5, <2>1, <2>2 DEF VerifyTokens, WithToken, ScopeByProfile
  <2> QED
    BY <1>1, <1>5, <2>2, <2>3, AbortedIsLoaded DEF VerifyTokens, QuietPlan, Loaded, PcInv,
       PhaseInv, BeforeDispatch, Early
<1>6. CASE LoadTokens
  BY <1>1, <1>6 DEF LoadTokens, WithToken, QuietPlan, Loaded
<1>7. CASE Fail
  <2>1. \/ pc' = "except" /\ phase' # "aborted"
        \/ pc' = "drain" /\ pc \in {"dispatch", "count"} /\ UNCHANGED planVars
    BY <1>7 DEF Fail, planVars, PcInv, PhaseInv, EndInv, BeforeDispatch, Early
  <2> QED
    BY <1>1, <2>1 DEF QuietPlan, Loaded, planVars
<1>8. CASE ~(\/ CountCandidates \/ ReportSenders \/ VerifyProfiles \/ VerifyTokens
             \/ LoadTokens \/ Fail)
  <2>1. UNCHANGED planVars
    BY <1>8, PlanFrame
  <2>2. \/ pc' \in {"except", "raised"}
        \/ /\ pc \in {"total", "report", "profiles", "tokens"} => pc' = pc
           /\ pc' \in {"total", "report", "profiles", "tokens"} => pc' = pc
           /\ pc \notin {"except", "raised"}
    BY <1>8 DEF Next, MainStep, WorkerStep, vars, planVars, ReadPage, EndOfPages,
       CheckMembership, Classify, Take, Execute, Yield, WorkerRaised, Count,
       CountSuccess, CountFailure, EndDispatch, Drain, CutShort, Finish, FinishFailed, Change
  <2>3. Loaded' => Loaded
    BY <1>8, AbortedIsLoaded DEF Next, MainStep, WorkerStep, vars, planVars, ReadPage,
       EndOfPages, CheckMembership, Classify, Take, Execute, Yield, WorkerRaised, Count,
       CountSuccess, CountFailure, EndDispatch, Drain, CutShort, Finish, FinishFailed,
       Change, Loaded
  <2> QED
    BY <1>1, <2>1, <2>2, <2>3 DEF QuietPlan, planVars
<1> QED
  BY <1>2, <1>3, <1>4, <1>5, <1>6, <1>7, <1>8

LEMMA QuietReadPage ==
  ASSUME TypeInv, PageInv, PcInv, QuietInv, ReadPage, changes' = 0
  PROVE  QuietPages'
<1>1. /\ QuietCandidates /\ QuietPages /\ UNCHANGED <<profile, tokens, joined>>
      /\ pc = "page" /\ batch = {} /\ phase = "idle" /\ UNCHANGED eligible
  BY DEF QuietInv, Quiet, ReadPage, dbVars, PageInv, Batch, PcInv, PhaseInv, BeforeDispatch
<1> DEFINE rest == {e \in candidates : BehindCursor(e)}
<1>2. /\ candidates = InitialCandidates /\ Loaded
      /\ \A e \in InitialCandidates : e \in processed \/ e \in rest
      /\ \A e \in processed : Admitted(e) <=> HasRight(e)
  BY <1>1 DEF QuietCandidates, QuietPages, Loaded
<1>3. \A e : (Admitted(e)' <=> Admitted(e)) /\ (HasRight(e)' <=> HasRight(e))
  BY <1>1 DEF Admitted, HasRight
<1>4. CASE rest = {} /\ EndOfPages /\ UNCHANGED <<batch, processed>>
  BY <1>1, <1>2, <1>3, <1>4 DEF QuietPages, EndOfPages
<1>5. CASE /\ batch' \in SUBSET rest /\ \A e \in rest \ batch' : Before(last', e)
           /\ processed' = processed \cup batch' /\ pc' = "membership"
           /\ UNCHANGED phase
  <2>1. \A e \in InitialCandidates : e \in processed' \/ BehindCursor(e)'
    BY <1>2, <1>5 DEF BehindCursor, Before
  <2>2. processed' \ batch' \subseteq processed
    BY <1>5
  <2> HIDE DEF rest
  <2> QED
    BY <1>1, <1>2, <1>3, <1>5, <2>1, <2>2 DEF QuietPages, rest
<1> QED
  BY <1>4, <1>5, ReadPageRefined

LEMMA QuietClassify ==
  ASSUME TypeInv, PageInv, PcInv, QuietInv, NEW e \in batch, Classify(e), changes' = 0
  PROVE  QuietPages'
<1>1. /\ QuietPlan /\ QuietPages /\ UNCHANGED <<profile, tokens, joined>>
      /\ pc = "classify" /\ phase = "idle" /\ UNCHANGED <<phase, scope, unjoined>>
      /\ batch' = batch \ {e} /\ UNCHANGED <<last, processed>>
      /\ pc' \in {"page", "classify", "except"} /\ (pc' = "page" => batch' = {})
  BY DEF QuietInv, Quiet, Classify, dbVars, planVars, dispatchVars, PcInv, PhaseInv,
     BeforeDispatch
<1>2. /\ e \in Events /\ e \in processed /\ e \in InitialCandidates
      /\ SenderOf[e] \in Senders /\ SenderOf[e] \in InitialSenders
      /\ eligible \in [Senders -> Seq(Events)]
  BY <1>1, AttributesAssumption DEF TypeInv, PageTypes, PageInv, Batch, QuietPages,
     InitialSenders
<1>3. MayRedact(e) <=> HasRight(e)
  BY <1>1, <1>2 DEF QuietPlan, QuietPages, MayRedact, HasRight
<1>4. ~Admitted(e)
  BY <1>2, AdmittedIsRead
<1>5. \A d \in Events : Admitted(d)' <=> Admitted(d) \/ (d = e /\ MayRedact(e))
  <2>1. CASE MayRedact(e)
    <3>1. eligible' = [eligible EXCEPT ![SenderOf[e]] = Append(@, e)]
      BY <2>1 DEF Classify
    <3>2. ToSet(Append(eligible[SenderOf[e]], e)) = ToSet(eligible[SenderOf[e]]) \cup {e}
      BY <1>2, AppendFresh
    <3> QED
      BY <1>2, <2>1, <3>1, <3>2, AttributesAssumption DEF Admitted
  <2>2. CASE ~MayRedact(e)
    BY <2>2 DEF Classify, Admitted
  <2> QED
    BY <2>1, <2>2
<1>6. \A d \in processed \ batch' : Admitted(d)' <=> HasRight(d)'
  <2>1. \A d \in processed \ batch : Admitted(d) <=> HasRight(d)
    BY <1>1 DEF QuietPages, Loaded
  <2>2. \A d : HasRight(d)' <=> HasRight(d)
    BY <1>1 DEF HasRight
  <2>3. processed \in SUBSET Events
    BY DEF TypeInv, PageTypes
  <2> QED
    BY <1>1, <1>3, <1>4, <1>5, <2>1, <2>2, <2>3
<1> QED
  BY <1>1, <1>6 DEF QuietPages, BehindCursor, Before

LEMMA QuietPagesStep ==
  ASSUME TypeInv, PageInv, PcInv, QuietInv, [Next]_vars, changes' = 0
  PROVE  QuietPages'
<1>1. Quiet /\ UNCHANGED <<profile, tokens, joined>>
  BY QuietFrame
<1>2. CASE CheckMembership
  <2>1. /\ UNCHANGED <<last, batch, processed, eligible, scope, phase>>
        /\ pc = "membership" /\ pc' = "classify"
        /\ unjoined' = MembershipFailures({e \in batch : scope[SenderOf[e]] = "ok"})
    BY <1>2 DEF CheckMembership, planVars, dispatchVars
  <2>2. \A e \in batch :
          e \in unjoined' <=> /\ scope[SenderOf[e]] = "ok"
                              /\ <<SenderOf[e], RoomOf[e]>> \notin joined
    BY <2>1 DEF MembershipFailures, JoinedPairs
  <2> QED
    BY <1>1, <2>1, <2>2 DEF Quiet, QuietPages, Loaded, Admitted, HasRight, BehindCursor,
       Before
<1>3. CASE LoadTokens
  <2>1. /\ pc' = "page" /\ last' = 0 /\ processed' = {} /\ phase' = "idle"
    BY <1>3 DEF LoadTokens, PageInv, Cursor, Early, PcInv, PhaseInv, BeforeDispatch,
       pageVars, dispatchVars
  <2> QED
    BY <2>1 DEF QuietPages, BehindCursor
<1>4. CASE ~ReadPage /\ ~CheckMembership /\ ~LoadTokens /\ ~(\E e \in batch : Classify(e))
  <2>1. UNCHANGED pageVars
    BY <1>4, PageFrame
  <2>2. phase' # "idle" => phase # "idle"
    BY <1>4, DispatchFrame DEF Take, WorkerStep, Execute, Yield, WorkerRaised, Count,
       CountSuccess, CountFailure, EndDispatch, Fail, dispatchVars, Dispatch!Take,
       Dispatch!HandBack, Dispatch!Abort, Dispatch!Complete
  <2>3. /\ pc' \in {"page", "membership", "classify"} => pc' = pc
        /\ pc' = "classify" => UNCHANGED scope
    BY <1>4 DEF Next, MainStep, WorkerStep, vars, planVars, CountCandidates,
       ReportSenders, VerifyProfiles, VerifyTokens, Take, Execute, Yield, WorkerRaised,
       Count, CountSuccess, CountFailure, EndDispatch, Drain, CutShort, Finish, FinishFailed,
       Fail, Change
  <2>4. Loaded' => Loaded
    BY <1>4, AbortedIsLoaded DEF Next, MainStep, WorkerStep, vars, planVars, CountCandidates,
       ReportSenders, VerifyProfiles, VerifyTokens, Take, Execute, Yield, WorkerRaised,
       Count, CountSuccess, CountFailure, EndDispatch, Drain, CutShort, Finish, FinishFailed,
       Fail, Change, Loaded
  <2> QED
    BY <1>1, <2>1, <2>2, <2>3, <2>4 DEF Quiet, QuietPages, pageVars, Admitted, HasRight,
       BehindCursor, Before
<1> QED
  BY <1>2, <1>3, <1>4, QuietReadPage, QuietClassify

LEMMA QuietRequestsStep ==
  ASSUME TypeInv, PcInv, PageInv, WorkInv, QuietInv, [Next]_vars, changes' = 0
  PROVE  QuietRequests'
<1>1. Quiet /\ ~Change
  BY QuietFrame
<1>2. ASSUME NEW f \in active, NEW result \in Outcomes, Execute(f, result)
      PROVE  QuietRequests'
  <2>1. /\ f.item \in Events /\ f.sender \in Senders /\ outcome[f.item] = "none"
        /\ outcome' = [outcome EXCEPT ![f.item] = result] /\ result # "none"
        /\ outcome \in [Events -> {"none"} \cup Outcomes]
    BY <1>2 DEF Execute, TypeInv, DispatchTypes
  <2>2. Loaded
    BY <2>1 DEF Loaded, PcInv, PhaseInv, EndInv, BeforeDispatch, Untouched, TypeInv,
       DispatchTypes
  <2>3. /\ Admitted(f.item) /\ SenderOf[f.item] = f.sender
        /\ f.item \in processed \ batch
    BY <2>1, AdmittedIsRead DEF WorkInv, ActiveInv
  <2>4. HasRight(f.item) /\ f.item \in InitialCandidates
    BY <1>1, <2>2, <2>3 DEF Quiet, QuietPages
  <2>5. f.sender \in sender_tokens
    BY <1>1, <2>1, <2>2, <2>3, <2>4 DEF Quiet, QuietPlan, HasRight, InitialSenders
  <2>6. requested' = requested \cup {f.item}
    BY <1>2, <2>5 DEF Execute
  <2> QED
    BY <1>1, <2>1, <2>6 DEF Quiet, QuietRequests
<1>3. CASE ~WorkerStep
  <2>1. UNCHANGED requested
    BY <1>1, <1>3, HistoryFrame DEF LoadTokens, CutShort, historyVars
  <2>2. UNCHANGED outcome
    BY <1>3, DispatchFrame DEF ReadPage, Take, Yield, WorkerRaised, Count, EndDispatch,
       Fail, dispatchVars
  <2> QED
    BY <1>1, <2>1, <2>2 DEF Quiet, QuietRequests
<1> QED
  BY <1>2, <1>3 DEF WorkerStep

LEMMA QuietInvAlways == Spec => []QuietInv
<1>1. IInv /\ QuietInv /\ [Next]_vars => QuietInv'
  <2> SUFFICES ASSUME IInv, QuietInv, [Next]_vars PROVE QuietInv'
    OBVIOUS
  <2>1. changes' \in Nat
    <3>1. changes' \in {changes, changes + 1}
      BY DbFrame DEF WorkerStep, Execute, Change, dbVars
    <3> QED
      BY <3>1 DEF QuietInv
  <2>2. ASSUME changes' = 0 PROVE Quiet'
    BY <2>2, QuietCandidatesStep, QuietPlanStep, QuietPagesStep, QuietRequestsStep
       DEF IInv, Quiet
  <2> QED
    BY <2>1, <2>2 DEF QuietInv
<1> QED
  BY <1>1, InitQuietInv, IInvAlways, PTL DEF Spec

(* While nobody else touches the database, a run that reaches its end has  *)
(* requested exactly what the policy permits.                              *)
THEOREM QuietRunsAreExact == Spec => []QuietRunIsExact
<1>1. ASSUME IInv, QuietInv, pc = "done", ~dry_run, changes = 0
      PROVE  QuietRunIsExact
  <2>1. /\ phase = "complete" /\ active = {} /\ current = 0 /\ batch = {}
        /\ \A s \in Senders : work[s] = <<>>
    BY <1>1 DEF IInv, PcInv, EndInv, PageInv, Batch
  <2>2. processed = InitialCandidates /\ Quiet
    BY <1>1, <2>1 DEF QuietInv, Quiet, QuietPages
  <2>3. \A e \in Events : Admitted(e) <=> outcome[e] # "none"
    <3>1. ASSUME NEW e \in Events, Admitted(e) PROVE outcome[e] # "none"
      <4>1. Underway(e)
        BY <1>1, <2>1, <3>1 DEF IInv, NothingDropped
      <4>2. e \notin ToSet(work[SenderOf[e]])
        BY <2>1, AttributesAssumption DEF ToSet
      <4> QED
        BY <2>1, <4>1, <4>2 DEF Underway
    <3>2. ASSUME NEW e \in Events, outcome[e] # "none" PROVE Admitted(e)
      BY <1>1, <3>2 DEF IInv, WorkInv, OutcomeInv
    <3> QED
      BY <3>1, <3>2
  <2>4. \A e \in Events : Admitted(e) => e \in processed
    BY <1>1, AdmittedIsRead DEF IInv
  <2>5. \A e \in processed : Admitted(e) <=> HasRight(e)
    BY <1>1, <2>1, <2>2 DEF Quiet, QuietPages, Loaded
  <2>6. requested = {e \in InitialCandidates : HasRight(e)}
    BY <2>2, <2>3, <2>4, <2>5, InitialAssumption DEF Quiet, QuietRequests
  <2>7. candidate_count = processed_count
    BY <1>1, <2>2 DEF Quiet, QuietPlan, IInv, PageInv, Cursor
  <2> QED
    BY <2>6, <2>7 DEF QuietRunIsExact, HasRight
<1>2. IInv /\ QuietInv => QuietRunIsExact
  BY <1>1 DEF QuietRunIsExact
<1> QED
  BY <1>2, IInvAlways, QuietInvAlways, PTL


-----------------------------------------------------------------------------
(* The ledger: every step of a sweep is one entry of its books, or none.   *)

(* Nobody reads a page in a dry run. *)
DryInv ==
  dry_run => /\ processed = {}
             /\ pc \notin {"load", "page", "membership", "classify", "dispatch", "count"}

LEMMA DryInvStep ==
  ASSUME DryInv, [Next]_vars
  PROVE  DryInv'
<1>1. CASE \/ CountCandidates \/ ReportSenders \/ VerifyProfiles \/ VerifyTokens
           \/ LoadTokens \/ CheckMembership \/ \E e \in batch : Classify(e)
  BY <1>1 DEF DryInv, CountCandidates, ReportSenders, VerifyProfiles, VerifyTokens,
     LoadTokens, CheckMembership, Classify, planVars, pageVars
<1>2. CASE ReadPage \/ Count \/ \E s \in Senders : Take(s)
  BY <1>2 DEF DryInv, ReadPage, Count, Take, planVars
<1>3. CASE \/ (\E f \in active : Yield(f) \/ WorkerRaised(f)) \/ EndDispatch \/ Drain
           \/ CutShort \/ Finish \/ FinishFailed
  BY <1>3 DEF DryInv, Yield, WorkerRaised, EndDispatch, Drain, CutShort, Finish, FinishFailed,
     planVars, pageVars
<1>4. CASE WorkerStep \/ Fail \/ Change \/ UNCHANGED vars
  BY <1>4 DEF DryInv, WorkerStep, Execute, Fail, Change, vars, planVars, pageVars
<1> QED
  BY <1>1, <1>2, <1>3, <1>4 DEF Next, MainStep

(* The fate of an event by the sets the other invariants are about. *)
FateBySets(e) ==
  IF e \notin processed THEN "unread"
  ELSE IF e \in batch THEN "pending"
  ELSE IF ~Admitted(e) THEN SkipKind(e)
  ELSE IF e \in Settled(Reported) THEN "succeeded"
  ELSE IF e \in Settled({"failure"}) THEN "redaction_request"
  ELSE "pending"

SameFates == \A e \in Events : Fate(e) = FateBySets(e)

LEMMA FatesAreSame == SameFates
BY DEF SameFates, Fate, FateBySets, FateOf, Counted, Settled

LEMMA FatesAreSameNext == SameFates'
BY FatesAreSame, PTL

(* The scope that a skipped event was skipped by, stays. *)
LEMMA SkipKindKept ==
  ASSUME IInv, [Next]_vars, processed # {}, NEW e
  PROVE  SkipKind(e)' = SkipKind(e)
<1>1. pc \notin Early
  BY DEF IInv, PageInv, Cursor
<1>2. UNCHANGED scope
  BY <1>1, PlanFrame DEF Early, CountCandidates, ReportSenders, VerifyProfiles,
     VerifyTokens, LoadTokens, Fail, planVars
<1> QED
  BY <1>2 DEF SkipKind

LEMMA FatesKept ==
  ASSUME IInv, [Next]_vars, ~Count, UNCHANGED <<batch, processed, eligible>>
  PROVE  \A e \in Events : Fate(e)' = Fate(e)
<1> SUFFICES ASSUME NEW e \in Events PROVE Fate(e)' = Fate(e)
  OBVIOUS
<1>1. /\ Settled(Reported)' = Settled(Reported)
      /\ Settled({"failure"})' = Settled({"failure"})
  BY SettledKept DEF IInv
<1>2. Admitted(e)' <=> Admitted(e)
  BY DEF Admitted
<1>3. processed # {} => SkipKind(e)' = SkipKind(e)
  BY SkipKindKept
<1>4. FateBySets(e)' = FateBySets(e)
  BY <1>1, <1>2, <1>3 DEF FateBySets
<1> QED
  BY <1>4, FatesAreSame, FatesAreSameNext DEF SameFates

(* Where the steps that are no entry lead. *)
LEMMA StageMoves ==
  ASSUME IInv, [Next]_vars, ~Finish, ~FinishFailed
  PROVE  \/ Stage' = Stage
         \/ Stage = "open" /\ Stage' = "broken"
<1> USE DEF Stage
<1>1. CASE \/ CountCandidates \/ ReportSenders \/ VerifyProfiles \/ VerifyTokens
           \/ LoadTokens \/ CheckMembership \/ \E e \in batch : Classify(e)
  BY <1>1 DEF CountCandidates, ReportSenders, VerifyProfiles, VerifyTokens,
     LoadTokens, CheckMembership, Classify
<1>2. CASE ReadPage
  BY <1>2 DEF ReadPage, EndOfPages
<1>3. CASE Count
  BY <1>3 DEF Count, CountSuccess, CountFailure
<1>4. CASE \E s \in Senders : Take(s)
  BY <1>4 DEF Take
<1>5. CASE \/ (\E f \in active : Yield(f) \/ WorkerRaised(f)) \/ EndDispatch \/ Drain
           \/ CutShort
  BY <1>5 DEF Yield, WorkerRaised, EndDispatch, Drain, CutShort
<1>6. CASE WorkerStep \/ Change \/ UNCHANGED vars
  BY <1>6 DEF WorkerStep, Execute, Change, vars
<1>7. CASE Fail
  BY <1>7 DEF Fail
<1> QED
  BY <1>1, <1>2, <1>3, <1>4, <1>5, <1>6, <1>7 DEF Next, MainStep

LEMMA LedgerCardinality == \A S : Ledger!Cardinality(S) = Cardinality(S)
BY DEF Ledger!Cardinality, Cardinality

(* A step that decides nothing is a stutter of the ledger, or breaks it.   *)
LEMMA NoEntry ==
  ASSUME \A e \in Events : Fate(e)' = Fate(e),
         UNCHANGED <<processed_count, success_count, skipped_count, failure_count,
                     run_failures, status>>,
         Stage' = Stage \/ (Stage = "open" /\ Stage' = "broken")
  PROVE  [Ledger!Next]_(Ledger!vars)
<1>1. [e \in Events |-> Fate(e)]' = [e \in Events |-> Fate(e)]
  OBVIOUS
<1>2. CASE Stage' = Stage
  BY <1>1, <1>2 DEF Ledger!vars, Ledger!counts
<1>3. CASE Stage = "open" /\ Stage' = "broken"
  BY <1>1, <1>3 DEF Ledger!Next, Ledger!Break, Ledger!counts
<1> QED
  BY <1>2, <1>3

(* A page that is not empty is read by the ledger. *)
LEMMA ReadPageEntry ==
  ASSUME IInv, ReadPage
  PROVE  [Ledger!Next]_(Ledger!vars)
<1>1. [Next]_vars /\ ~Count /\ UNCHANGED eligible /\ pc = "page" /\ batch = {}
      /\ UNCHANGED <<success_count, skipped_count, failure_count, run_failures, status>>
  BY DEF Next, MainStep, ReadPage, Count, countVars, IInv, PageInv, Batch
<1>2. Stage' = Stage /\ Stage = "open"
  BY <1>1 DEF Stage, ReadPage, EndOfPages
<1>3. CASE UNCHANGED <<batch, processed, processed_count>>
  BY <1>1, <1>2, <1>3, FatesKept, NoEntry
<1>4. CASE /\ batch' \in SUBSET {e \in candidates : BehindCursor(e)} /\ last' \in batch'
           /\ processed' = processed \cup batch'
           /\ processed_count' = processed_count + Cardinality(batch')
  <2>1. batch' \in SUBSET Events /\ batch' # {} /\ batch' \cap processed = {}
    BY <1>4, PagesAreDisjoint DEF IInv, TypeInv, DbTypes
  <2>2. \A e \in Events : Fate(e) = FateBySets(e) /\ Fate(e)' = FateBySets(e)'
    BY FatesAreSame, FatesAreSameNext DEF SameFates
  <2>3. /\ Settled(Reported)' = Settled(Reported)
        /\ Settled({"failure"})' = Settled({"failure"})
    BY <1>1, SettledKept DEF IInv
  <2>4. ASSUME NEW e \in Events
        PROVE  /\ e \in batch' => Fate(e) = "unread" /\ Fate(e)' = "pending"
               /\ e \notin batch' => Fate(e)' = Fate(e)
    <3>1. Admitted(e)' <=> Admitted(e)
      BY <1>1 DEF Admitted
    <3>2. processed # {} => SkipKind(e)' = SkipKind(e)
      BY <1>1, SkipKindKept
    <3>3. CASE e \in batch'
      BY <1>4, <2>1, <2>2, <3>3 DEF FateBySets
    <3>4. CASE e \notin batch'
      BY <1>1, <1>4, <2>2, <2>3, <3>1, <3>2, <3>4 DEF FateBySets
    <3> QED
      BY <3>3, <3>4
  <2>5. Ledger!Read(batch')
    <3>1. batch' \subseteq Ledger!With({"unread"})
      BY <2>1, <2>4 DEF Ledger!With
    <3>2. [e \in Events |-> Fate(e)]' =
          [e \in Events |-> IF e \in batch' THEN "pending"
                            ELSE [d \in Events |-> Fate(d)][e]]
      BY <2>4
    <3> QED
      BY <1>1, <1>2, <1>4, <2>1, <3>1, <3>2, LedgerCardinality DEF Ledger!Read
  <2> QED
    BY <2>1, <2>5 DEF Ledger!Next
<1> QED
  BY <1>3, <1>4, ReadPageRefined DEF IInv

(* The function of fates after the fate of one event has changed. *)
LEMMA OneFate ==
  ASSUME NEW e \in Events, NEW how, Fate(e)' = how,
         \A d \in Events \ {e} : Fate(d)' = Fate(d)
  PROVE  [d \in Events |-> Fate(d)]' = [[d \in Events |-> Fate(d)] EXCEPT ![e] = how]
OBVIOUS

(* A candidate queued is no entry; one skipped is, with its row or broken. *)
LEMMA ClassifyEntry ==
  ASSUME IInv, NEW e \in batch, Classify(e)
  PROVE  [Ledger!Next]_(Ledger!vars)
<1>1. /\ e \in Events /\ SenderOf[e] \in Senders /\ e \in processed /\ ~Admitted(e)
      /\ eligible \in [Senders -> Seq(Events)]
  BY AttributesAssumption, AdmittedIsRead DEF IInv, TypeInv, PageTypes, PageInv, Batch
<1>2. /\ batch' = batch \ {e} /\ pc = "classify" /\ [Next]_vars /\ ~Count /\ Untouched
      /\ UNCHANGED <<processed, processed_count, success_count, failure_count, status,
                     outcome>>
  BY DEF Classify, Next, MainStep, Count, dispatchVars, IInv, PcInv, PhaseInv,
     BeforeDispatch
<1>3. \A d \in Events : Fate(d) = FateBySets(d) /\ Fate(d)' = FateBySets(d)'
  BY FatesAreSame, FatesAreSameNext DEF SameFates
<1>4. /\ Settled(Reported)' = {} /\ Settled(Reported) = {}
      /\ Settled({"failure"})' = {} /\ Settled({"failure"}) = {}
  BY <1>2 DEF Settled, Untouched
<1>5. \A d \in Events : SkipKind(d)' = SkipKind(d)
  BY <1>1, <1>2, SkipKindKept
<1>6. Stage = "open" /\ Fate(e) = "pending"
  BY <1>1, <1>2, <1>3 DEF Stage, FateBySets
<1>7. CASE MayRedact(e)
  <2>1. /\ eligible' = [eligible EXCEPT ![SenderOf[e]] = Append(@, e)]
        /\ UNCHANGED <<skipped_count, run_failures>> /\ Stage' = Stage
    BY <1>2, <1>7 DEF Classify, Stage
  <2>2. ToSet(Append(eligible[SenderOf[e]], e)) = ToSet(eligible[SenderOf[e]]) \cup {e}
    <3>1. e \notin ToSet(eligible[SenderOf[e]]) /\ IsInjective(eligible[SenderOf[e]])
      BY <1>1 DEF IInv, PageInv, Queued, Admitted
    <3> QED
      BY <1>1, <3>1, AppendFresh
  <2>3. \A d \in Events : Admitted(d)' <=> Admitted(d) \/ d = e
    BY <1>1, <2>1, <2>2, AttributesAssumption DEF Admitted
  <2>4. \A d \in Events : Fate(d)' = Fate(d)
    BY <1>1, <1>2, <1>3, <1>4, <1>5, <2>3 DEF FateBySets
  <2> QED
    BY <1>2, <2>1, <2>4, NoEntry
<1>8. CASE ~MayRedact(e)
  <2> DEFINE kind == SkipKind(e)
  <2>1. /\ UNCHANGED eligible /\ skipped_count' = skipped_count + 1
        /\ \/ run_failures' = run_failures \cup {<<e, kind>>} /\ Stage' = Stage
           \/ Stage' = "broken" /\ UNCHANGED run_failures
    BY <1>2, <1>8 DEF Classify, Stage, RecordFailure
  <2>2. kind \in Ledger!SkipKinds
    BY DEF SkipKind, Ledger!SkipKinds
  <2>3. \A d \in Events : Admitted(d)' <=> Admitted(d)
    BY <2>1 DEF Admitted
  <2>4. Fate(e)' = kind
    BY <1>1, <1>2, <1>3, <1>5, <2>3 DEF FateBySets
  <2>5. \A d \in Events \ {e} : Fate(d)' = Fate(d)
    BY <1>2, <1>3, <1>4, <1>5, <2>3 DEF FateBySets
  <2> HIDE DEF kind
  <2>6. [d \in Events |-> Fate(d)]' = [[d \in Events |-> Fate(d)] EXCEPT ![e] = kind]
    BY <1>1, <2>4, <2>5, OneFate
  <2>7. Ledger!Skip(e, kind)
    BY <1>1, <1>2, <1>6, <2>1, <2>6 DEF Ledger!Skip, Ledger!Decide, Ledger!Journal
  <2> QED
    BY <1>1, <2>2, <2>7 DEF Ledger!Next
<1> QED
  BY <1>7, <1>8

(* The result at the consumer is an entry. *)
LEMMA CountEntry ==
  ASSUME IInv, Count, NEW e \in Events, e = current
  PROVE  [Ledger!Next]_(Ledger!vars)
<1>1. /\ e \in Events /\ Admitted(e) /\ e \in processed /\ e \notin batch
      /\ outcome[e] \in Returned /\ [Next]_vars
      /\ UNCHANGED <<eligible, batch, processed, processed_count, skipped_count, status>>
  <2>1. Admitted(e) /\ outcome[e] \in Returned
    BY EventsAssumption DEF Count, IInv, PcInv, PhaseInv, WorkInv, CurrentIsDone
  <2>2. e \in processed /\ e \notin batch
    BY <2>1, AdmittedIsRead DEF IInv
  <2> QED
    BY <2>1, <2>2 DEF Count, Next, MainStep, pageVars
<1>2. \A d \in Events : Fate(d) = FateBySets(d) /\ Fate(d)' = FateBySets(d)'
  BY FatesAreSame, FatesAreSameNext DEF SameFates
<1>3. /\ e \notin Settled(Reported) /\ e \notin Settled({"failure"})
      /\ Settled(Reported)' = IF outcome[e] \in Reported
                                 THEN Settled(Reported) \cup {e} ELSE Settled(Reported)
      /\ Settled({"failure"})' = IF outcome[e] \in {"failure"}
                                 THEN Settled({"failure"}) \cup {e} ELSE Settled({"failure"})
  BY CountSettles DEF IInv
<1>4. \A d \in Events : SkipKind(d)' = SkipKind(d)
  BY <1>1, SkipKindKept
<1>5. \A d \in Events : Admitted(d)' <=> Admitted(d)
  BY <1>1 DEF Admitted
<1>6. Stage = "open" /\ Fate(e) = "pending"
  BY <1>1, <1>2, <1>3 DEF Count, Stage, FateBySets
<1>7. \A d \in Events \ {e} : Fate(d)' = Fate(d)
  BY <1>1, <1>2, <1>3, <1>4, <1>5 DEF FateBySets
<1>8. CASE outcome[e] \in Reported
  <2>1. /\ success_count' = success_count + 1 /\ Stage' = Stage
        /\ UNCHANGED <<failure_count, run_failures>>
    BY <1>8 DEF Count, CountSuccess, Stage
  <2>2. Fate(e)' = "succeeded"
    BY <1>1, <1>2, <1>3, <1>5, <1>8 DEF FateBySets
  <2>3. [d \in Events |-> Fate(d)]' = [[d \in Events |-> Fate(d)] EXCEPT ![e] = "succeeded"]
    BY <1>1, <1>7, <2>2, OneFate
  <2>4. Ledger!Succeed(e)
    BY <1>1, <1>6, <2>1, <2>3 DEF Ledger!Succeed, Ledger!Decide
  <2> QED
    BY <1>1, <2>4 DEF Ledger!Next
<1>9. CASE outcome[e] = "failure"
  <2>1. /\ failure_count' = failure_count + 1 /\ UNCHANGED success_count
        /\ \/ /\ run_failures' = run_failures \cup {<<e, "redaction_request">>}
              /\ Stage' = Stage
           \/ Stage' = "broken" /\ UNCHANGED run_failures
    BY <1>9 DEF Count, CountFailure, RecordFailure, Stage
  <2>2. Fate(e)' = "redaction_request"
    BY <1>1, <1>2, <1>3, <1>5, <1>9 DEF FateBySets
  <2>3. [d \in Events |-> Fate(d)]' =
          [[d \in Events |-> Fate(d)] EXCEPT ![e] = "redaction_request"]
    BY <1>1, <1>7, <2>2, OneFate
  <2>4. Ledger!FailOne(e)
    BY <1>1, <1>6, <2>1, <2>3 DEF Ledger!FailOne, Ledger!Decide, Ledger!Journal
  <2> QED
    BY <1>1, <2>4 DEF Ledger!Next
<1> QED
  BY <1>1, <1>8, <1>9

(* At the end of a run nothing it has read is undecided. *)
LEMMA NothingPending ==
  ASSUME IInv, DryInv, pc = "finish", NEW e \in Events
  PROVE  Fate(e) # "pending"
<1>1. CASE dry_run
  BY <1>1 DEF DryInv, Fate
<1>2. CASE ~dry_run
  <2>1. /\ phase = "complete" /\ active = {} /\ current = 0 /\ batch = {}
        /\ \A s \in Senders : work[s] = <<>>
    BY <1>2 DEF IInv, PcInv, EndInv, PageInv, Batch
  <2>2. ASSUME Admitted(e) PROVE Counted(e)
    <3>1. Underway(e)
      BY <2>1, <2>2 DEF IInv, NothingDropped
    <3>2. e \notin ToSet(work[SenderOf[e]])
      BY <2>1, AttributesAssumption DEF ToSet
    <3> QED
      BY <2>1, <3>1, <3>2, EventsAssumption DEF Underway, Counted
  <2> QED
    BY <2>1, <2>2 DEF Fate, FateOf, SkipKind, Counted
<1> QED
  BY <1>1, <1>2

LEMMA FinishEntry ==
  ASSUME IInv, DryInv, Finish \/ FinishFailed
  PROVE  Ledger!Next
<1>1. /\ [Next]_vars /\ ~Count
      /\ UNCHANGED <<batch, processed, eligible, processed_count, success_count,
                     skipped_count, run_failures>>
  BY DEF Next, MainStep, Finish, FinishFailed, Count, pageVars
<1>2. [e \in Events |-> Fate(e)]' = [e \in Events |-> Fate(e)]
  BY <1>1, FatesKept
<1>3. CASE Finish
  <2>1. Ledger!With({"pending"}) = {}
    BY <1>3, NothingPending DEF Finish, Ledger!With
  <2>2. /\ Stage = "open" /\ Stage' = "complete" /\ UNCHANGED failure_count
        /\ status' = IF failure_count = 0 THEN "completed" ELSE "failed"
    BY <1>3 DEF Finish, Stage, FinalStatus
  <2>3. Ledger!Complete
    BY <1>1, <1>2, <2>1, <2>2 DEF Ledger!Complete, Ledger!counts
  <2> QED
    BY <2>3 DEF Ledger!Next
<1>4. CASE FinishFailed
  <2>1. /\ Stage = "broken" /\ Stage' = "aborted" /\ status' = "failed"
        /\ failure_count' = failure_count + 1
    BY <1>4 DEF FinishFailed, Stage
  <2>2. Ledger!Abort
    BY <1>1, <1>2, <2>1 DEF Ledger!Abort
  <2> QED
    BY <2>2 DEF Ledger!Next
<1> QED
  BY <1>3, <1>4

LEMMA LedgerStep ==
  ASSUME IInv, DryInv, [Next]_vars
  PROVE  [Ledger!Next]_(Ledger!vars)
<1>1. CASE /\ ~ReadPage /\ ~Count /\ ~(\E e \in batch : Classify(e))
           /\ ~Finish /\ ~FinishFailed
  <2>1. UNCHANGED <<batch, processed, eligible, processed_count>>
    BY <1>1, PageFrame DEF CheckMembership, pageVars
  <2>2. UNCHANGED <<success_count, skipped_count, failure_count, run_failures, status>>
    BY <1>1, CountFrame DEF countVars
  <2> QED
    BY <1>1, <2>1, <2>2, FatesKept, StageMoves, NoEntry
<1>2. CASE Count
  <2>1. current \in Events
    BY <1>2 DEF Count, IInv, PcInv, PhaseInv
  <2> QED
    BY <1>2, <2>1, CountEntry
<1> QED
  BY <1>1, <1>2, ReadPageEntry, ClassifyEntry, FinishEntry

LEMMA InitLedger == Init => Ledger!Init
BY DEF Init, Ledger!Init, Fate, Stage

(* A sweep keeps RunLedger's books: whatever pages, threads, errors and    *)
(* interrupts do, and for any events, an event that is read is decided at  *)
(* most once, with its count and its row, and a COMPLETED or FAILED end    *)
(* leaves none undecided.                                                  *)
THEOREM SweepImplementsLedger == Spec => ImplementsLedger
<1>1. Init => DryInv
  BY DEF Init, DryInv
<1>2. DryInv /\ [Next]_vars => DryInv'
  BY DryInvStep
<1>3. IInv /\ DryInv /\ [Next]_vars => [Ledger!Next]_(Ledger!vars)
  BY LedgerStep
<1> QED
  BY <1>1, <1>2, <1>3, IInvAlways, InitLedger, PTL DEF Spec, ImplementsLedger, Ledger!Spec

Books == INSTANCE RunLedger_proof WITH fate <- [e \in Events |-> Fate(e)], stage <- Stage

LEMMA SameBooks ==
  /\ Ledger!Init <=> Books!Init
  /\ [Ledger!Next]_(Ledger!vars) <=> [Books!Next]_(Books!vars)
  /\ RowBalances <=> Books!Balanced
<1>1. \A S : Ledger!Cardinality(S) = Books!Cardinality(S)
  BY DEF Ledger!Cardinality, Books!Cardinality
<1>2. \A S : Ledger!With(S) = Books!With(S)
  BY DEF Ledger!With, Books!With
<1>3. Ledger!Kinds = Books!Kinds /\ Ledger!SkipKinds = Books!SkipKinds
  BY DEF Ledger!Kinds, Books!Kinds, Ledger!SkipKinds, Books!SkipKinds
<1>4. RowBalances <=> Books!Balanced
  BY <1>1, <1>2, <1>3 DEF RowBalances, Ledger!Balanced, Books!Balanced,
     Ledger!Explained, Books!Explained
<1>5. Ledger!Init <=> Books!Init
  BY DEF Ledger!Init, Books!Init
<1>6. (UNCHANGED Ledger!vars) <=> (UNCHANGED Books!vars)
  BY DEF Ledger!vars, Books!vars, Ledger!counts, Books!counts
<1>7. Ledger!Next <=> Books!Next
  <2>1. \A page : Ledger!Read(page) <=> Books!Read(page)
    BY <1>1, <1>2 DEF Ledger!Read, Books!Read
  <2>2. \A e, kind : Ledger!Skip(e, kind) <=> Books!Skip(e, kind)
    BY DEF Ledger!Skip, Books!Skip, Ledger!Decide, Books!Decide, Ledger!Journal,
       Books!Journal
  <2>3. \A e : Ledger!Succeed(e) <=> Books!Succeed(e)
    BY DEF Ledger!Succeed, Books!Succeed, Ledger!Decide, Books!Decide
  <2>4. \A e : Ledger!FailOne(e) <=> Books!FailOne(e)
    BY DEF Ledger!FailOne, Books!FailOne, Ledger!Decide, Books!Decide, Ledger!Journal,
       Books!Journal
  <2>5. /\ Ledger!Complete <=> Books!Complete
        /\ Ledger!Break <=> Books!Break
        /\ Ledger!Abort <=> Books!Abort
    BY <1>2 DEF Ledger!Complete, Books!Complete, Ledger!Break, Books!Break,
       Ledger!Abort, Books!Abort, Ledger!counts, Books!counts
  <2> QED
    BY <1>3, <2>1, <2>2, <2>3, <2>4, <2>5 DEF Ledger!Next, Books!Next
<1> QED
  BY <1>4, <1>5, <1>6, <1>7

(* The counts and the journal of a sweep agree, at every moment and for    *)
(* good in the row of an aborted run, with what became of its events.      *)
THEOREM BooksOfTheSweepBalance == Spec => []RowBalances
<1>1. Books!IsFiniteSet(Events)
  BY EventsAssumption DEF Books!IsFiniteSet, IsFiniteSet
<1>2. Books!Init /\ [][Books!Next]_(Books!vars) => []Books!Balanced
  BY <1>1, Books!BooksBalance DEF Books!Spec
<1> QED
  BY <1>2, SweepImplementsLedger, SameBooks, PTL DEF ImplementsLedger, Ledger!Spec
=============================================================================
