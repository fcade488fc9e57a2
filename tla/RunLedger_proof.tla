--------------------------- MODULE RunLedger_proof ---------------------------
(***************************************************************************)
(* TLAPS proof that the books of RunLedger balance, for any finite set of  *)
(* events.                                                                 *)
(***************************************************************************)
EXTENDS RunLedger, TLAPS, FiniteSetTheorems

Fates == {"unread", "pending", "succeeded"} \cup Kinds

LedgerTypes ==
  /\ fate \in [Events -> Fates]
  /\ stage \in {"open", "broken", "complete", "aborted"}
  /\ processed_count \in Nat /\ success_count \in Nat
  /\ skipped_count \in Nat /\ failure_count \in Nat

LedgerInv == LedgerTypes /\ Balanced

LEMMA FiniteWith ==
  ASSUME IsFiniteSet(Events), NEW fates
  PROVE  /\ With(fates) \in SUBSET Events /\ IsFiniteSet(With(fates))
         /\ Cardinality(With(fates)) \in Nat
<1>1. With(fates) \in SUBSET Events
  BY DEF With
<1> QED
  BY <1>1, FS_Subset, FS_CardinalityType

LEMMA FiniteRead ==
  ASSUME IsFiniteSet(Events)
  PROVE  /\ IsFiniteSet(Events \ With({"unread"}))
         /\ Cardinality(Events \ With({"unread"})) \in Nat
<1>1. Events \ With({"unread"}) \in SUBSET Events
  OBVIOUS
<1> QED
  BY <1>1, FS_Subset, FS_CardinalityType

LEMMA InitLedgerInv == Init => LedgerInv
<1> SUFFICES ASSUME Init PROVE LedgerInv
  OBVIOUS
<1>1. LedgerTypes
  BY DEF Init, LedgerTypes, Fates
<1>2. /\ Events \ With({"unread"}) = {} /\ With({"succeeded"}) = {}
      /\ With(SkipKinds) = {} /\ With({"redaction_request"}) = {}
      /\ With(Kinds) = {}
  BY DEF Init, With, Kinds, SkipKinds
<1>3. Cardinality({}) = 0
  BY FS_EmptySet
<1>4. Explained = {}
  BY DEF Init, Explained
<1>5. stage = "open" /\ status = "running" /\ run_failures = {}
  BY DEF Init
<1> QED
  BY <1>1, <1>2, <1>3, <1>4, <1>5 DEF Init, LedgerInv, Balanced

(* What a decision does to the sets of events by fate. *)
LEMMA DecideMoves ==
  ASSUME LedgerTypes, NEW e \in Events, NEW how \in Kinds \cup {"succeeded"},
         Decide(e, how)
  PROVE  /\ \A fates : With(fates)' = IF how \in fates THEN With(fates) \cup {e}
                                                       ELSE With(fates) \ {e}
         /\ \A fates : "pending" \notin fates => e \notin With(fates)
         /\ stage = "open" /\ fate[e] = "pending" /\ fate'[e] = how
         /\ \A d \in Events \ {e} : fate'[d] = fate[d]
BY DEF LedgerTypes, Decide, With

(* The rows of events that keep their fate stay true. *)
LEMMA RowsKept ==
  ASSUME LedgerInv, \A d \in With(Kinds) : d \in With(Kinds)' /\ fate'[d] = fate[d]
  PROVE  run_failures \subseteq {<<d, fate[d]>> : d \in With(Kinds)}'
<1>1. run_failures \subseteq {<<d, fate[d]>> : d \in With(Kinds)}
  BY DEF LedgerInv, Balanced
<1>2. \A d \in With(Kinds) : <<d, fate[d]>> \in {<<c, fate'[c]>> : c \in With(Kinds)'}
  OBVIOUS
<1> QED
  BY <1>1, <1>2

(* Events that have a row, have a fate that is journalled. *)
LEMMA ExplainedIsDecided ==
  ASSUME LedgerInv
  PROVE  /\ Explained \subseteq With(Kinds)
         /\ \A d, k : <<d, k>> \in run_failures => d \in Explained /\ k = fate[d]
<1>1. run_failures \subseteq {<<d, fate[d]>> : d \in With(Kinds)}
  BY DEF LedgerInv, Balanced
<1>2. \A d, k : <<d, k>> \in run_failures => d \in With(Kinds) /\ k = fate[d]
  BY <1>1
<1>3. With(Kinds) \subseteq Events
  BY DEF With
<1> QED
  BY <1>2, <1>3 DEF Explained

(* The journal when a decision with its row is made, or the row is lost.   *)
LEMMA JournalKept ==
  ASSUME LedgerInv, NEW e \in Events, NEW kind \in Kinds, Decide(e, kind),
         Journal(e, kind)
  PROVE  /\ run_failures' \subseteq {<<d, fate[d]>> : d \in With(Kinds)}'
         /\ \A c, d \in (With(Kinds) \ Explained)' : c = d
         /\ With(Kinds)' # Explained' => stage' \in {"broken", "aborted"}
<1>1. /\ With(Kinds)' = With(Kinds) \cup {e} /\ e \notin With(Kinds)
      /\ stage = "open" /\ fate'[e] = kind
      /\ \A d \in Events \ {e} : fate'[d] = fate[d]
  BY DecideMoves DEF LedgerInv, Kinds, SkipKinds
<1>2. With(Kinds) = Explained /\ With(Kinds) \subseteq Events
  BY <1>1 DEF LedgerInv, Balanced, With
<1>3. run_failures \subseteq {<<d, fate[d]>> : d \in With(Kinds)}'
  BY <1>1, <1>2, RowsKept
<1>4. \A k : <<e, k>> \notin run_failures
  BY <1>1, <1>2, ExplainedIsDecided
<1>5. \A d \in Events : d \in With(Kinds) <=> d # e /\ <<d, fate'[d]>> \in run_failures
  BY <1>1, <1>2, <1>4 DEF Explained
<1>6. CASE run_failures' = run_failures \cup {<<e, kind>>} /\ UNCHANGED stage
  <2>1. <<e, kind>> \in {<<d, fate'[d]>> : d \in With(Kinds)'}
    BY <1>1
  <2>2. \A d \in Events : <<d, fate'[d]>> \in run_failures' <=> d \in With(Kinds) \/ d = e
    BY <1>1, <1>5, <1>6
  <2>3. Explained' = With(Kinds)'
    BY <1>1, <1>2, <2>2 DEF Explained
  <2> QED
    BY <1>3, <1>6, <2>1, <2>3
<1>7. CASE stage' = "broken" /\ UNCHANGED run_failures
  <2>1. Explained' = With(Kinds)
    BY <1>2, <1>4, <1>5, <1>7 DEF Explained
  <2> QED
    BY <1>1, <1>3, <1>7, <2>1
<1> QED
  BY <1>6, <1>7 DEF Journal

(* Nothing about the journal changes when the explained fates do not.      *)
LEMMA JournalUntouched ==
  ASSUME LedgerInv, UNCHANGED run_failures, With(Kinds)' = With(Kinds),
         \A d \in With(Kinds) : fate'[d] = fate[d]
  PROVE  /\ run_failures' \subseteq {<<d, fate[d]>> : d \in With(Kinds)}'
         /\ Explained' = Explained
<1>1. run_failures' \subseteq {<<d, fate[d]>> : d \in With(Kinds)}'
  BY RowsKept
<1>2. \A d, k : <<d, k>> \in run_failures => d \in With(Kinds)
  BY ExplainedIsDecided
<1>3. \A d \in Events : <<d, fate'[d]>> \in run_failures <=> <<d, fate[d]>> \in run_failures
  BY <1>2
<1> QED
  BY <1>1, <1>3 DEF Explained

(* A decision whose count goes up keeps the four counts right. *)
LEMMA DecideCounts ==
  ASSUME IsFiniteSet(Events), LedgerInv, NEW e \in Events,
         NEW how \in Kinds \cup {"succeeded"}, Decide(e, how),
         UNCHANGED processed_count,
         success_count' = success_count + (IF how = "succeeded" THEN 1 ELSE 0),
         skipped_count' = skipped_count + (IF how \in SkipKinds THEN 1 ELSE 0),
         failure_count' = failure_count + (IF how = "redaction_request" THEN 1 ELSE 0),
         stage' # "aborted"
  PROVE  /\ processed_count' = Cardinality(Events \ With({"unread"}))'
         /\ success_count' = Cardinality(With({"succeeded"}))'
         /\ skipped_count' = Cardinality(With(SkipKinds))'
         /\ failure_count' = Cardinality(With({"redaction_request"}))'
<1>1. stage = "open" /\ fate[e] = "pending"
  BY DecideMoves DEF LedgerInv
<1>2. ASSUME NEW fates, "pending" \notin fates
      PROVE  Cardinality(With(fates))' =
               Cardinality(With(fates)) + (IF how \in fates THEN 1 ELSE 0)
  <2>1. /\ e \notin With(fates)
        /\ With(fates)' = IF how \in fates THEN With(fates) \cup {e} ELSE With(fates) \ {e}
    BY <1>2, DecideMoves DEF LedgerInv
  <2>2. IsFiniteSet(With(fates)) /\ Cardinality(With(fates)) \in Nat
    BY FiniteWith
  <2>3. CASE how \in fates
    BY <2>1, <2>2, <2>3, FS_AddElement
  <2>4. CASE how \notin fates
    <3>1. With(fates)' = With(fates)
      BY <2>1, <2>4
    <3> QED
      BY <2>2, <2>4, <3>1
  <2> QED
    BY <2>3, <2>4
<1>3. (Events \ With({"unread"}))' = Events \ With({"unread"})
  BY DecideMoves DEF LedgerInv, Kinds, SkipKinds, With
<1>4. /\ processed_count = Cardinality(Events \ With({"unread"}))
      /\ success_count = Cardinality(With({"succeeded"}))
      /\ skipped_count = Cardinality(With(SkipKinds))
      /\ failure_count = Cardinality(With({"redaction_request"}))
  BY <1>1, FiniteWith DEF LedgerInv, Balanced
<1>5. "pending" \notin SkipKinds
  BY DEF SkipKinds
<1> QED
  BY <1>2, <1>3, <1>4, <1>5

LEMMA DecideTypes ==
  ASSUME LedgerInv, NEW e \in Events, NEW how \in Kinds \cup {"succeeded"},
         Decide(e, how)
  PROVE  fate' \in [Events -> Fates] /\ stage = "open" /\ status = "running"
BY DEF Decide, LedgerInv, LedgerTypes, Balanced, Fates

(* The parts of the invariant while the run is neither complete nor aborted. *)
OpenLedger ==
  /\ LedgerTypes /\ stage \in {"open", "broken"} /\ status = "running"
  /\ processed_count = Cardinality(Events \ With({"unread"}))
  /\ success_count = Cardinality(With({"succeeded"}))
  /\ skipped_count = Cardinality(With(SkipKinds))
  /\ failure_count = Cardinality(With({"redaction_request"}))
  /\ run_failures \subseteq {<<d, fate[d]>> : d \in With(Kinds)}
  /\ \A c, d \in With(Kinds) \ Explained : c = d
  /\ With(Kinds) # Explained => stage = "broken"

LEMMA OpenBooks ==
  ASSUME OpenLedger
  PROVE  LedgerInv
<1>1. failure_count = Cardinality(With({"redaction_request"}))
                        + (IF stage = "aborted" THEN 1 ELSE 0)
  BY DEF OpenLedger, LedgerTypes
<1> QED
  BY <1>1 DEF OpenLedger, LedgerInv, Balanced

LEMMA LedgerInvStep ==
  ASSUME IsFiniteSet(Events), LedgerInv, [Next]_vars
  PROVE  LedgerInv'
<1>1. ASSUME NEW page \in SUBSET Events, Read(page) PROVE LedgerInv'
  <2>1. /\ stage = "open" /\ UNCHANGED <<stage, success_count, skipped_count, failure_count,
                                        run_failures, status>>
        /\ page \subseteq With({"unread"})
        /\ fate' = [e \in Events |-> IF e \in page THEN "pending" ELSE fate[e]]
        /\ processed_count' = processed_count + Cardinality(page)
    BY <1>1 DEF Read
  <2>2. LedgerTypes'
    <3>1. Cardinality(page) \in Nat
      BY FS_Subset, FS_CardinalityType
    <3> QED
      BY <2>1, <3>1 DEF LedgerInv, LedgerTypes, Fates
  <2>3. \A fates : "unread" \notin fates /\ "pending" \notin fates =>
                    With(fates)' = With(fates)
    BY <2>1 DEF With
  <2>4. processed_count' = Cardinality(Events \ With({"unread"}))'
    <3>1. /\ (Events \ With({"unread"}))' = (Events \ With({"unread"})) \cup page
          /\ (Events \ With({"unread"})) \cap page = {}
      BY <2>1 DEF With
    <3>2. IsFiniteSet(page) /\ Cardinality(page) \in Nat
      BY FS_Subset, FS_CardinalityType
    <3>3. /\ IsFiniteSet(Events \ With({"unread"}))
          /\ Cardinality(Events \ With({"unread"})) \in Nat
      BY FiniteRead
    <3>4. Cardinality((Events \ With({"unread"})) \cup page) =
            Cardinality(Events \ With({"unread"})) + Cardinality(page)
              - Cardinality((Events \ With({"unread"})) \cap page)
      BY <3>2, <3>3, FS_Union, Zenon
    <3>5. Cardinality((Events \ With({"unread"})) \cap page) = 0
      BY <3>1, FS_EmptySet
    <3>6. processed_count = Cardinality(Events \ With({"unread"}))
      BY DEF LedgerInv, Balanced
    <3> DEFINE read == Events \ With({"unread"})
    <3> HIDE DEF read
    <3>7. processed_count + Cardinality(page) = Cardinality(read \cup page)
      BY <3>2, <3>3, <3>4, <3>5, <3>6 DEF read
    <3> QED
      BY <2>1, <3>1, <3>7 DEF read
  <2>5. /\ With({"succeeded"})' = With({"succeeded"}) /\ With(SkipKinds)' = With(SkipKinds)
        /\ With({"redaction_request"})' = With({"redaction_request"})
        /\ With(Kinds)' = With(Kinds)
    BY <2>3 DEF SkipKinds, Kinds
  <2>6. \A e \in With(Kinds) : fate'[e] = fate[e]
    BY <2>1 DEF With, Kinds, SkipKinds
  <2>7. /\ run_failures' \subseteq {<<d, fate[d]>> : d \in With(Kinds)}'
        /\ Explained' = Explained
    BY <2>1, <2>5, <2>6, JournalUntouched
  <2>8. /\ success_count' = Cardinality(With({"succeeded"}))'
        /\ skipped_count' = Cardinality(With(SkipKinds))'
        /\ failure_count' = Cardinality(With({"redaction_request"}))'
    <3>1. /\ success_count = Cardinality(With({"succeeded"}))
          /\ skipped_count = Cardinality(With(SkipKinds))
          /\ failure_count = Cardinality(With({"redaction_request"}))
      BY <2>1, FiniteWith DEF LedgerInv, Balanced
    <3> QED
      BY <2>1, <2>5, <3>1
  <2>9. status = "running" /\ With(Kinds) = Explained
    BY <2>1 DEF LedgerInv, Balanced
  <2> QED
    <3>1. OpenLedger'
      BY <2>1, <2>2, <2>4, <2>5, <2>7, <2>8, <2>9 DEF OpenLedger
    <3> QED
      BY <3>1, OpenBooks, PTL
<1>2. ASSUME NEW e \in Events, Succeed(e) PROVE LedgerInv'
  <2>1. Decide(e, "succeeded") /\ stage = "open" /\ status = "running"
    BY <1>2, DecideTypes DEF Succeed
  <2>2. LedgerTypes'
    BY <1>2, <2>1, DecideTypes DEF Succeed, LedgerInv, LedgerTypes
  <2>3. /\ processed_count' = Cardinality(Events \ With({"unread"}))'
        /\ success_count' = Cardinality(With({"succeeded"}))'
        /\ skipped_count' = Cardinality(With(SkipKinds))'
        /\ failure_count' = Cardinality(With({"redaction_request"}))'
    BY <1>2, <2>1, DecideCounts DEF Succeed, SkipKinds, LedgerInv, LedgerTypes
  <2>4. /\ With(Kinds)' = With(Kinds)
        /\ \A d \in With(Kinds) : fate'[d] = fate[d]
    BY <2>1, DecideMoves DEF LedgerInv, Kinds, SkipKinds, With
  <2>5. /\ run_failures' \subseteq {<<d, fate[d]>> : d \in With(Kinds)}'
        /\ Explained' = Explained
    BY <1>2, <2>4, JournalUntouched DEF Succeed
  <2> QED
    <3>1. UNCHANGED <<stage, status>> /\ With(Kinds) = Explained
      BY <1>2, <2>1 DEF Succeed, LedgerInv, Balanced
    <3> QED
      <4>1. OpenLedger'
        BY <2>1, <2>2, <2>3, <2>4, <2>5, <3>1 DEF OpenLedger
      <4> QED
        BY <4>1, OpenBooks, PTL
<1>3. ASSUME NEW e \in Events, NEW kind \in SkipKinds, Skip(e, kind) PROVE LedgerInv'
  <2>1. Decide(e, kind) /\ Journal(e, kind) /\ kind \in Kinds
        /\ kind \notin {"succeeded", "redaction_request"}
    BY <1>3 DEF Skip, Kinds, SkipKinds
  <2>2. /\ fate' \in [Events -> Fates] /\ stage = "open" /\ status = "running"
        /\ stage' \in {"open", "broken"}
    BY <2>1, DecideTypes DEF Journal
  <2>3. LedgerTypes'
    BY <1>3, <2>2 DEF Skip, LedgerInv, LedgerTypes
  <2>4. /\ processed_count' = Cardinality(Events \ With({"unread"}))'
        /\ success_count' = Cardinality(With({"succeeded"}))'
        /\ skipped_count' = Cardinality(With(SkipKinds))'
        /\ failure_count' = Cardinality(With({"redaction_request"}))'
    <3>1. /\ UNCHANGED <<processed_count, success_count, failure_count>>
          /\ skipped_count' = skipped_count + 1
          /\ success_count \in Nat /\ failure_count \in Nat
      BY <1>3 DEF Skip, LedgerInv, LedgerTypes
    <3> QED
      BY <2>1, <2>2, <3>1, DecideCounts
  <2>5. /\ run_failures' \subseteq {<<d, fate[d]>> : d \in With(Kinds)}'
        /\ \A c, d \in (With(Kinds) \ Explained)' : c = d
        /\ With(Kinds)' # Explained' => stage' \in {"broken", "aborted"}
    BY <2>1, JournalKept
  <2> QED
    <3>1. UNCHANGED status
      BY <1>3 DEF Skip
    <3> QED
      <4>1. OpenLedger'
        BY <2>2, <2>3, <2>4, <2>5, <3>1 DEF OpenLedger
      <4> QED
        BY <4>1, OpenBooks, PTL
<1>4. ASSUME NEW e \in Events, FailOne(e) PROVE LedgerInv'
  <2>1. Decide(e, "redaction_request") /\ Journal(e, "redaction_request")
        /\ "redaction_request" \in Kinds /\ "redaction_request" \notin SkipKinds
    BY <1>4 DEF FailOne, Kinds, SkipKinds
  <2>2. /\ fate' \in [Events -> Fates] /\ stage = "open" /\ status = "running"
        /\ stage' \in {"open", "broken"}
    BY <2>1, DecideTypes DEF Journal
  <2>3. LedgerTypes'
    BY <1>4, <2>2 DEF FailOne, LedgerInv, LedgerTypes
  <2>4. /\ processed_count' = Cardinality(Events \ With({"unread"}))'
        /\ success_count' = Cardinality(With({"succeeded"}))'
        /\ skipped_count' = Cardinality(With(SkipKinds))'
        /\ failure_count' = Cardinality(With({"redaction_request"}))'
    <3>1. /\ UNCHANGED <<processed_count, success_count, skipped_count>>
          /\ failure_count' = failure_count + 1
          /\ success_count \in Nat /\ skipped_count \in Nat
      BY <1>4 DEF FailOne, LedgerInv, LedgerTypes
    <3> QED
      BY <2>1, <2>2, <3>1, DecideCounts
  <2>5. /\ run_failures' \subseteq {<<d, fate[d]>> : d \in With(Kinds)}'
        /\ \A c, d \in (With(Kinds) \ Explained)' : c = d
        /\ With(Kinds)' # Explained' => stage' \in {"broken", "aborted"}
    BY <2>1, JournalKept
  <2> QED
    <3>1. UNCHANGED status
      BY <1>4 DEF FailOne
    <3> QED
      <4>1. OpenLedger'
        BY <2>2, <2>3, <2>4, <2>5, <3>1 DEF OpenLedger
      <4> QED
        BY <4>1, OpenBooks, PTL
<1>5. CASE Complete \/ Break \/ Abort
  <2>1. /\ UNCHANGED <<fate, processed_count, success_count, skipped_count, run_failures>>
        /\ stage \in {"open", "broken"}
    BY <1>5 DEF Complete, Break, Abort, counts
  <2>2. \A fates : With(fates)' = With(fates)
    BY <2>1 DEF With
  <2>3. Explained' = Explained
    BY <2>1 DEF Explained
  <2>4. LedgerTypes'
    BY <1>5, <2>1 DEF Complete, Break, Abort, counts, LedgerInv, LedgerTypes
  <2>5. failure_count' = Cardinality(With({"redaction_request"}))
                           + (IF stage' = "aborted" THEN 1 ELSE 0)
    BY <1>5, <2>1, FiniteWith DEF Complete, Break, Abort, counts, LedgerInv, Balanced
  <2>6. /\ With(Kinds)' # Explained' => stage' \in {"broken", "aborted"}
        /\ stage' = "complete" => With({"pending"})' = {}
    BY <1>5, <2>1, <2>2, <2>3 DEF Complete, Break, Abort, LedgerInv, Balanced
  <2>7. status' = CASE stage' = "aborted" -> "failed"
                    [] stage' = "complete" ->
                         IF failure_count' = 0 THEN "completed" ELSE "failed"
                    [] OTHER -> "running"
    BY <1>5, <2>1 DEF Complete, Break, Abort, counts, LedgerInv, Balanced
  <2> QED
    BY <2>1, <2>2, <2>3, <2>4, <2>5, <2>6, <2>7 DEF LedgerInv, Balanced
<1>6. CASE UNCHANGED vars
  BY <1>6 DEF vars, counts, LedgerInv, LedgerTypes, Balanced, With, Explained
<1> QED
  BY <1>1, <1>2, <1>3, <1>4, <1>5, <1>6 DEF Next

(* The books balance: at every moment, and for good after an abort, the    *)
(* counts of a run's row and its rows in run_failures agree with what      *)
(* became of the events, whatever finite set of events there is.           *)
THEOREM BooksBalance ==
  ASSUME IsFiniteSet(Events)
  PROVE  Spec => []Balanced
<1>1. LedgerInv /\ [Next]_vars => LedgerInv'
  BY LedgerInvStep
<1>2. LedgerInv => Balanced
  BY DEF LedgerInv
<1> QED
  BY <1>1, <1>2, InitLedgerInv, PTL DEF Spec
=============================================================================
