-------------------------- MODULE DeployTailProofs --------------------------
(***************************************************************************)
(* Theorems about DeployTail, for any listing delay the discovery can bear,*)
(* any bounds of its loops and any number of kills.                        *)
(*                                                                         *)
(* The argument is about age.  Every read of the discovery is a sleep after*)
(* the one before, and the first is no earlier than the create, so that a  *)
(* pod is five sleeps old when it is read for the sixth time and must then *)
(* be listed; six empty reads in a row are six reads.                      *)
(***************************************************************************)
EXTENDS DeployTail, TLAPS

LaunchSteps == {"create", "rate", "health", "discover", "pause", "delete", "verify", "zero"}
ResumeSteps == {"sweep", "look", "remove", "confirm", "settle"}

\* How much older than the create the r-th read of the discovery is.
Spent(r) == r * DiscoverSleep

\* Old enough that every listing has to show it.
Listable == pod[Control].born + HideMax <= now

\* What the loops' guards leave to their bodies.
CountingOK ==
  /\ step = "create" => emptyReads = 0 /\ reads = 0
  /\ step = "discover" => emptyReads < Quiescent /\ reads < MaxReads
  /\ step = "confirm" => clean < Confirmed

\* Only young pods are hidden, and the horizon leaves none hidden.
YoungOK ==
  pod[Control].st # "absent" =>
    /\ pod[Control].born + HideMax <= MaxTime
    /\ ~pod[Control].listed => now < pod[Control].born + HideMax

\* How the search, the delete and the resume relate to the pod.
SearchOK ==
  /\ step = "create" => pod[Control].st = "absent" /\ leftover = "none"
  /\ emptyReads <= reads
  /\ (step = "discover" /\ Live(Control)) =>
       Listable \/ now >= pod[Control].born + Spent(reads)
  /\ (step = "pause" /\ Live(Control)) =>
       /\ emptyReads < Quiescent
       /\ Listable \/ wake >= pod[Control].born + Spent(reads)
  /\ step \in {"delete", "verify"} => podId = "known"
  /\ step \in {"zero", "confirm", "settle"} => ~Live(Control)
  /\ (leftover = "name" /\ Live(Control)) => Listable
  /\ step \in ResumeSteps => leftover # "none"
  /\ step \in LaunchSteps => outcome = "none"

----------------------------------------------------------------------------
(* Types.                                                                  *)

\* Every read of the discovery adds a sleep.
LEMMA SpentFacts ==
  /\ Spent(0) = 0
  /\ \A r \in Nat : Spent(r) \in Nat /\ Spent(r + 1) = Spent(r) + DiscoverSleep
  /\ \A r \in Nat : r >= 5 => Spent(r) >= 5 * DiscoverSleep
<1>1. DiscoverSleep \in Nat
  BY DeployAssumption
<1>2. ASSUME NEW r \in Nat, r >= 5
      PROVE  r * DiscoverSleep >= 5 * DiscoverSleep
  BY <1>1, <1>2
<1> QED
  BY <1>1, <1>2 DEF Spent

\* Pod records stay pod records.
LEMMA BecomesType ==
  ASSUME TypeOK, NEW p \in Pods, NEW s \in Statuses
  PROVE  Becomes(p, s) \in PodRecord
<1>1. pod[p] \in PodRecord /\ now \in Nat
  BY ProviderAssumption DEF TypeOK, ProvTypeOK
<1> QED
  BY <1>1 DEF PodRecord, Becomes, Live

\* What the scripts and the provider do to pods keeps their types.
LEMMA PodType ==
  ASSUME TypeOK
  PROVE  /\ Born(Control) => ProvTypeOK'
         /\ DeleteLands(Control) => pod' \in [Pods -> PodRecord]
         /\ Tick \/ AppearInListing(Control) \/ Reclaim(Control) => ProvTypeOK'
<1>0. pod \in [Pods -> PodRecord] /\ now \in 0 .. MaxTime /\ now \in Nat /\ Control \in Pods
  BY ProviderAssumption DEF TypeOK, ProvTypeOK, Pods
<1>1. ASSUME Born(Control) PROVE ProvTypeOK'
  <2>1. PICK r \in Rates, seen \in BOOLEAN :
           pod' = [pod EXCEPT ![Control] = [st |-> "RUNNING", born |-> now, ended |-> 0,
                                            rate |-> r, listed |-> seen]]
    BY <1>1 DEF Born
  <2>2. r \in Nat
    BY ProviderAssumption
  <2> QED
    BY <1>0, <1>1, <2>1, <2>2 DEF Born, ProvTypeOK, PodRecord, Statuses
<1>2. ASSUME DeleteLands(Control) PROVE pod' \in [Pods -> PodRecord]
  <2>1. Becomes(Control, "EXITED") \in PodRecord /\ Becomes(Control, "TERMINATED") \in PodRecord
    BY <1>0, BecomesType DEF Statuses
  <2> QED
    BY <1>0, <1>2, <2>1 DEF DeleteLands
<1>3. ASSUME Tick PROVE ProvTypeOK'
  BY <1>0, <1>3, ProviderAssumption DEF Tick, ProvTypeOK
<1>4. ASSUME AppearInListing(Control) PROVE ProvTypeOK'
  BY <1>0, <1>4 DEF AppearInListing, ProvTypeOK, PodRecord
<1>5. ASSUME Reclaim(Control) PROVE ProvTypeOK'
  <2>1. PICK s \in Statuses : pod' = [pod EXCEPT ![Control] = Becomes(Control, s)]
    BY <1>5 DEF Reclaim, Statuses
  <2>2. Becomes(Control, s) \in PodRecord
    BY <1>0, BecomesType
  <2> QED
    BY <1>0, <1>5, <2>1, <2>2 DEF Reclaim, ProvTypeOK
<1> QED
  BY <1>1, <1>2, <1>3, <1>4, <1>5

\* The launch starts well typed.
LEMMA InitType == Init => TypeOK /\ CountingOK
<1> SUFFICES ASSUME Init PROVE TypeOK /\ CountingOK
  OBVIOUS
<1>1. PICK old \in [Foreign -> {"RUNNING", "TERMINATED"}] :
         pod = [p \in Pods |-> [st     |-> IF p \in Foreign THEN old[p] ELSE "absent",
                                born   |-> 0, ended |-> 0, rate |-> 0, listed |-> TRUE]]
  BY DEF Init
<1>2. pod \in [Pods -> PodRecord]
  BY <1>1 DEF PodRecord, Statuses
<1> QED
  BY <1>2, ProviderAssumption, DeployAssumption
     DEF Init, TypeOK, CountingOK, ProvTypeOK, Quiescent, MaxTries, Confirmed

\* The launch's steps keep types and counts.
LEMMA LaunchType ==
  ASSUME TypeOK, CountingOK, Launch
  PROVE  TypeOK' /\ CountingOK'
<1> USE DeployAssumption DEF TypeOK, CountingOK, Quiescent, MaxTries, Confirmed, launchVars,
        resumeVars, provVars, OnExit, Ends
<1>0. now \in Nat
  BY ProviderAssumption DEF ProvTypeOK
<1>1. ASSUME UNCHANGED provVars PROVE ProvTypeOK'
  BY <1>1 DEF ProvTypeOK
<1>2. CASE CreateCommits
  BY <1>2, PodType DEF CreateCommits
<1>3. CASE CreateFails
  BY <1>1, <1>3 DEF CreateFails
<1>4. CASE RateChecked
  BY <1>1, <1>4 DEF RateChecked
<1>5. CASE Healthy
  BY <1>1, <1>5 DEF Healthy
<1>6. CASE HealthDeadline
  BY <1>1, <1>6 DEF HealthDeadline
<1>7. CASE DiscoverFinds
  BY <1>1, <1>7 DEF DiscoverFinds
<1>8. CASE DiscoverEmpty
  BY <1>0, <1>1, <1>8 DEF DiscoverEmpty, NextRead
<1>9. CASE DiscoverFails
  BY <1>0, <1>1, <1>9 DEF DiscoverFails, NextRead
<1>10. CASE DiscoverGoesOn
  BY <1>1, <1>10 DEF DiscoverGoesOn, PersistUnresolved
<1>11. CASE DeletePod
  <2>1. ProvTypeOK'
    BY <1>11, PodType DEF DeletePod, ProvTypeOK
  <2> QED
    BY <1>11, <2>1 DEF DeletePod
<1>12. CASE DeleteVerified
  BY <1>1, <1>12 DEF DeleteVerified
<1>13. CASE DeleteUnverified
  BY <1>1, <1>13 DEF DeleteUnverified, PersistUnresolved
<1>14. CASE ZeroLive
  BY <1>1, <1>14 DEF ZeroLive
<1>15. CASE ZeroLiveUnreadable
  BY <1>1, <1>15 DEF ZeroLiveUnreadable, PersistUnresolved
<1> QED
  BY <1>2, <1>3, <1>4, <1>5, <1>6, <1>7, <1>8, <1>9, <1>10, <1>11, <1>12, <1>13, <1>14,
     <1>15 DEF Launch

\* The resume's steps keep types and counts.
LEMMA ResumeType ==
  ASSUME TypeOK, CountingOK, Resume
  PROVE  TypeOK' /\ CountingOK'
<1> USE DeployAssumption DEF TypeOK, CountingOK, Quiescent, MaxTries, Confirmed, launchVars,
        resumeVars, provVars, Ends, GoTo, GivesUp
<1>0. now \in Nat
  BY ProviderAssumption DEF ProvTypeOK
<1>1. ASSUME UNCHANGED provVars PROVE ProvTypeOK'
  BY <1>1 DEF ProvTypeOK
<1>2. CASE StartResume \/ SweepsExhausted \/ SweepUnreadable
  BY <1>1, <1>2 DEF StartResume, SweepsExhausted, SweepUnreadable
<1>3. CASE SweepFinds \/ SweepEmpty
  BY <1>1, <1>3 DEF SweepFinds, SweepEmpty
<1>4. CASE LookGone \/ LookAlive
  BY <1>1, <1>4 DEF LookGone, LookAlive
<1>5. CASE Remove
  <2>1. ProvTypeOK'
    BY <1>5, PodType DEF Remove, ProvTypeOK
  <2> QED
    BY <1>5, <2>1 DEF Remove
<1>6. CASE ConfirmRead \/ ConfirmFails
  BY <1>0, <1>1, <1>6 DEF ConfirmRead, ConfirmFails, Settle
<1>7. CASE ConfirmGarbled
  BY <1>1, <1>7 DEF ConfirmGarbled
<1>8. CASE Settled
  BY <1>1, <1>8 DEF Settled
<1> QED
  BY <1>2, <1>3, <1>4, <1>5, <1>6, <1>7, <1>8 DEF Resume

\* So does every step.
LEMMA NextType ==
  ASSUME TypeOK, CountingOK, [Next]_vars
  PROVE  TypeOK' /\ CountingOK'
<1>1. CASE Launch
  BY <1>1, LaunchType
<1>2. CASE Resume
  BY <1>2, ResumeType
<1>3. CASE Kill
  BY <1>3, DeployAssumption DEF Kill, Ends, TypeOK, CountingOK, ProvTypeOK, provVars,
     Quiescent, MaxTries, Confirmed
<1>4. CASE World
  <2>1. ProvTypeOK'
    BY <1>4, PodType DEF World
  <2> QED
    BY <1>4, <2>1 DEF World, TypeOK, CountingOK, launchVars, resumeVars
<1>5. CASE UNCHANGED vars
  BY <1>5 DEF vars, provVars, launchVars, resumeVars, TypeOK, CountingOK, ProvTypeOK
<1> QED
  BY <1>1, <1>2, <1>3, <1>4, <1>5 DEF Next

\* The launch's and the resume's variables keep their types: the counters of their
\* loops stay within the loops' bounds.
THEOREM LaunchTypeCorrect == Spec => []TypeOK
<1>1. Init => TypeOK /\ CountingOK
  BY InitType
<1>2. (TypeOK /\ CountingOK) /\ [Next]_vars => (TypeOK /\ CountingOK)'
  BY NextType
<1> QED
  BY <1>1, <1>2, PTL DEF Spec

----------------------------------------------------------------------------
(* No orphan.                                                              *)

\* What any step but the create does to the pod: it is not born, and does not revive.
PodGoesOn ==
  /\ pod'[Control].born = pod[Control].born
  /\ Live(Control)' => Live(Control)
  /\ pod[Control].st = "absent" => pod'[Control].st = "absent"
  /\ now' \in {now, now + 1}

\* A pod that was not there or has ended does not come to life but by its create.
LEMMA PodStep ==
  ASSUME TypeOK, [Next]_vars
  PROVE  CreateCommits \/ PodGoesOn
<1>0. pod \in [Pods -> PodRecord] /\ now \in Nat /\ Control \in Pods
  BY ProviderAssumption DEF TypeOK, ProvTypeOK, Pods
<1>1. ASSUME UNCHANGED provVars PROVE PodGoesOn
  BY <1>0, <1>1 DEF PodGoesOn, Live, provVars
<1>2. ASSUME UNCHANGED now, DeleteLands(Control) \/ UNCHANGED pod PROVE PodGoesOn
  <2>1. CASE DeleteLands(Control)
    <3>1. Becomes(Control, "EXITED").born = pod[Control].born
          /\ Becomes(Control, "TERMINATED").born = pod[Control].born
          /\ Becomes(Control, "TERMINATED").st = "TERMINATED"
      BY <1>0 DEF Becomes, PodRecord
    <3>2. pod'[Control] = CASE pod[Control].st = "RUNNING" -> Becomes(Control, "EXITED")
                             [] pod[Control].st = "EXITED"  -> Becomes(Control, "TERMINATED")
                             [] OTHER -> pod[Control]
      BY <1>0, <2>1 DEF DeleteLands
    <3> QED
      BY <1>0, <1>2, <3>1, <3>2 DEF PodGoesOn, Live
  <2> QED
    BY <1>0, <1>2, <2>1 DEF PodGoesOn, Live
<1>3. CASE Tick
  BY <1>0, <1>3 DEF Tick, PodGoesOn, Live
<1>4. CASE AppearInListing(Control)
  <2>1. pod'[Control] = [pod[Control] EXCEPT !.listed = TRUE] /\ UNCHANGED now
    BY <1>0, <1>4 DEF AppearInListing
  <2>2. pod'[Control].born = pod[Control].born /\ pod'[Control].st = pod[Control].st
    BY <1>0, <2>1 DEF PodRecord
  <2> QED
    BY <1>0, <2>1, <2>2 DEF PodGoesOn, Live
<1>5. CASE Reclaim(Control)
  <2>1. PICK s \in {"EXITED", "TERMINATED", "gone"} :
           /\ pod'[Control] = Becomes(Control, s)
           /\ s = "EXITED" => Live(Control)
           /\ pod[Control].st # "absent"
    BY <1>0, <1>5 DEF Reclaim, Live
  <2>2. Becomes(Control, s).born = pod[Control].born /\ Becomes(Control, s).st = s
    BY <1>0 DEF Becomes, PodRecord
  <2>3. UNCHANGED now
    BY <1>5 DEF Reclaim
  <2> QED
    BY <1>0, <2>1, <2>2, <2>3 DEF PodGoesOn, Live
<1>6. CASE Launch
  BY <1>1, <1>2, <1>6 DEF Launch, CreateFails, RateChecked, Healthy, HealthDeadline,
     DiscoverFinds, DiscoverEmpty, DiscoverFails, DiscoverGoesOn, DeletePod, DeleteVerified,
     DeleteUnverified, ZeroLive, ZeroLiveUnreadable
<1>7. CASE Resume
  BY <1>1, <1>2, <1>7 DEF Resume, StartResume, SweepsExhausted, SweepFinds, SweepEmpty,
     SweepUnreadable, LookGone, LookAlive, Remove, ConfirmRead, ConfirmFails,
     ConfirmGarbled, Settled, GoTo, GivesUp
<1>8. CASE Kill \/ UNCHANGED vars
  BY <1>1, <1>8 DEF Kill, vars
<1> QED
  BY <1>3, <1>4, <1>5, <1>6, <1>7, <1>8 DEF Next, World

\* A hidden pod is young, and the horizon comes after its youth.
LEMMA YoungStep ==
  ASSUME TypeOK, YoungOK, [Next]_vars
  PROVE  YoungOK'
<1>0. /\ pod \in [Pods -> PodRecord] /\ now \in Nat /\ Control \in Pods
      /\ HideMax \in Nat /\ MaxTime \in Nat
  BY ProviderAssumption DEF TypeOK, ProvTypeOK, Pods
<1>1. ASSUME UNCHANGED provVars PROVE YoungOK'
  BY <1>1 DEF YoungOK, provVars
<1>2. CASE CreateCommits
  <2>1. PICK r \in Rates, seen \in BOOLEAN :
           /\ HideMax = 0 => seen
           /\ pod' = [pod EXCEPT ![Control] = [st |-> "RUNNING", born |-> now, ended |-> 0,
                                               rate |-> r, listed |-> seen]]
    BY <1>2 DEF CreateCommits, Born
  <2>2. pod'[Control].born = now /\ pod'[Control].listed = seen
    BY <1>0, <2>1
  <2> QED
    BY <1>0, <1>2, <2>1, <2>2 DEF CreateCommits, Born, YoungOK
<1>3. ASSUME UNCHANGED now, DeleteLands(Control) PROVE YoungOK'
  <2>1. \A s \in {"EXITED", "TERMINATED"} :
          /\ Becomes(Control, s).born = pod[Control].born
          /\ Becomes(Control, s).listed = pod[Control].listed
    BY <1>0 DEF Becomes, PodRecord
  <2>2. \/ pod'[Control] = pod[Control]
        \/ /\ pod[Control].st # "absent"
           /\ \E s \in {"EXITED", "TERMINATED"} : pod'[Control] = Becomes(Control, s)
    BY <1>0, <1>3 DEF DeleteLands
  <2> QED
    BY <1>3, <2>1, <2>2 DEF YoungOK
<1>4. CASE Tick
  BY <1>0, <1>4 DEF Tick, YoungOK, PodRecord
<1>5. CASE AppearInListing(Control)
  <2>1. pod'[Control] = [pod[Control] EXCEPT !.listed = TRUE] /\ UNCHANGED now
    BY <1>0, <1>5 DEF AppearInListing
  <2>2. /\ pod'[Control].born = pod[Control].born /\ pod'[Control].listed
        /\ pod[Control].st # "absent"
    BY <1>0, <1>5, <2>1 DEF PodRecord, AppearInListing
  <2> QED
    BY <1>0, <2>1, <2>2 DEF YoungOK
<1>6. CASE Reclaim(Control)
  <2>1. PICK s \in {"EXITED", "TERMINATED", "gone"} : pod'[Control] = Becomes(Control, s)
    BY <1>0, <1>6 DEF Reclaim
  <2>2. /\ Becomes(Control, s).born = pod[Control].born
        /\ Becomes(Control, s).listed = pod[Control].listed
    BY <1>0 DEF Becomes, PodRecord
  <2>3. UNCHANGED now /\ pod[Control].st # "absent"
    BY <1>6 DEF Reclaim, Live
  <2> QED
    BY <1>0, <2>1, <2>2, <2>3 DEF YoungOK
<1>7. CASE Launch
  <2>1. ASSUME DeletePod PROVE YoungOK'
    BY <1>3, <2>1 DEF DeletePod, YoungOK
  <2> QED
    BY <1>1, <1>2, <1>7, <2>1 DEF Launch, CreateFails, RateChecked, Healthy, HealthDeadline,
       DiscoverFinds, DiscoverEmpty, DiscoverFails, DiscoverGoesOn, DeleteVerified,
       DeleteUnverified, ZeroLive, ZeroLiveUnreadable
<1>8. CASE Resume
  <2>1. ASSUME Remove PROVE YoungOK'
    BY <1>3, <2>1 DEF Remove, YoungOK
  <2> QED
    BY <1>1, <1>8, <2>1 DEF Resume, StartResume, SweepsExhausted, SweepFinds, SweepEmpty,
       SweepUnreadable, LookGone, LookAlive, ConfirmRead, ConfirmFails,
       ConfirmGarbled, Settled, GoTo, GivesUp
<1>9. CASE Kill \/ UNCHANGED vars
  BY <1>1, <1>9 DEF Kill, vars
<1> QED
  BY <1>4, <1>5, <1>6, <1>7, <1>8, <1>9 DEF Next, World

\* A listing that does not show the pod alive, when it is alive, was read while the pod
\* was still young.
LEMMA UnseenIsYoung ==
  ASSUME TypeOK, YoungOK, NEW omitted \in SUBSET Omittable,
         Listing(omitted)[Control] \in {"absent", "TERMINATED"}, Live(Control)
  PROVE  ~Listable
<1>1. /\ Control \in Pods /\ now \in Nat /\ pod[Control] \in PodRecord
      /\ HideMax \in Nat
  BY ProviderAssumption DEF TypeOK, ProvTypeOK, Pods
<1>2. Control \notin omitted
  BY <1>1 DEF Omittable, Live
<1>3. ~pod[Control].listed
  BY <1>1, <1>2 DEF Listing, Live
<1> QED
  BY <1>1, <1>3 DEF YoungOK, Listable, Live, PodRecord

\* The search's invariant holds at first.
LEMMA InitSearch == Init => YoungOK /\ SearchOK /\ NoOrphan
<1> SUFFICES ASSUME Init PROVE YoungOK /\ SearchOK /\ NoOrphan
  OBVIOUS
<1>1. Control \in Pods /\ Control \notin Foreign
  BY ProviderAssumption DEF Pods
<1>2. pod[Control].st = "absent"
  BY <1>1 DEF Init
<1> QED
  BY <1>2 DEF Init, YoungOK, SearchOK, NoOrphan, Live, ResumeSteps, LaunchSteps

\* The search's invariant, and what it is for.
SearchInv == SearchOK /\ NoOrphan

\* The discovery, in a launch whose listings all parse.
LEMMA DiscoverySearch ==
  ASSUME HideMax <= 5 * DiscoverSleep, "launch" \notin Garbled,
         TypeOK, CountingOK, YoungOK, SearchInv, PodGoesOn,
         DiscoverFinds \/ DiscoverEmpty \/ DiscoverFails \/ DiscoverGoesOn
  PROVE  SearchInv'
<1>0. /\ now \in Nat /\ wake \in Nat /\ pod[Control].born \in Nat /\ HideMax \in Nat
      /\ DiscoverSleep \in Nat /\ reads \in Nat /\ emptyReads \in Nat /\ MaxReads \in Nat
      /\ MaxReads >= 6 /\ Control \in Pods
  BY ProviderAssumption, DeployAssumption DEF TypeOK, ProvTypeOK, Pods, PodRecord, Quiescent
<1>1. Listable => Listable'
  BY <1>0 DEF Listable, PodGoesOn
<1>2. Spent(reads) \in Nat /\ Spent(reads + 1) = Spent(reads) + DiscoverSleep
      /\ (reads >= 5 => Spent(reads) >= 5 * DiscoverSleep)
  BY <1>0, SpentFacts
<1>3. CASE DiscoverFinds
  <2>1. step' = "delete" /\ podId' = "known" /\ emptyReads <= reads' /\ emptyReads' = emptyReads
    BY <1>0, <1>3 DEF DiscoverFinds, OnExit, SearchInv, SearchOK
  <2> QED
    BY <1>1, <1>3, <2>1 DEF DiscoverFinds, SearchInv, SearchOK, NoOrphan, PodGoesOn,
       LaunchSteps, ResumeSteps
<1>4. ASSUME step = "discover", NextRead, UNCHANGED <<provVars, outcome, leftover>>,
             emptyReads' <= reads',
             Live(Control) => emptyReads' < Quiescent
      PROVE  SearchInv'
  <2>1. Live(Control) => Listable \/ wake' >= pod[Control].born + Spent(reads')
    BY <1>0, <1>2, <1>4 DEF NextRead, SearchInv, SearchOK
  <2>2. step' = "pause"
    BY <1>4 DEF NextRead
  <2> QED
    BY <1>1, <1>4, <2>1, <2>2 DEF SearchInv, SearchOK, NoOrphan, PodGoesOn, LaunchSteps,
       ResumeSteps
<1>5. CASE DiscoverEmpty
  <2>1. PICK omitted \in SUBSET Omittable : Listing(omitted)[Control] = "absent"
    BY <1>5 DEF DiscoverEmpty
  <2>2. Live(Control) => ~Listable
    BY <2>1, UnseenIsYoung
  <2>3. Live(Control) => now >= pod[Control].born + Spent(reads)
    BY <1>5, <2>2 DEF DiscoverEmpty, SearchInv, SearchOK
  <2>4. Live(Control) => reads < 5
    BY <1>0, <1>2, <2>2, <2>3 DEF Listable
  <2>5. emptyReads <= reads
    BY DEF SearchInv, SearchOK
  <2>6. emptyReads' = emptyReads + 1 /\ reads' = reads + 1
    BY <1>5 DEF DiscoverEmpty, NextRead
  <2>7. Live(Control) => emptyReads' < Quiescent
    BY <1>0, <2>4, <2>5, <2>6 DEF Quiescent
  <2> QED
    BY <1>0, <1>4, <1>5, <2>5, <2>6, <2>7 DEF DiscoverEmpty
<1>6. CASE DiscoverFails
  BY <1>0, <1>4, <1>6 DEF DiscoverFails, NextRead, Quiescent
<1>7. CASE DiscoverGoesOn
  <2>1. Live(Control) => Listable \/ now >= pod[Control].born + Spent(reads)
    <3>1. CASE now >= wake
      BY <1>0, <1>2, <1>7, <3>1 DEF DiscoverGoesOn, SearchInv, SearchOK
    <3>2. CASE now = MaxTime
      BY <1>0, <3>2 DEF YoungOK, Listable, Live
    <3> QED
      BY <1>7, <3>1, <3>2 DEF DiscoverGoesOn, SleepEnds
  <2>2. CASE emptyReads < Quiescent /\ reads = MaxReads
    <3>1. Live(Control) => Listable
      BY <1>0, <1>2, <2>1, <2>2 DEF Listable
    <3>2. /\ step' = "ended" /\ leftover' # "none" /\ emptyReads' = 0 /\ reads' = 0
          /\ UNCHANGED provVars
      BY <1>7, <2>2 DEF DiscoverGoesOn, PersistUnresolved, Ends
    <3> QED
      BY <1>1, <3>1, <3>2 DEF SearchInv, SearchOK, NoOrphan, PodGoesOn, LaunchSteps,
         ResumeSteps
  <2>3. CASE ~(emptyReads < Quiescent /\ reads = MaxReads)
    <3>1. /\ step' = IF emptyReads < Quiescent THEN "discover" ELSE "zero"
          /\ UNCHANGED <<provVars, launchVars, leftover>>
          /\ step = "pause"
      BY <1>7, <2>3 DEF DiscoverGoesOn
    <3> QED
      BY <1>0, <1>1, <2>1, <3>1 DEF SearchInv, SearchOK, NoOrphan, PodGoesOn, LaunchSteps,
         ResumeSteps, provVars, launchVars, Listable
  <2> QED
    BY <2>2, <2>3
<1> QED
  BY <1>3, <1>5, <1>6, <1>7

\* The launch but for the create and the discovery.
LEMMA LaunchSearch ==
  ASSUME TypeOK, CountingOK, YoungOK, SearchInv, PodGoesOn, Launch,
         ~(DiscoverFinds \/ DiscoverEmpty \/ DiscoverFails \/ DiscoverGoesOn),
         ~CreateCommits
  PROVE  SearchInv'
<1>0. /\ now \in Nat /\ pod[Control].born \in Nat /\ HideMax \in Nat
      /\ Control \in Pods /\ DiscoverSleep \in Nat
  BY ProviderAssumption, DeployAssumption DEF TypeOK, ProvTypeOK, Pods, PodRecord
<1>1. Listable => Listable'
  BY <1>0 DEF Listable, PodGoesOn
<1> USE <1>1 DEF SearchInv, SearchOK, NoOrphan, PodGoesOn, LaunchSteps, ResumeSteps
<1>2. CASE CreateFails
  <2>1. ~Live(Control)
    BY <1>2 DEF CreateFails, Live
  <2> QED
    BY <1>2, <2>1 DEF CreateFails, OnExit
<1>3. CASE RateChecked
  BY <1>3 DEF RateChecked, OnExit, launchVars
<1>4. CASE Healthy
  BY <1>4 DEF Healthy, Ends
<1>5. CASE HealthDeadline
  BY <1>5 DEF HealthDeadline, OnExit
<1>6. CASE DeletePod
  BY <1>6 DEF DeletePod, launchVars
<1>7. CASE DeleteVerified
  BY <1>7 DEF DeleteVerified, VerifiedGone, NotFound, Live, launchVars, provVars
<1>8. CASE DeleteUnverified
  BY <1>8 DEF DeleteUnverified, PersistUnresolved, Ends
<1>9. CASE ZeroLive
  BY <1>9 DEF ZeroLive, Ends
<1>10. CASE ZeroLiveUnreadable
  BY <1>10 DEF ZeroLiveUnreadable, PersistUnresolved, Ends
<1> QED
  BY <1>2, <1>3, <1>4, <1>5, <1>6, <1>7, <1>8, <1>9, <1>10 DEF Launch

\* The resume confirms nothing while the pod is alive.
LEMMA ResumeSearch ==
  ASSUME TypeOK, YoungOK, SearchInv, PodGoesOn, Resume
  PROVE  SearchInv'
<1>0. /\ now \in Nat /\ pod[Control].born \in Nat /\ HideMax \in Nat
  BY ProviderAssumption DEF TypeOK, ProvTypeOK, Pods, PodRecord
<1>1. Listable => Listable'
  BY <1>0 DEF Listable, PodGoesOn
<1> USE <1>1 DEF SearchInv, SearchOK, NoOrphan, PodGoesOn, LaunchSteps, ResumeSteps,
        launchVars, resumeVars
<1>2. CASE StartResume \/ SweepsExhausted \/ SweepUnreadable \/ SweepFinds
  BY <1>2 DEF StartResume, SweepsExhausted, SweepUnreadable, SweepFinds, GoTo, GivesUp, Ends
<1>3. CASE SweepEmpty
  <2>1. ~Live(Control)
    BY <1>3, UnseenIsYoung DEF SweepEmpty, ShownLive
  <2> QED
    BY <1>3, <2>1 DEF SweepEmpty
<1>4. CASE LookGone
  BY <1>4 DEF LookGone, VerifiedGone, NotFound, Live, provVars
<1>5. CASE LookAlive \/ Remove
  BY <1>5 DEF LookAlive, Remove, GoTo
<1>6. CASE ConfirmRead \/ ConfirmFails
  BY <1>6 DEF ConfirmRead, ConfirmFails, Settle
<1>7. CASE ConfirmGarbled
  BY <1>7 DEF ConfirmGarbled, GoTo, GivesUp, Ends
<1>8. CASE Settled
  BY <1>8 DEF Settled, Ends
<1> QED
  BY <1>2, <1>3, <1>4, <1>5, <1>6, <1>7, <1>8 DEF Resume

\* Every step keeps the search's invariant.
LEMMA NextSearch ==
  ASSUME HideMax <= 5 * DiscoverSleep, "launch" \notin Garbled,
         TypeOK, CountingOK, YoungOK, SearchInv, [Next]_vars
  PROVE  SearchInv'
<1>0. /\ now \in Nat /\ pod \in [Pods -> PodRecord] /\ HideMax \in Nat
      /\ Control \in Pods /\ DiscoverSleep \in Nat /\ pod[Control].born \in Nat
  BY ProviderAssumption, DeployAssumption DEF TypeOK, ProvTypeOK, Pods, PodRecord
<1>1. CASE CreateCommits
  <2>1. PICK r \in Rates, seen \in BOOLEAN :
           pod' = [pod EXCEPT ![Control] = [st |-> "RUNNING", born |-> now, ended |-> 0,
                                            rate |-> r, listed |-> seen]]
    BY <1>1 DEF CreateCommits, Born
  <2>2. pod'[Control].born = now /\ now' = now
    BY <1>0, <1>1, <2>1 DEF CreateCommits, Born
  <2> QED
    BY <1>0, <1>1, <2>2, SpentFacts
       DEF CreateCommits, OnExit, SearchInv, SearchOK, NoOrphan, CountingOK, LaunchSteps,
           ResumeSteps
<1>2. ASSUME PodGoesOn PROVE Listable => Listable'
  BY <1>0, <1>2 DEF Listable, PodGoesOn
<1>3. ASSUME PodGoesOn, Kill PROVE SearchInv'
  BY <1>2, <1>3 DEF Kill, Ends, SearchInv, SearchOK, NoOrphan, PodGoesOn, LaunchSteps,
     ResumeSteps, TypeOK
<1>4. ASSUME PodGoesOn, UNCHANGED <<step, wake, launchVars, leftover>> PROVE SearchInv'
  <2>1. /\ UNCHANGED <<step, wake, podId, emptyReads, reads, outcome, leftover>>
        /\ now' >= now /\ now' \in Nat
        /\ pod'[Control].born = pod[Control].born
        /\ Live(Control)' => Live(Control)
        /\ pod[Control].st = "absent" => pod'[Control].st = "absent"
        /\ Listable => Listable'
    BY <1>0, <1>2, <1>4 DEF launchVars, PodGoesOn
  <2>2. wake \in Nat /\ Spent(reads) \in Nat
    BY DeployAssumption, SpentFacts DEF TypeOK
  <2> QED
    BY <1>0, <2>1, <2>2 DEF SearchInv, SearchOK, NoOrphan, LaunchSteps, ResumeSteps, Spent
<1>5. CreateCommits \/ PodGoesOn
  BY PodStep
<1> QED
  BY <1>1, <1>3, <1>4, <1>5, DiscoverySearch, LaunchSearch, ResumeSearch
     DEF Next, World, vars

\* A launch that fails, and is not killed, leaves a live pod only with a state that names
\* it: six empty reads are enough if the listing shows a pod after at most five of the
\* sleeps between them, and a listing that does not parse is a failed one.  The bound is
\* the least the code allows: with one sleep more the model has an orphan.
THEOREM LaunchLeavesNoOrphan ==
  ASSUME HideMax <= 5 * DiscoverSleep, "launch" \notin Garbled
  PROVE  Spec => []NoOrphan
<1> DEFINE IInv == TypeOK /\ CountingOK /\ YoungOK /\ SearchInv
<1>1. Init => IInv
  BY InitType, InitSearch DEF SearchInv
<1>2. IInv /\ [Next]_vars => IInv'
  BY NextType, YoungStep, NextSearch
<1>3. IInv => NoOrphan
  BY DEF SearchInv
<1> QED
  BY <1>1, <1>2, <1>3, PTL DEF Spec

----------------------------------------------------------------------------
(* The state file.                                                         *)

\* Only a resume whose confirming reads are over removes the state file.
LEMMA OnlySettledClears ==
  ASSUME [Next]_vars, leftover # "none", leftover' = "none"
  PROVE  step = "settle"
<1>1. CASE Launch
  BY <1>1 DEF Launch, CreateCommits, CreateFails, RateChecked, Healthy, HealthDeadline,
     DiscoverFinds, DiscoverEmpty, DiscoverFails, DiscoverGoesOn, DeletePod, DeleteVerified,
     DeleteUnverified, ZeroLive, ZeroLiveUnreadable, PersistUnresolved
<1>2. CASE Resume
  BY <1>2 DEF Resume, StartResume, SweepsExhausted, SweepFinds, SweepEmpty, SweepUnreadable,
     LookGone, LookAlive, Remove, ConfirmRead, ConfirmFails, ConfirmGarbled, Settled, GoTo,
     GivesUp
<1>3. CASE Kill \/ World \/ UNCHANGED vars
  BY <1>3 DEF Kill, World, vars
<1> QED
  BY <1>1, <1>2, <1>3 DEF Next

\* The resume says RESOLVED only when the pod is gone, from a state that names it by its id or
\* by a name every listing must show by then: what is not listed alive is not alive.
THEOREM ResolvedIsTrue ==
  ASSUME HideMax <= 5 * DiscoverSleep, "launch" \notin Garbled
  PROVE  Spec => ResolvedMeansGone
<1> DEFINE IInv == TypeOK /\ CountingOK /\ YoungOK /\ SearchInv
<1>1. Init => IInv
  BY InitType, InitSearch DEF SearchInv
<1>2. IInv /\ [Next]_vars => IInv'
  BY NextType, YoungStep, NextSearch
<1>3. IInv /\ [Next]_vars => [leftover # "none" /\ leftover' = "none" => ~Live(Control)]_vars
  BY OnlySettledClears DEF SearchInv, SearchOK
<1> QED
  BY <1>1, <1>2, <1>3, PTL DEF Spec, ResolvedMeansGone
=============================================================================
