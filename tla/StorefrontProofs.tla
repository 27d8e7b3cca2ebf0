--------------------------- MODULE StorefrontProofs ---------------------------
(***************************************************************************)
(* Proofs about the parts of a store front (MCStorefront): the set-up of a *)
(* store, the pages of its catalogue, the events of their changes, the     *)
(* queue that saves the steps of the form, and the photos of a draft.      *)
(***************************************************************************)
EXTENDS MCStorefront, FiniteSums, Sequences, FiniteSetTheorems, SequenceTheorems, TLAPS

(* Onboarding.  What a call has read was earned then, and stays so, since  *)
(* a completed step is never opened again and a review never goes away.    *)
(* Until the first submission neither the lifecycle nor what any call has  *)
(* read of it is past the set-up, so that no step can be overtaken; after  *)
(* it every lifecycle that the rows agree on is past it.                   *)
SetupFits(call) ==
  /\ call.at # "idle" => \A s \in Steps : call.seen >= s => s \in completed
  /\ call.at = "step" => call.step \in Steps \cup {Review} /\ call.seen >= call.step - 1
  /\ call.at = "launch" => call.seen >= LastStep
  /\ call.at \in {"approve", "reject"} => review # "NONE"
  /\ call.at # "idle" /\ review = "NONE" => call.seen <= Review

Unsubmitted == IF review = "NONE" THEN store = "PENDING" /\ lifecycle <= Review /\ ~astray
                                  ELSE astray \/ lifecycle > Review

SetupInv ==
  /\ TypeOK /\ RowsAgree /\ RankIsEarned /\ Unsubmitted
  /\ \A a \in Actors : SetupFits(calls[a])

Call == [at : {"idle", "step", "launch", "approve", "reject"}, seen : 0..Suspended, step : 0..Review]

LEMMA SetupInit == Init => SetupInv
<1> SUFFICES ASSUME Init PROVE SetupInv
  OBVIOUS
<1> USE OnboardingBounds DEF Steps, Review, ReadyForReview, ApprovalPending, Active, Suspended
<1>1. Idle \in Call /\ Idle.at = "idle"
  BY DEF Idle, Call
<1>2. TypeOK
  <2>1. calls \in [Actors -> Call]
    BY <1>1 DEF Init
  <2>2. 0 \in 0..Suspended /\ 0 \in 0..MaxCalls
    OBVIOUS
  <2>3. QED
    BY <2>1, <2>2 DEF Init, TypeOK, Call
<1>3. RowsAgree /\ RankIsEarned /\ Unsubmitted
  <2>1. lifecycle = 0 /\ store = "PENDING" /\ review = "NONE" /\ astray = FALSE
    BY DEF Init
  <2>2. ApprovalPending > 0 /\ Active > 0 /\ Suspended > 0 /\ Review > 0 /\ \A step \in Steps : step > 0
    OBVIOUS
  <2>3. RowsAgree
    BY <2>1, <2>2 DEF RowsAgree
  <2>4. RankIsEarned
    BY <2>1, <2>2 DEF RankIsEarned
  <2>5. Unsubmitted
    BY <2>1, <2>2 DEF Unsubmitted
  <2>6. QED
    BY <2>3, <2>4, <2>5
<1>4. \A a \in Actors : SetupFits(calls[a])
  BY <1>1 DEF Init, SetupFits
<1>5. QED
  BY <1>2, <1>3, <1>4 DEF SetupInv

(* A call begins.                                                          *)
LEMMA SetupBegins ==
  ASSUME SetupInv, NEW a \in Actors, NEW call \in Call, Begin(a, call), SetupFits(call)
  PROVE  SetupInv'
<1>1. /\ calls \in [Actors -> Call] /\ calls' = [calls EXCEPT ![a] = call]
      /\ UNCHANGED <<lifecycle, completed, store, review, astray>> /\ made' \in 0..MaxCalls
  BY OnboardingBounds DEF SetupInv, TypeOK, Begin, Call
<1>2. TypeOK'
  BY <1>1 DEF SetupInv, TypeOK, Call
<1>3. RowsAgree' /\ RankIsEarned' /\ Unsubmitted'
  BY <1>1 DEF SetupInv, RowsAgree, RankIsEarned, Unsubmitted
<1>4. ASSUME NEW b \in Actors PROVE SetupFits(calls[b])'
  <2>1. SetupFits(calls[b]) /\ calls'[b] \in {calls[b], call}
    BY <1>1 DEF SetupInv
  <2>2. CASE calls'[b] = calls[b]
    BY <1>1, <2>1, <2>2 DEF SetupFits
  <2>3. CASE calls'[b] = call
    BY <1>1, <2>1, <2>3 DEF SetupFits
  <2>4. QED
    BY <2>1, <2>2, <2>3
<1>5. QED
  BY <1>2, <1>3, <1>4 DEF SetupInv

(* A call writes and ends.                                                 *)
LEMMA SetupEnds ==
  ASSUME SetupInv, NEW a \in Actors, End(a), lifecycle' \in 0..Suspended,
         completed \subseteq completed', completed' \subseteq Steps \cup {Review},
         store' \in {"PENDING", "APPROVED", "REJECTED"},
         review' \in {"NONE", "PENDING", "AUTO_APPROVED", "REJECTED"},
         review # "NONE" => review' # "NONE",
         astray' \in BOOLEAN, RowsAgree', RankIsEarned', Unsubmitted'
  PROVE  SetupInv'
<1>1. /\ calls \in [Actors -> Call] /\ calls' = [calls EXCEPT ![a] = Idle] /\ made' = made
      /\ made \in 0..MaxCalls
  BY DEF SetupInv, TypeOK, End, Call
<1>2. Idle \in Call /\ Idle.at = "idle"
  BY OnboardingBounds DEF Idle, Call, Suspended, Review
<1>3. TypeOK'
  BY <1>1, <1>2 DEF TypeOK, Call
<1>4. ASSUME NEW b \in Actors PROVE SetupFits(calls[b])'
  <2>1. SetupFits(calls[b]) /\ calls'[b] \in {calls[b], Idle}
    BY <1>1 DEF SetupInv
  <2>2. CASE calls'[b] = calls[b]
    BY <2>1, <2>2 DEF SetupFits
  <2>3. CASE calls'[b] = Idle
    BY <1>2, <2>1, <2>3 DEF SetupFits
  <2>4. QED
    BY <2>1, <2>2, <2>3
<1>5. QED
  BY <1>3, <1>4 DEF SetupInv

LEMMA SetupStep == SetupInv /\ [Next]_vars => SetupInv'
<1> SUFFICES ASSUME SetupInv, [Next]_vars PROVE SetupInv'
  OBVIOUS
<1>0. /\ lifecycle \in 0..Suspended /\ completed \subseteq Steps \cup {Review}
      /\ store \in {"PENDING", "APPROVED", "REJECTED"}
      /\ review \in {"NONE", "PENDING", "AUTO_APPROVED", "REJECTED"}
      /\ calls \in [Actors -> Call] /\ RowsAgree /\ RankIsEarned /\ Unsubmitted /\ astray \in BOOLEAN
      /\ \A a \in Actors : SetupFits(calls[a]) /\ calls[a] \in Call
      /\ Tabs \subseteq Actors /\ Admins \subseteq Actors
      /\ Review = LastStep + 1 /\ Suspended = LastStep + 4 /\ LastStep \in Nat \ {0}
  BY OnboardingBounds DEF SetupInv, TypeOK, Call, Actors, Review, Suspended
<1>1. ASSUME NEW t \in Tabs, NEW step \in Steps \cup {Review}, ReadForStep(t, step)
      PROVE  SetupInv'
  <2> DEFINE call == [at |-> "step", seen |-> lifecycle, step |-> step]
  <2>1. call \in Call
    BY <1>0 DEF Call, Steps
  <2>2. SetupFits(call)
    BY <1>0, <1>1 DEF SetupFits, Unsubmitted, RankIsEarned, ReadForStep, StepIsOpen
  <2>3. Begin(t, call)
    BY <1>1 DEF ReadForStep
  <2> HIDE DEF call
  <2>4. QED
    BY <1>0, <2>1, <2>2, <2>3, SetupBegins
<1>2. ASSUME NEW t \in Tabs, CompleteStep(t)
      PROVE  SetupInv'
  <2>1. /\ calls[t].step \in Steps \cup {Review} /\ calls[t].seen >= calls[t].step - 1
        /\ calls[t].seen \in 0..Suspended
        /\ \A s \in Steps : calls[t].seen >= s => s \in completed
    BY <1>0, <1>2 DEF SetupFits, CompleteStep, Call
  <2>2. /\ completed' = completed \cup {calls[t].step} /\ End(t) /\ UNCHANGED <<store, review>>
        /\ lifecycle' = IF calls[t].seen <= calls[t].step THEN calls[t].step ELSE calls[t].seen
        /\ astray' = (astray \/ (lifecycle > Review /\ calls[t].seen # lifecycle))
    BY <1>2 DEF CompleteStep, After
  <2>3. lifecycle' \in 0..Suspended
    BY <1>0, <2>1, <2>2 DEF Steps
  <2>4. RankIsEarned'
    BY <1>0, <2>1, <2>2 DEF RankIsEarned, Steps
  <2>5. RowsAgree' /\ Unsubmitted'
    <3>1. CASE lifecycle > Review
      <4>0. calls[t].step <= Review
        BY <1>0, <2>1 DEF Steps
      <4>1. ~astray' => lifecycle' = lifecycle
        <5>1. ASSUME ~astray' PROVE calls[t].seen = lifecycle
          BY <2>2, <3>1, <5>1
        <5>2. PICK seen, own : seen = calls[t].seen /\ own = calls[t].step
          OBVIOUS
        <5>3. own \in Int /\ seen \in Int /\ lifecycle \in Int /\ Review \in Int
          BY <1>0, <2>1, <5>2 DEF Steps
        <5>4. seen = lifecycle => ~(seen <= own)
          BY <3>1, <4>0, <5>2, <5>3
        <5>5. lifecycle' = IF seen <= own THEN own ELSE seen
          BY <2>2, <5>2
        <5>6. QED
          BY <5>1, <5>2, <5>4, <5>5
      <4>2. review' = review /\ store' = store /\ (~astray' => ~astray) /\ review # "NONE"
        BY <1>0, <2>2, <3>1 DEF Unsubmitted
      <4>3. RowsAgree'
        BY <1>0, <4>1, <4>2 DEF RowsAgree
      <4>4. Unsubmitted'
        BY <3>1, <4>1, <4>2 DEF Unsubmitted
      <4>5. QED
        BY <4>3, <4>4
    <3>2. CASE lifecycle <= Review
      <4>1. review = "NONE" => lifecycle' <= Review
        BY <1>0, <1>2, <2>1, <2>2 DEF SetupFits, CompleteStep, Steps
      <4>2. QED
        BY <1>0, <2>2, <2>3, <3>2, <4>1 DEF RowsAgree, Unsubmitted, ApprovalPending, Active
    <3>3. QED
      BY <1>0, <3>1, <3>2
  <2>6. QED
    BY <1>0, <2>1, <2>2, <2>3, <2>4, <2>5, SetupEnds
<1>3. ASSUME NEW t \in Tabs, ReadForLaunch(t)
      PROVE  SetupInv'
  <2> DEFINE call == [at |-> "launch", seen |-> lifecycle, step |-> 0]
  <2>1. call \in Call
    BY <1>0 DEF Call
  <2>2. SetupFits(call)
    BY <1>0, <1>3 DEF SetupFits, Unsubmitted, RankIsEarned, ReadForLaunch, MayLaunch, ReadyForReview
  <2>3. Begin(t, call)
    BY <1>3 DEF ReadForLaunch
  <2> HIDE DEF call
  <2>4. QED
    BY <1>0, <2>1, <2>2, <2>3, SetupBegins
<1>4. ASSUME NEW t \in Tabs, Launch(t)
      PROVE  SetupInv'
  <2>1. Steps \subseteq completed
    BY <1>0, <1>4 DEF SetupFits, Launch, Call, Steps
  <2>2. /\ lifecycle' = ApprovalPending /\ store' = "PENDING" /\ review' = "PENDING" /\ astray' = FALSE
        /\ End(t) /\ completed' = completed
    BY <1>4 DEF Launch
  <2>3. lifecycle' \in 0..Suspended /\ RowsAgree' /\ RankIsEarned' /\ Unsubmitted'
    BY <1>0, <2>1, <2>2 DEF RowsAgree, RankIsEarned, Unsubmitted, ApprovalPending, Active
  <2>4. QED
    BY <1>0, <2>2, <2>3, SetupEnds
<1>5. ASSUME NEW a \in Admins, NEW verdict \in {"approve", "reject"}, ReadForDecision(a, verdict)
      PROVE  SetupInv'
  <2> DEFINE call == [at |-> verdict, seen |-> lifecycle, step |-> 0]
  <2>1. call \in Call
    BY <1>0 DEF Call
  <2>2. SetupFits(call)
    BY <1>0, <1>5 DEF SetupFits, Unsubmitted, RankIsEarned, ReadForDecision, ReviewIsPending
  <2>3. Begin(a, call)
    BY <1>5 DEF ReadForDecision
  <2> HIDE DEF call
  <2>4. QED
    BY <1>0, <2>1, <2>2, <2>3, SetupBegins
<1>6. ASSUME NEW a \in Admins, Approve(a) \/ Reject(a)
      PROVE  SetupInv'
  <2>1. Steps \subseteq completed /\ review # "NONE"
    BY <1>0, <1>6 DEF SetupFits, Approve, Reject, RankIsEarned
  <2>2. /\ \/ lifecycle' = Active /\ review' = "AUTO_APPROVED" /\ store' = "APPROVED"
           \/ lifecycle' = Suspended /\ review' = "REJECTED" /\ store' = "REJECTED"
        /\ End(a) /\ completed' = completed /\ astray' = FALSE
    BY <1>6 DEF Approve, Reject
  <2>3. lifecycle' \in 0..Suspended /\ RowsAgree' /\ RankIsEarned' /\ Unsubmitted'
    BY <1>0, <2>1, <2>2 DEF RowsAgree, RankIsEarned, Unsubmitted, ApprovalPending, Active
  <2>4. QED
    BY <1>0, <2>1, <2>2, <2>3, SetupEnds
<1>7. CASE UNCHANGED vars
  BY <1>7 DEF vars, SetupInv, TypeOK, RowsAgree, RankIsEarned, Unsubmitted, SetupFits
<1>8. QED
  BY <1>1, <1>2, <1>3, <1>4, <1>5, <1>6, <1>7 DEF Next

-----------------------------------------------------------------------------
(* CataloguePages.  As long as no version has been used twice, none in use *)
(* is ahead of the one in force.  An entry is sound when it does not miss  *)
(* what has been announced with the version in force.                      *)
Numbered(v) == v \in 1..(2 + bumps) /\ (~reused => v <= Pages!InForce)

Sound(v, content) ==
  /\ Numbered(v) /\ content \in 0..committed
  /\ ~reused /\ v = Pages!InForce => content >= announced

SoundLoad(v, read) ==
  Numbered(v) /\ (read = {} \/ \E content \in 0..committed : read = {content} /\ Sound(v, content))

ScopeFits ==
  /\ committed \in 0..MaxChanges /\ announced \in 0..committed
  /\ bumps \in 0..MaxBumps /\ counter \in 0..(2 + bumps) /\ reused \in BOOLEAN
  /\ firsts \subseteq Processes /\ reach \in [Processes -> BOOLEAN]
  /\ ~reused => firsts = {} /\ (counter = 0 => announced = 0)

L2Fits == \A v \in DOMAIN l2 : Sound(v, l2[v])

L1Fits ==
  /\ DOMAIN l1 = Servers
  /\ \A p \in Servers : \A v \in DOMAIN l1[p] : Sound(v, l1[p][v])

LoadsFit ==
  /\ DOMAIN loads = Servers
  /\ \A p \in Servers : \A v \in DOMAIN loads[p] : SoundLoad(v, loads[p][v])

PagesInv == ScopeFits /\ L2Fits /\ L1Fits /\ LoadsFit

LEMMA PagesInit == Pages!Init => PagesInv
<1> SUFFICES ASSUME Pages!Init PROVE PagesInv
  OBVIOUS
<1>0. MaxChanges \in Nat /\ MaxBumps \in Nat
  BY StorefrontBounds
<1>1. ScopeFits
  <2>1. /\ committed = 0 /\ announced = 0 /\ bumps = 0 /\ reused = FALSE /\ firsts = {}
        /\ counter \in {0, 2} /\ reach = [p \in Processes |-> TRUE]
    BY DEF Pages!Init
  <2>2. counter \in 0..(2 + bumps) /\ committed \in 0..MaxChanges /\ bumps \in 0..MaxBumps
    BY <1>0, <2>1
  <2>3. reach \in [Processes -> BOOLEAN]
    BY <2>1
  <2>4. reused \in BOOLEAN
    BY <2>1
  <2>7. announced \in 0..committed
    BY <2>1
  <2>5. ~reused => firsts = {} /\ (counter = 0 => announced = 0)
    BY <2>1
  <2>6. QED
    BY <2>1, <2>2, <2>3, <2>4, <2>7, <2>5, Zenon DEF ScopeFits
<1>2. L2Fits /\ L1Fits /\ LoadsFit
  BY DEF Pages!Init, L2Fits, L1Fits, LoadsFit, Pages!Nothing
<1>3. QED
  BY <1>1, <1>2 DEF PagesInv

(* What is sound stays so, whatever is committed, announced or written.    *)
ScopeMoves ==
  /\ reused => reused'
  /\ \/ UNCHANGED <<counter, announced>> /\ committed' >= committed /\ bumps' >= bumps
     \/ counter' = counter + 1 /\ (counter = 0 => reused') /\ bumps' = bumps + 1 /\ committed' = committed
     \/ reused' /\ UNCHANGED <<committed, bumps>>

LEMMA NumberStays ==
  ASSUME ScopeFits, ScopeFits', ScopeMoves, NEW v, Numbered(v)
  PROVE  Numbered(v)'
<1>1. v \in 1..(2 + bumps) /\ bumps \in Nat /\ bumps' \in Nat /\ counter \in Nat /\ counter' \in Nat
  BY DEF Numbered, ScopeFits
<1>2. bumps' >= bumps
  BY <1>1 DEF ScopeMoves
<1>3. ASSUME ~reused' PROVE v <= Pages!InForce'
  <2>1. ~reused /\ v <= Pages!InForce
    BY <1>3 DEF Numbered, ScopeMoves
  <2>2. counter' = counter \/ (counter' = counter + 1 /\ counter # 0)
    BY <1>3 DEF ScopeMoves
  <2>3. QED
    BY <1>1, <2>1, <2>2 DEF Pages!InForce
<1>4. v \in 1..(2 + bumps')
  <2>1. PICK b \in Nat : b = bumps'
    BY <1>1
  <2>2. b >= bumps
    BY <1>2, <2>1
  <2>3. v \in 1..(2 + b)
    BY <1>1, <2>2
  <2>4. QED
    BY <2>1, <2>3
<1>5. QED
  BY <1>3, <1>4 DEF Numbered

LEMMA SoundStays ==
  ASSUME ScopeFits, ScopeFits', ScopeMoves, NEW v, NEW content, Sound(v, content)
  PROVE  Sound(v, content)'
<1>1. Numbered(v)'
  BY NumberStays DEF Sound
<1>2. content \in 0..committed'
  BY DEF Sound, ScopeFits, ScopeMoves
<1>3. ~reused' /\ v = Pages!InForce' => content >= announced'
  BY DEF Sound, Numbered, ScopeFits, ScopeMoves, Pages!InForce
<1>4. QED
  BY <1>1, <1>2, <1>3 DEF Sound

LEMMA LoadStays ==
  ASSUME ScopeFits, ScopeFits', ScopeMoves, NEW v, NEW read, SoundLoad(v, read)
  PROVE  SoundLoad(v, read)'
<1>1. Numbered(v)'
  BY NumberStays DEF SoundLoad
<1>2. ASSUME NEW content \in 0..committed, read = {content}, Sound(v, content)
      PROVE  SoundLoad(v, read)'
  <2>1. Sound(v, content)'
    BY <1>2, SoundStays
  <2>2. content \in 0..committed'
    BY <2>1 DEF Sound
  <2>3. QED
    BY <1>1, <1>2, <2>1, <2>2 DEF SoundLoad
<1>3. QED
  BY <1>1, <1>2 DEF SoundLoad

(* What is kept after a step was kept before, or is sound.                 *)
LEMMA L2Stays ==
  ASSUME PagesInv, ScopeFits', ScopeMoves,
         \A v \in DOMAIN l2' : (v \in DOMAIN l2 /\ l2'[v] = l2[v]) \/ \E c : l2'[v] = c /\ Sound(v, c)
  PROVE  L2Fits'
<1>1. ASSUME NEW v \in DOMAIN l2' PROVE \E c : l2'[v] = c /\ Sound(v, c)
  BY <1>1 DEF PagesInv, L2Fits
<1>2. ASSUME NEW v \in DOMAIN l2', NEW c, l2'[v] = c, Sound(v, c) PROVE Sound(v, l2[v])'
  <2>1. Sound(v, c)'
    BY <1>2, SoundStays DEF PagesInv
  <2>2. QED
    BY <1>2, <2>1
<1>3. QED
  BY <1>1, <1>2 DEF L2Fits

LEMMA L1Stays ==
  ASSUME PagesInv, ScopeFits', ScopeMoves, DOMAIN l1' = Servers,
         \A p \in Servers : \A v \in DOMAIN l1'[p] :
           (v \in DOMAIN l1[p] /\ l1'[p][v] = l1[p][v]) \/ \E c : l1'[p][v] = c /\ Sound(v, c)
  PROVE  L1Fits'
<1>1. ASSUME NEW p \in Servers, NEW v \in DOMAIN l1'[p] PROVE \E c : l1'[p][v] = c /\ Sound(v, c)
  BY <1>1 DEF PagesInv, L1Fits
<1>2. ASSUME NEW p \in Servers, NEW v \in DOMAIN l1'[p], NEW c, l1'[p][v] = c, Sound(v, c)
      PROVE  Sound(v, l1[p][v])'
  <2>1. Sound(v, c)'
    BY <1>2, SoundStays DEF PagesInv
  <2>2. QED
    BY <1>2, <2>1
<1>3. QED
  BY <1>1, <1>2 DEF L1Fits

LEMMA LoadsStay ==
  ASSUME PagesInv, ScopeFits', ScopeMoves, DOMAIN loads' = Servers,
         \A p \in Servers : \A v \in DOMAIN loads'[p] :
           (v \in DOMAIN loads[p] /\ loads'[p][v] = loads[p][v]) \/ SoundLoad(v, loads'[p][v])
  PROVE  LoadsFit'
<1>1. ASSUME NEW p \in Servers, NEW v \in DOMAIN loads'[p] PROVE SoundLoad(v, loads[p][v])'
  <2>1. PICK read : read = loads'[p][v] /\ SoundLoad(v, read)
    BY <1>1 DEF PagesInv, LoadsFit
  <2>2. SoundLoad(v, read)'
    BY <2>1, LoadStays DEF PagesInv
  <2>3. QED
    BY <2>1, <2>2
<1>2. QED
  BY <1>1 DEF LoadsFit

LEMMA ScopeSame ==
  ASSUME ScopeFits, UNCHANGED <<committed, Pages!version, bumps>>, firsts' \subseteq firsts,
         reach' \in [Processes -> BOOLEAN]
  PROVE  ScopeFits' /\ ScopeMoves
<1>1. UNCHANGED <<committed, counter, announced, reused, bumps>>
  BY DEF Pages!version
<1>2. ScopeMoves
  BY <1>1 DEF ScopeMoves, ScopeFits
<1>3. firsts' \subseteq Processes /\ (~reused => firsts' = {})
  BY DEF ScopeFits
<1>4. QED
  BY <1>1, <1>2, <1>3 DEF ScopeFits

LEMMA ReadIsNumbered ==
  ASSUME ScopeFits, NEW p
  PROVE  Numbered(Pages!VersionRead(p))
<1>1. Pages!InForce \in 1..(2 + bumps) /\ 1 \in 1..(2 + bumps) /\ 1 <= Pages!InForce
  BY DEF ScopeFits, Pages!InForce
<1>2. Pages!VersionRead(p) \in {1, Pages!InForce}
  BY DEF Pages!VersionRead
<1>3. QED
  BY <1>1, <1>2 DEF Numbered

LEMMA PagesServe ==
  ASSUME PagesInv, NEW p \in Servers,
         \/ Pages!ServeFromRedis(p) \/ Pages!StartLoad(p)
         \/ \E v \in DOMAIN loads[p] : Pages!ReadDatabase(p, v) \/ Pages!StorePage(p, v)
         \/ \E v \in DOMAIN l1[p] : Pages!ExpireInMemory(p, v)
  PROVE  PagesInv'
<1>0. UNCHANGED <<committed, Pages!version, bumps, firsts, reach>>
  BY DEF Pages!ServeFromRedis, Pages!StartLoad, Pages!ReadDatabase, Pages!StorePage, Pages!ExpireInMemory
<1>1. ScopeFits' /\ ScopeMoves /\ ScopeFits
  BY <1>0, ScopeSame DEF PagesInv, ScopeFits
<1>2. /\ DOMAIN l1 = Servers /\ DOMAIN loads = Servers
      /\ committed \in Nat /\ announced \in 0..committed
  BY DEF PagesInv, ScopeFits, L1Fits, LoadsFit
<1>3. CASE Pages!ServeFromRedis(p)
  <2>1. /\ UNCHANGED <<l2, loads>> /\ Pages!VersionRead(p) \in DOMAIN l2
        /\ l1' = [l1 EXCEPT ![p] = Pages!Put(@, Pages!VersionRead(p), l2[Pages!VersionRead(p)])]
    BY <1>3 DEF Pages!ServeFromRedis, Pages!FindsInRedis
  <2>2. L1Fits'
    <3>1. \A v \in DOMAIN l2 : Sound(v, l2[v])
      BY DEF PagesInv, L2Fits
    <3>2. QED
      BY <1>1, <1>2, <2>1, <3>1, L1Stays DEF Pages!Put
  <2>3. QED
    BY <1>1, <1>2, <2>1, <2>2, L2Stays, LoadsStay DEF PagesInv
<1>4. CASE Pages!StartLoad(p)
  <2>1. UNCHANGED <<l2, l1>> /\ loads' = [loads EXCEPT ![p] = Pages!Put(@, Pages!VersionRead(p), {})]
    BY <1>4 DEF Pages!StartLoad
  <2>2. SoundLoad(Pages!VersionRead(p), {})
    BY <1>1, ReadIsNumbered DEF SoundLoad
  <2>3. LoadsFit'
    BY <1>1, <1>2, <2>1, <2>2, LoadsStay DEF Pages!Put
  <2>4. QED
    BY <1>1, <1>2, <2>1, <2>3, L2Stays, L1Stays DEF PagesInv
<1>5. ASSUME NEW v \in DOMAIN loads[p], Pages!ReadDatabase(p, v) PROVE PagesInv'
  <2>1. UNCHANGED <<l2, l1>> /\ loads' = [loads EXCEPT ![p][v] = {committed}]
    BY <1>5 DEF Pages!ReadDatabase
  <2>2. SoundLoad(v, {committed})
    BY <1>2, <1>5 DEF PagesInv, LoadsFit, SoundLoad, Sound
  <2>3. LoadsFit'
    BY <1>1, <1>2, <1>5, <2>1, <2>2, LoadsStay
  <2>4. QED
    BY <1>1, <1>2, <2>1, <2>3, L2Stays, L1Stays DEF PagesInv
<1>6. ASSUME NEW v \in DOMAIN loads[p], Pages!StorePage(p, v) PROVE PagesInv'
  <2>1. PICK c \in loads[p][v] :
          /\ l1' = [l1 EXCEPT ![p] = Pages!Put(@, v, c)]
          /\ l2' = IF reach[p] THEN Pages!Put(l2, v, c) ELSE l2
    BY <1>6 DEF Pages!StorePage, Pages!StoreUnder
  <2>2. Sound(v, c)
    BY <1>6, <2>1 DEF PagesInv, LoadsFit, SoundLoad
  <2>3. loads' = [loads EXCEPT ![p] = Pages!Without(@, v)]
    BY <1>6 DEF Pages!StorePage
  <2>4. LoadsFit'
    BY <1>1, <1>2, <2>3, LoadsStay DEF Pages!Without
  <2>5. L1Fits'
    BY <1>1, <1>2, <2>1, <2>2, L1Stays DEF Pages!Put
  <2>6. L2Fits'
    BY <1>1, <2>1, <2>2, L2Stays DEF Pages!Put
  <2>7. QED
    BY <1>1, <2>4, <2>5, <2>6 DEF PagesInv
<1>7. ASSUME NEW v \in DOMAIN l1[p], Pages!ExpireInMemory(p, v) PROVE PagesInv'
  <2>1. UNCHANGED <<l2, loads>> /\ l1' = [l1 EXCEPT ![p] = Pages!Without(@, v)]
    BY <1>7 DEF Pages!ExpireInMemory
  <2>2. L1Fits'
    BY <1>1, <1>2, <2>1, L1Stays DEF Pages!Without
  <2>3. QED
    BY <1>1, <1>2, <2>1, <2>2, L2Stays, LoadsStay DEF PagesInv
<1>8. QED
  BY <1>3, <1>4, <1>5, <1>6, <1>7

(* A step that stores no page: a process may lose those it holds.          *)
LEMMA PagesElse ==
  ASSUME PagesInv, ScopeFits', ScopeMoves, UNCHANGED l2, NEW p,
         l1' = [l1 EXCEPT ![p] = Pages!Nothing] \/ UNCHANGED l1,
         loads' = [loads EXCEPT ![p] = Pages!Nothing] \/ UNCHANGED loads
  PROVE  PagesInv'
<1>1. DOMAIN l1 = Servers /\ DOMAIN loads = Servers
  BY DEF PagesInv, L1Fits, LoadsFit
<1>2. L1Fits'
  BY <1>1, L1Stays DEF Pages!Nothing
<1>3. LoadsFit'
  BY <1>1, LoadsStay DEF Pages!Nothing
<1>4. L2Fits'
  BY L2Stays
<1>5. QED
  BY <1>2, <1>3, <1>4 DEF PagesInv

LEMMA PagesAnnounce ==
  ASSUME PagesInv, NEW p \in Processes, NEW n \in 1..committed, Pages!Announce(p, n)
  PROVE  PagesInv'
<1>1. /\ bumps' = bumps + 1 /\ bumps < MaxBumps /\ bumps' \in 0..MaxBumps
      /\ l1' = [l1 EXCEPT ![p] = Pages!Nothing] /\ UNCHANGED <<committed, l2, loads>>
  BY StorefrontBounds DEF PagesInv, ScopeFits, Pages!Announce
<1>2. reach' \in [Processes -> BOOLEAN]
  BY DEF PagesInv, ScopeFits, Pages!Announce, Pages!Fails
<1>3. CASE Pages!Increment(n) /\ firsts' \subseteq firsts \cup (IF counter = 0 THEN {p} ELSE {})
  <2>1. counter' = counter + 1 /\ (reused => reused') /\ (counter = 0 => reused') /\ reused' \in BOOLEAN
    BY <1>3 DEF Pages!Increment, PagesInv, ScopeFits
  <2>2. announced' \in 0..committed'
    BY <1>1, <1>3 DEF Pages!Increment, PagesInv, ScopeFits
  <2>3. counter' \in 0..(2 + bumps') /\ counter' # 0
    BY <1>1, <2>1 DEF PagesInv, ScopeFits
  <2>4. firsts' \subseteq Processes /\ (~reused' => firsts' = {})
    BY <1>3, <2>1 DEF PagesInv, ScopeFits
  <2>5. ScopeFits'
    BY <1>1, <1>2, <2>1, <2>2, <2>3, <2>4 DEF PagesInv, ScopeFits
  <2>6. ScopeMoves
    BY <1>1, <2>1 DEF ScopeMoves
  <2>7. QED
    BY <1>1, <2>5, <2>6, PagesElse
<1>4. CASE UNCHANGED <<Pages!version, firsts>>
  <2>1. UNCHANGED <<counter, announced, reused, firsts>>
    BY <1>4 DEF Pages!version
  <2>2. counter' \in 0..(2 + bumps')
    BY <1>1, <2>1 DEF PagesInv, ScopeFits
  <2>3. ScopeFits'
    BY <1>1, <1>2, <2>1, <2>2 DEF PagesInv, ScopeFits
  <2>4. ScopeMoves
    BY <1>1, <2>1 DEF ScopeMoves, PagesInv, ScopeFits
  <2>5. QED
    BY <1>1, <2>3, <2>4, PagesElse
<1>5. QED
  BY <1>3, <1>4 DEF Pages!Announce, Pages!Fails

LEMMA PagesWriteOne ==
  ASSUME PagesInv, NEW p \in Processes, Pages!WriteOne(p)
  PROVE  PagesInv'
<1>1. /\ reused = TRUE /\ reused' = TRUE /\ counter' \in {1, counter} /\ firsts' \subseteq Processes
      /\ UNCHANGED <<committed, l2, l1, loads, announced, reach, bumps>>
  BY DEF PagesInv, ScopeFits, Pages!WriteOne, Pages!caches
<1>2. counter' \in 0..(2 + bumps)
  BY <1>1 DEF PagesInv, ScopeFits
<1>3. ScopeFits'
  BY <1>1, <1>2 DEF PagesInv, ScopeFits
<1>4. ScopeMoves
  BY <1>1 DEF ScopeMoves
<1>5. QED
  BY <1>1, <1>3, <1>4, PagesElse

LEMMA PagesStep == PagesInv /\ Pages!Next => PagesInv'
<1> SUFFICES ASSUME PagesInv, Pages!Next PROVE PagesInv'
  OBVIOUS
<1>1. ASSUME Pages!Change PROVE PagesInv'
  <2>1. /\ committed' = committed + 1 /\ committed' \in 0..MaxChanges
        /\ UNCHANGED <<l2, l1, loads, counter, announced, reused, firsts, reach, bumps>>
    BY <1>1, StorefrontBounds DEF PagesInv, ScopeFits, Pages!Change, Pages!caches, Pages!version
  <2>2. announced' \in 0..committed'
    BY <2>1 DEF PagesInv, ScopeFits
  <2>3. ScopeFits'
    BY <2>1, <2>2 DEF PagesInv, ScopeFits
  <2>4. ScopeMoves
    BY <2>1 DEF PagesInv, ScopeFits, ScopeMoves
  <2>5. QED
    BY <2>1, <2>3, <2>4, PagesElse
<1>2. ASSUME NEW p \in Processes, Pages!Outage(p) \/ Pages!CircuitCloses(p) \/ Pages!Crash(p)
      PROVE  PagesInv'
  <2>1. /\ UNCHANGED <<committed, Pages!version, bumps, l2>> /\ firsts' \subseteq firsts
        /\ l1' = [l1 EXCEPT ![p] = Pages!Nothing] \/ UNCHANGED l1
        /\ loads' = [loads EXCEPT ![p] = Pages!Nothing] \/ UNCHANGED loads
    BY <1>2 DEF Pages!Outage, Pages!CircuitCloses, Pages!Crash, Pages!caches, Pages!Fails
  <2>2. reach' \in [Processes -> BOOLEAN]
    BY <1>2 DEF PagesInv, ScopeFits, Pages!Outage, Pages!CircuitCloses, Pages!Crash, Pages!Fails
  <2>3. ScopeFits' /\ ScopeMoves
    BY <2>1, <2>2, ScopeSame DEF PagesInv
  <2>4. QED
    BY <2>1, <2>3, PagesElse
<1>3. ASSUME NEW v \in DOMAIN l2, Pages!ExpireInRedis(v) PROVE PagesInv'
  <2>1. /\ UNCHANGED <<committed, Pages!version, bumps, l1, loads, firsts, reach>>
        /\ l2' = Pages!Without(l2, v)
    BY <1>3 DEF Pages!ExpireInRedis
  <2>2. ScopeFits' /\ ScopeMoves
    BY <2>1, ScopeSame DEF PagesInv, ScopeFits
  <2>3. L2Fits'
    BY <2>1, <2>2, L2Stays DEF Pages!Without
  <2>4. DOMAIN l1 = Servers /\ DOMAIN loads = Servers
    BY DEF PagesInv, L1Fits, LoadsFit
  <2>5. QED
    BY <2>1, <2>2, <2>3, <2>4, L1Stays, LoadsStay DEF PagesInv
<1>4. QED
  BY <1>1, <1>2, <1>3, PagesServe, PagesAnnounce, PagesWriteOne DEF Pages!Next

LEMMA PagesAreTyped == PagesInv => Pages!TypeOK
<1> SUFFICES ASSUME PagesInv PROVE Pages!TypeOK
  OBVIOUS
<1>1. ASSUME NEW v, Numbered(v) PROVE v \in 1..Pages!MaxVersion
  BY <1>1, StorefrontBounds DEF PagesInv, ScopeFits, Numbered, Pages!MaxVersion
<1>2. counter \in 0..Pages!MaxVersion
  BY StorefrontBounds DEF PagesInv, ScopeFits, Pages!MaxVersion
<1>3. /\ \A v \in DOMAIN l2 : l2[v] \in 0..committed /\ Numbered(v)
      /\ \A p \in Servers :
           /\ \A v \in DOMAIN l1[p] : l1[p][v] \in 0..committed /\ Numbered(v)
           /\ \A v \in DOMAIN loads[p] :
                loads[p][v] \in {{}} \cup {{n} : n \in 0..committed} /\ Numbered(v)
  BY DEF PagesInv, L2Fits, L1Fits, LoadsFit, Sound, SoundLoad
<1>4. Pages!Versions \subseteq 1..Pages!MaxVersion
  BY <1>1, <1>3 DEF Pages!Versions
<1>5. QED
  BY <1>2, <1>3, <1>4 DEF PagesInv, ScopeFits, Pages!TypeOK

LEMMA PagesAreServed == PagesInv => AnnouncedIsServed
<1> SUFFICES ASSUME PagesInv, ~reused, NEW c \in Pages!Served PROVE c >= announced
  BY DEF AnnouncedIsServed, Pages!AnnouncedIsServed
<1>1. \/ Pages!InForce \in DOMAIN l2 /\ c = l2[Pages!InForce]
      \/ \E p \in Servers : Pages!InForce \in DOMAIN l1[p] /\ c = l1[p][Pages!InForce]
      \/ \E p \in Servers : Pages!InForce \in DOMAIN loads[p] /\ c \in loads[p][Pages!InForce]
  BY DEF Pages!Served
<1>2. Sound(Pages!InForce, c)
  BY <1>1 DEF PagesInv, L2Fits, L1Fits, LoadsFit, SoundLoad
<1>3. QED
  BY <1>2 DEF Sound

-----------------------------------------------------------------------------
(* CatalogueEvents.  A change has been delivered once its entry has been   *)
(* added: it waits in the stream or at a consumer, or has come to an end.  *)
(* What a relay has added, or has marked as published, has been delivered. *)
Elements(s) == {s[i] : i \in 1..Len(s)}

Delivered(n) ==
  \/ n \in applied \cup lost \cup Elements(stream)
  \/ \E p \in Processes : n \in Elements(taken[p])

EventRow == [status : {"PENDING", "FAILED", "PUBLISHED", "DEAD_LETTER"}, attempts : Nat]

Relaying == [of : Nat, attempts : Nat, added : BOOLEAN]

RowsFit ==
  /\ changes \in 0..MaxEvents
  /\ DOMAIN rows \subseteq 1..changes /\ rows \in [DOMAIN rows -> EventRow]
  /\ \A n \in DOMAIN rows : rows[n].status = "PUBLISHED" => Delivered(n)

RecordsFit ==
  /\ records \subseteq [at : Processes, of : 1..changes]
  /\ \A r \in records : r.of \notin DOMAIN rows /\ \A q \in records : q.of = r.of => q = r

BatchFits(s) == s \in Seq(Relaying) /\ \A i \in 1..Len(s) : s[i].of \in DOMAIN rows /\ (s[i].added => Delivered(s[i].of))

EntriesFit ==
  /\ stream \in Seq(Nat) /\ Elements(stream) \subseteq DOMAIN rows
  /\ taken \in [Processes -> Seq(Nat)] /\ \A p \in Processes : Elements(taken[p]) \subseteq DOMAIN rows
  /\ applied \cup lost \subseteq DOMAIN rows

EventsInv ==
  /\ RowsFit /\ RecordsFit /\ EntriesFit
  /\ DOMAIN batch = Processes /\ \A p \in Processes : BatchFits(batch[p])

LEMMA EventsInit == Events!Init => EventsInv
<1> SUFFICES ASSUME Events!Init PROVE EventsInv
  OBVIOUS
<1>1. RowsFit
  BY StorefrontBounds DEF Events!Init, Events!NoRows, RowsFit
<1>2. RecordsFit
  BY DEF Events!Init, RecordsFit
<1>3. EntriesFit
  BY DEF Events!Init, EntriesFit, Elements
<1>4. DOMAIN batch = Processes /\ \A p \in Processes : BatchFits(batch[p])
  BY DEF Events!Init, BatchFits
<1>5. QED
  BY <1>1, <1>2, <1>3, <1>4 DEF EventsInv

LEMMA HeadAndTail ==
  ASSUME NEW S, NEW s \in Seq(S), s # << >>
  PROVE  /\ Head(s) \in S /\ Head(s) = s[1] /\ Tail(s) \in Seq(S) /\ Len(s) \in Nat \ {0}
         /\ \A i \in 1..Len(Tail(s)) : i + 1 \in 1..Len(s) /\ Tail(s)[i] = s[i + 1]
         /\ Elements(s) = {Head(s)} \cup Elements(Tail(s))
<1>1. /\ Head(s) \in S /\ Head(s) = s[1] /\ Tail(s) \in Seq(S) /\ Len(s) \in Nat \ {0}
      /\ Len(Tail(s)) = Len(s) - 1
  BY HeadTailProperties, EmptySeq
<1>2. \A i \in 1..Len(Tail(s)) : i + 1 \in 1..Len(s) /\ Tail(s)[i] = s[i + 1]
  BY <1>1, HeadTailProperties
<1>3. ASSUME NEW i \in 1..Len(s), i # 1 PROVE s[i] \in Elements(Tail(s))
  <2>1. i - 1 \in 1..Len(Tail(s)) /\ (i - 1) + 1 = i
    BY <1>1, <1>3
  <2>2. Tail(s)[i - 1] = s[i]
    BY <1>2, <2>1
  <2>3. QED
    BY <2>1, <2>2 DEF Elements
<1>4. Elements(s) \subseteq {Head(s)} \cup Elements(Tail(s))
  BY <1>1, <1>3 DEF Elements
<1>5. {Head(s)} \cup Elements(Tail(s)) \subseteq Elements(s)
  BY <1>1, <1>2 DEF Elements
<1>6. QED
  BY <1>1, <1>2, <1>4, <1>5

LEMMA Appended ==
  ASSUME NEW S, NEW s \in Seq(S), NEW e \in S
  PROVE  Append(s, e) \in Seq(S) /\ Elements(Append(s, e)) = Elements(s) \cup {e}
<1>1. /\ Append(s, e) \in Seq(S) /\ Len(s) \in Nat /\ Len(Append(s, e)) = Len(s) + 1
      /\ \A i \in 1..Len(s) : Append(s, e)[i] = s[i]
      /\ Append(s, e)[Len(s) + 1] = e
  BY AppendProperties, LenProperties
<1>2. 1..(Len(s) + 1) = 1..Len(s) \cup {Len(s) + 1}
  BY <1>1
<1>3. QED
  BY <1>1, <1>2 DEF Elements

LEMMA IsToSet ==
  ASSUME NEW S, NEW s \in Seq(S)
  PROVE  Events!ToSet(s) = Elements(s)
  BY LenProperties DEF Events!ToSet, Elements

(* Nothing that has been delivered is forgotten.                           *)
Remembers == \A n : Delivered(n) => Delivered(n)'

LEMMA BatchStays ==
  ASSUME Remembers, DOMAIN rows \subseteq DOMAIN rows', NEW s, BatchFits(s)
  PROVE  BatchFits(s)'
<1>1. ASSUME NEW i \in 1..Len(s) PROVE s[i].of \in DOMAIN rows' /\ (s[i].added => Delivered(s[i].of)')
  <2>1. PICK n : n = s[i].of
    OBVIOUS
  <2>2. n \in DOMAIN rows' /\ (s[i].added => Delivered(n)')
    BY <2>1 DEF BatchFits, Remembers
  <2>3. QED
    BY <2>1, <2>2
<1>2. QED
  BY <1>1 DEF BatchFits

LEMMA RowAdded ==
  ASSUME RowsFit, Remembers, NEW m, m \notin DOMAIN rows, m \in 1..changes', changes' \in 0..MaxEvents,
         changes \in 0..changes', Events!AddRow(m)
  PROVE  RowsFit' /\ DOMAIN rows' = DOMAIN rows \cup {m}
<1>1. rows' = [n \in DOMAIN rows \cup {m} |-> IF n = m THEN [status |-> "PENDING", attempts |-> 0] ELSE rows[n]]
  BY DEF Events!AddRow
<1>2. [status |-> "PENDING", attempts |-> 0] \in EventRow
  BY DEF EventRow
<1>3. DOMAIN rows' \subseteq 1..changes' /\ rows' \in [DOMAIN rows' -> EventRow]
  BY <1>1, <1>2 DEF RowsFit
<1>4. \A n \in DOMAIN rows' : rows'[n].status = "PUBLISHED" => Delivered(n)'
  BY <1>1 DEF RowsFit, Remembers
<1>5. QED
  BY <1>1, <1>3, <1>4 DEF RowsFit

LEMMA RowWritten ==
  ASSUME RowsFit, Remembers, NEW m \in DOMAIN rows, NEW row \in EventRow,
         row.status = "PUBLISHED" => Delivered(m)',
         UNCHANGED changes, rows' = [rows EXCEPT ![m] = row]
  PROVE  RowsFit' /\ DOMAIN rows' = DOMAIN rows
<1>1. DOMAIN rows' = DOMAIN rows /\ rows' \in [DOMAIN rows -> EventRow]
  BY DEF RowsFit
<1>2. \A n \in DOMAIN rows : rows'[n].status = "PUBLISHED" => Delivered(n)'
  BY DEF RowsFit, Remembers
<1>3. QED
  BY <1>1, <1>2 DEF RowsFit

(* A change is written, or its event is.                                   *)
LEMMA EventsWrite ==
  ASSUME EventsInv,
         \/ Events!CreateProduct
         \/ \E r \in records : Events!RecordCatalogChange(r)
         \/ \E p \in Processes : Events!UpdateProduct(p)
  PROVE  EventsInv'
<1>1. UNCHANGED <<batch, stream, taken, applied, lost>>
  BY DEF Events!CreateProduct, Events!RecordCatalogChange, Events!UpdateProduct
<1>2. Remembers
  BY <1>1 DEF Remembers, Delivered
<1>3. /\ changes \in 0..MaxEvents /\ DOMAIN rows \subseteq 1..changes /\ RowsFit /\ RecordsFit
      /\ records \subseteq [at : Processes, of : 1..changes]
  BY DEF EventsInv, RowsFit, RecordsFit
<1>4. ASSUME RowsFit', RecordsFit', DOMAIN rows \subseteq DOMAIN rows' PROVE EventsInv'
  <2>1. EntriesFit'
    BY <1>1, <1>4 DEF EventsInv, EntriesFit
  <2>2. QED
    BY <1>1, <1>2, <1>4, <2>1, BatchStays DEF EventsInv
<1>5. CASE Events!CreateProduct
  <2>1. changes' = changes + 1 /\ changes < MaxEvents /\ UNCHANGED records /\ Events!AddRow(changes + 1)
    BY <1>5 DEF Events!CreateProduct
  <2>2. PICK m \in Nat : m = changes + 1
    BY <1>3
  <2>3. m \notin DOMAIN rows /\ m \in 1..changes' /\ changes' \in 0..MaxEvents /\ changes \in 0..changes'
    BY <1>3, <2>1, <2>2, StorefrontBounds
  <2>4. RowsFit' /\ DOMAIN rows' = DOMAIN rows \cup {m}
    BY <1>2, <1>3, <2>1, <2>2, <2>3, RowAdded
  <2>5. RecordsFit'
    BY <1>3, <2>1, <2>2, <2>4 DEF RecordsFit
  <2>6. QED
    BY <1>4, <2>4, <2>5
<1>6. ASSUME NEW r \in records, Events!RecordCatalogChange(r) PROVE EventsInv'
  <2>1. UNCHANGED changes /\ records' = records \ {r}
    BY <1>6 DEF Events!RecordCatalogChange
  <2>2. CASE UNCHANGED rows
    BY <1>2, <1>3, <1>4, <2>1, <2>2 DEF RowsFit, RecordsFit, Remembers
  <2>3. CASE Events!AddRow(r.of)
    <3>1. PICK m : m = r.of /\ m \in 1..changes /\ m \notin DOMAIN rows
      BY <1>3 DEF RecordsFit
    <3>2. RowsFit' /\ DOMAIN rows' = DOMAIN rows \cup {m}
      BY <1>2, <1>3, <2>1, <2>3, <3>1, RowAdded
    <3>3. RecordsFit'
      BY <1>3, <2>1, <3>1, <3>2 DEF RecordsFit
    <3>4. QED
      BY <1>4, <3>2, <3>3
  <2>4. QED
    BY <1>6, <2>2, <2>3 DEF Events!RecordCatalogChange
<1>7. ASSUME NEW p \in Processes, Events!UpdateProduct(p) PROVE EventsInv'
  <2>1. /\ changes' = changes + 1 /\ changes < MaxEvents /\ UNCHANGED rows
        /\ records' = records \cup {[at |-> p, of |-> changes + 1]}
    BY <1>7 DEF Events!UpdateProduct
  <2>2. changes' \in 0..MaxEvents /\ 1..changes \subseteq 1..changes' /\ changes + 1 \in 1..changes'
        /\ changes + 1 \notin 1..changes
    BY <1>3, <2>1, StorefrontBounds
  <2>3. RowsFit'
    BY <1>2, <1>3, <2>1, <2>2 DEF RowsFit, Remembers
  <2>4. RecordsFit'
    BY <1>3, <2>1, <2>2 DEF RecordsFit
  <2>5. QED
    BY <1>4, <2>1, <2>3, <2>4
<1>8. QED
  BY <1>5, <1>6, <1>7

(* Any other step writes to rows that are there.                           *)
LEMMA EventsElse ==
  ASSUME EventsInv, Remembers, UNCHANGED changes, records' \subseteq records,
         RowsFit', DOMAIN rows' = DOMAIN rows, EntriesFit', DOMAIN batch' = Processes,
         \A p \in Processes : batch'[p] = batch[p] \/ BatchFits(batch[p])'
  PROVE  EventsInv'
<1>1. RecordsFit'
  BY DEF EventsInv, RecordsFit
<1>2. \A p \in Processes : BatchFits(batch[p])'
  <2>1. SUFFICES ASSUME NEW p \in Processes, batch'[p] = batch[p] PROVE BatchFits(batch[p])'
    OBVIOUS
  <2>2. PICK s : s = batch[p] /\ BatchFits(s)
    BY DEF EventsInv
  <2>3. BatchFits(s)'
    BY <2>2, BatchStays
  <2>4. QED
    BY <2>1, <2>2, <2>3
<1>3. QED
  BY <1>1, <1>2 DEF EventsInv

LEMMA RowsStay ==
  ASSUME RowsFit, Remembers, UNCHANGED <<rows, changes>>
  PROVE  RowsFit'
  BY DEF RowsFit, Remembers

LEMMA EventsRead ==
  ASSUME EventsInv, NEW p \in Processes, Events!ReadOutbox(p)
  PROVE  EventsInv'
<1>1. UNCHANGED <<changes, records, rows, stream, taken, applied, lost>>
  BY DEF Events!ReadOutbox
<1>2. Remembers
  BY <1>1 DEF Remembers, Delivered
<1>3. PICK order \in Events!Orders(Events!Due) :
        batch' = [batch EXCEPT ![p] =
          [i \in DOMAIN order |-> [of |-> order[i], attempts |-> rows[order[i]].attempts, added |-> FALSE]]]
  BY DEF Events!ReadOutbox
<1>4. Cardinality(Events!Due) \in Nat
  <2>1. Events!Due \in SUBSET (1..changes) /\ changes \in Int /\ 1 \in Int
    BY DEF Events!Due, EventsInv, RowsFit
  <2>2. IsFiniteSet(1..changes)
    BY <2>1, FS_Interval
  <2>3. IsFiniteSet(Events!Due)
    BY <2>1, <2>2, FS_Subset
  <2>4. QED
    BY <2>3, FS_CardinalityType
<1>5. PICK k \in Nat : k = Cardinality(Events!Due)
  BY <1>4
<1>6. DOMAIN order = 1..k /\ \A i \in 1..k : order[i] \in Events!Due
  <2>1. order \in [1..Cardinality(Events!Due) -> Events!Due]
    BY <1>3 DEF Events!Orders, Events!Cardinality, Cardinality
  <2>2. QED
    BY <1>5, <2>1
<1>7. PICK s : s = [i \in 1..k |-> [of |-> order[i], attempts |-> rows[order[i]].attempts, added |-> FALSE]]
  OBVIOUS
<1>8. batch' = [batch EXCEPT ![p] = s]
  BY <1>3, <1>6, <1>7
<1>9. BatchFits(s)
  <2>1. ASSUME NEW i \in 1..k PROVE s[i] \in Relaying /\ s[i].of \in DOMAIN rows /\ s[i].added = FALSE
    <3>1. order[i] \in DOMAIN rows /\ order[i] \in Nat /\ rows[order[i]].attempts \in Nat
      BY <1>6 DEF Events!Due, EventsInv, RowsFit, EventRow
    <3>2. s[i] = [of |-> order[i], attempts |-> rows[order[i]].attempts, added |-> FALSE]
      BY <1>7
    <3>3. QED
      BY <3>1, <3>2 DEF Relaying
  <2>2. s \in [1..k -> Relaying]
    BY <1>7, <2>1
  <2>3. s \in Seq(Relaying) /\ Len(s) = k
    BY <2>2
  <2>4. QED
    BY <2>1, <2>3 DEF BatchFits
<1>10. BatchFits(s)'
  BY <1>1, <1>2, <1>9, BatchStays
<1>11. DOMAIN batch' = Processes /\ \A q \in Processes : batch'[q] = batch[q] \/ BatchFits(batch[q])'
  BY <1>8, <1>10 DEF EventsInv
<1>12. RowsFit' /\ EntriesFit'
  BY <1>1, <1>2, RowsStay DEF EventsInv, EntriesFit
<1>13. QED
  BY <1>1, <1>2, <1>11, <1>12, EventsElse

(* The head of a batch leaves it.                                          *)
LEMMA BatchShrinks ==
  ASSUME EventsInv, Remembers, DOMAIN rows' = DOMAIN rows, NEW p \in Processes, batch[p] # << >>, Events!Relayed(p)
  PROVE  DOMAIN batch' = Processes /\ \A q \in Processes : batch'[q] = batch[q] \/ BatchFits(batch[q])'
<1>1. DOMAIN batch = Processes /\ batch' = [batch EXCEPT ![p] = Tail(batch[p])]
  BY DEF EventsInv, Events!Relayed
<1>2. PICK s : s = batch[p] /\ BatchFits(s) /\ s # << >> /\ s \in Seq(Relaying)
  BY DEF EventsInv, BatchFits
<1>3. PICK rest : rest = Tail(s)
  OBVIOUS
<1>4. BatchFits(rest)
  BY <1>2, <1>3, HeadAndTail DEF BatchFits
<1>5. BatchFits(rest)'
  BY <1>4, BatchStays
<1>6. QED
  BY <1>1, <1>2, <1>3, <1>5

(* The row that a relay is at is there, and may be counted as tried again. *)
LEMMA HeadFits ==
  ASSUME EventsInv, NEW p \in Processes, batch[p] # << >>
  PROVE  /\ Head(batch[p]) = batch[p][1] /\ Head(batch[p]) \in Relaying /\ 1 \in 1..Len(batch[p])
         /\ Head(batch[p]).of \in DOMAIN rows
         /\ Head(batch[p]).added => Delivered(Head(batch[p]).of)
<1>1. PICK s : s = batch[p] /\ BatchFits(s) /\ s # << >> /\ s \in Seq(Relaying)
  BY DEF EventsInv, BatchFits
<1>2. Head(s) = s[1] /\ Head(s) \in Relaying /\ 1 \in 1..Len(s)
  BY <1>1, HeadAndTail
<1>3. s[1].of \in DOMAIN rows /\ (s[1].added => Delivered(s[1].of))
  BY <1>1, <1>2 DEF BatchFits
<1>4. QED
  BY <1>1, <1>2, <1>3

LEMMA EventsMark ==
  ASSUME EventsInv, NEW p \in Processes, Events!MarkPublished(p)
  PROVE  EventsInv'
<1>1. UNCHANGED <<changes, records, stream, taken, applied, lost>> /\ batch[p] # << >>
  BY DEF Events!MarkPublished
<1>2. Remembers
  BY <1>1 DEF Remembers, Delivered
<1>3. PICK m : m = Head(batch[p]).of /\ m \in DOMAIN rows /\ Delivered(m)
  BY <1>1, HeadFits DEF Events!MarkPublished
<1>4. PICK row : row = [status |-> "PUBLISHED", attempts |-> rows[m].attempts + 1]
  OBVIOUS
<1>5. row \in EventRow
  <2>1. rows[m].attempts \in Nat
    BY <1>3 DEF EventsInv, RowsFit, EventRow
  <2>2. QED
    BY <1>4, <2>1 DEF EventRow
<1>6. rows' = [rows EXCEPT ![m] = row]
  BY <1>3, <1>4 DEF Events!MarkPublished
<1>7. Delivered(m)'
  BY <1>2, <1>3 DEF Remembers
<1>8. RowsFit' /\ DOMAIN rows' = DOMAIN rows
  BY <1>1, <1>2, <1>3, <1>5, <1>6, <1>7, RowWritten DEF EventsInv
<1>9. EntriesFit'
  BY <1>1, <1>8 DEF EventsInv, EntriesFit
<1>10. Events!Relayed(p)
  BY DEF Events!MarkPublished
<1>11. QED
  BY <1>1, <1>2, <1>8, <1>9, <1>10, BatchShrinks, EventsElse

(* The entry of m is added to the stream, or not.                          *)
LEMMA StreamGrows ==
  ASSUME EventsInv, NEW m \in DOMAIN rows, DOMAIN rows' = DOMAIN rows, UNCHANGED <<taken, applied, lost>>,
         stream' \in {stream, Append(stream, m)}
  PROVE  Remembers /\ EntriesFit' /\ (stream' = Append(stream, m) => Delivered(m)')
<1>1. m \in Nat /\ stream \in Seq(Nat) /\ Elements(stream) \subseteq DOMAIN rows
  BY DEF EventsInv, EntriesFit, RowsFit
<1>2. Append(stream, m) \in Seq(Nat) /\ Elements(Append(stream, m)) = Elements(stream) \cup {m}
  BY <1>1, Appended
<1>3. /\ stream' \in Seq(Nat) /\ Elements(stream') \subseteq DOMAIN rows /\ Elements(stream) \subseteq Elements(stream')
      /\ stream' = Append(stream, m) => m \in Elements(stream')
  BY <1>1, <1>2
<1>4. EntriesFit'
  BY <1>3 DEF EventsInv, EntriesFit
<1>5. Remembers /\ (stream' = Append(stream, m) => Delivered(m)')
  BY <1>3 DEF Remembers, Delivered
<1>6. QED
  BY <1>4, <1>5

LEMMA EventsPublish ==
  ASSUME EventsInv, NEW p \in Processes, Events!PublishOne(p)
  PROVE  EventsInv'
<1>1. UNCHANGED <<changes, records, taken, applied, lost>> /\ batch[p] # << >>
  BY DEF Events!PublishOne
<1>2. PICK head : head = Head(batch[p]) /\ head = batch[p][1] /\ head \in Relaying
  BY <1>1, HeadFits
<1>3. PICK m : m = head.of /\ m \in DOMAIN rows
  BY <1>1, <1>2, HeadFits
<1>4. CASE stream' = Append(stream, m) /\ batch' = [batch EXCEPT ![p][1].added = TRUE] /\ UNCHANGED rows
  <2>1. Remembers /\ EntriesFit' /\ Delivered(m)'
    BY <1>1, <1>3, <1>4, StreamGrows
  <2>2. RowsFit'
    BY <1>1, <1>4, <2>1, RowsStay DEF EventsInv
  <2>3. PICK s : s = batch[p] /\ BatchFits(s) /\ s \in Seq(Relaying) /\ 1 \in 1..Len(s)
    BY <1>1, HeadFits DEF EventsInv, BatchFits
  <2>4. PICK row : row = [head EXCEPT !.added = TRUE]
    OBVIOUS
  <2>5. row \in Relaying /\ row.of = m
    BY <1>2, <1>3, <2>4 DEF Relaying
  <2>6. PICK t : t = [s EXCEPT ![1] = row]
    OBVIOUS
  <2>7. DOMAIN batch = Processes /\ batch' = [batch EXCEPT ![p] = t]
    BY <1>2, <1>4, <2>3, <2>4, <2>6 DEF EventsInv
  <2>8. /\ t \in Seq(Relaying) /\ Len(t) = Len(s)
        /\ \A i \in 1..Len(s) : t[i] = IF i = 1 THEN row ELSE s[i]
    BY <2>3, <2>5, <2>6, ExceptSeq
  <2>9. BatchFits(s)'
    BY <1>4, <2>1, <2>3, BatchStays
  <2>10. BatchFits(t)'
    <3>1. ASSUME NEW i \in 1..Len(t) PROVE t[i].of \in DOMAIN rows' /\ (t[i].added => Delivered(t[i].of)')
      <4>1. CASE i = 1
        <5>1. t[i].of = m
          BY <2>5, <2>8, <4>1
        <5>2. QED
          BY <1>3, <1>4, <2>1, <5>1
      <4>2. CASE i # 1
        BY <2>8, <2>9, <4>2 DEF BatchFits
      <4>3. QED
        BY <4>1, <4>2
    <3>2. QED
      BY <2>8, <3>1 DEF BatchFits
  <2>11. DOMAIN batch' = Processes /\ \A q \in Processes : batch'[q] = batch[q] \/ BatchFits(batch[q])'
    BY <2>7, <2>10
  <2>12. QED
    BY <1>1, <1>4, <2>1, <2>2, <2>11, EventsElse
<1>5. CASE stream' \in {stream, Append(stream, m)} /\ Events!RecordFailure(head) /\ Events!Relayed(p)
  <2>1. PICK row : row = [attempts |-> rows[m].attempts + 1,
                          status |-> IF head.attempts + 1 >= MaxAttempts THEN "DEAD_LETTER" ELSE "FAILED"]
    OBVIOUS
  <2>2. row \in EventRow /\ row.status # "PUBLISHED"
    <3>1. rows[m].attempts \in Nat
      BY <1>3 DEF EventsInv, RowsFit, EventRow
    <3>2. rows[m].attempts + 1 \in Nat
      BY <3>1
    <3>3. row.status \in {"DEAD_LETTER", "FAILED"}
      BY <2>1
    <3>4. QED
      BY <2>1, <3>2, <3>3 DEF EventRow
  <2>3. rows' = [rows EXCEPT ![m] = row]
    BY <1>3, <1>5, <2>1 DEF Events!RecordFailure
  <2>4. DOMAIN rows' = DOMAIN rows
    BY <2>3
  <2>5. Remembers /\ EntriesFit'
    BY <1>1, <1>3, <1>5, <2>4, StreamGrows
  <2>6. RowsFit'
    BY <1>1, <1>3, <2>2, <2>3, <2>5, RowWritten DEF EventsInv
  <2>7. DOMAIN batch' = Processes /\ \A q \in Processes : batch'[q] = batch[q] \/ BatchFits(batch[q])'
    BY <1>1, <1>5, <2>4, <2>5, BatchShrinks
  <2>8. QED
    BY <1>1, <2>4, <2>5, <2>6, <2>7, EventsElse
<1>6. QED
  BY <1>2, <1>3, <1>4, <1>5 DEF Events!PublishOne

(* The consumers, faults of Redis and restarts leave the outbox alone.     *)
LEMMA EventsConsume ==
  ASSUME EventsInv, NEW p \in Processes, Events!Consume(p)
  PROVE  EventsInv'
<1>1. UNCHANGED <<changes, records, rows, batch>>
  BY DEF Events!Consume, Events!ConsumeStream, Events!ApplyCatalogEvent
<1>2. /\ stream \in Seq(Nat) /\ taken \in [Processes -> Seq(Nat)] /\ applied \cup lost \subseteq DOMAIN rows
      /\ Elements(stream) \subseteq DOMAIN rows /\ \A q \in Processes : Elements(taken[q]) \subseteq DOMAIN rows
  BY DEF EventsInv, EntriesFit
<1>3. << >> \in Seq(Nat) /\ Elements(<< >>) = {}
  BY DEF Elements
<1>4. CASE Events!ConsumeStream(p)
  <2>1. /\ stream' = << >> /\ UNCHANGED applied /\ taken[p] = << >>
        /\ \/ taken' = [taken EXCEPT ![p] = stream] /\ UNCHANGED lost
           \/ lost' = lost \cup Elements(stream) /\ UNCHANGED taken
    BY <1>2, <1>4, IsToSet DEF Events!ConsumeStream
  <2>2. EntriesFit'
    BY <1>1, <1>2, <1>3, <2>1 DEF EntriesFit
  <2>3. Remembers
    BY <1>2, <1>3, <2>1 DEF Remembers, Delivered
  <2>4. QED
    BY <1>1, <2>2, <2>3, EventsElse, RowsStay DEF EventsInv
<1>5. CASE Events!ApplyCatalogEvent(p)
  <2>1. /\ UNCHANGED stream /\ taken[p] # << >> /\ taken' = [taken EXCEPT ![p] = Tail(taken[p])]
        /\ \/ applied' = applied \cup {Head(taken[p])} /\ UNCHANGED lost
           \/ lost' = lost \cup {Head(taken[p])} /\ UNCHANGED applied
    BY <1>5 DEF Events!ApplyCatalogEvent
  <2>2. PICK s : s = taken[p] /\ s \in Seq(Nat) /\ s # << >> /\ Elements(s) \subseteq DOMAIN rows
    BY <1>2, <2>1
  <2>3. Tail(s) \in Seq(Nat) /\ Elements(s) = {Head(s)} \cup Elements(Tail(s))
    BY <2>2, HeadAndTail
  <2>4. EntriesFit'
    BY <1>1, <1>2, <2>1, <2>2, <2>3 DEF EntriesFit
  <2>5. Remembers
    BY <1>2, <2>1, <2>2, <2>3 DEF Remembers, Delivered
  <2>6. QED
    BY <1>1, <2>4, <2>5, EventsElse, RowsStay DEF EventsInv
<1>6. QED
  BY <1>4, <1>5 DEF Events!Consume

LEMMA EventsFault ==
  ASSUME EventsInv, NEW p \in Processes,
         \/ Events!Outage(p) \/ Events!CircuitCloses(p)
         \/ Events!OutcomeFails(p) \/ Events!ApplyFails(p) \/ Events!Crash(p)
  PROVE  EventsInv'
<1>1. /\ stream \in Seq(Nat) /\ taken \in [Processes -> Seq(Nat)] /\ applied \cup lost \subseteq DOMAIN rows
      /\ Elements(stream) \subseteq DOMAIN rows /\ \A q \in Processes : Elements(taken[q]) \subseteq DOMAIN rows
  BY DEF EventsInv, EntriesFit
<1>2. << >> \in Seq(Nat) /\ Elements(<< >>) = {} /\ BatchFits(<< >>)'
  BY DEF Elements, BatchFits
<1>3. CASE UNCHANGED <<changes, records, rows, batch, stream, taken, applied, lost>>
  <2>1. Remembers /\ EntriesFit'
    BY <1>3 DEF EventsInv, EntriesFit, Remembers, Delivered
  <2>2. QED
    BY <1>3, <2>1, EventsElse, RowsStay DEF EventsInv
<1>4. CASE Events!Crash(p)
  <2>1. /\ records' \subseteq records /\ UNCHANGED <<changes, rows, stream, applied>>
        /\ batch' = [batch EXCEPT ![p] = << >>] /\ taken' = [taken EXCEPT ![p] = << >>]
    BY <1>4 DEF Events!Crash
  <2>2. lost' = lost \cup Elements(taken[p])
    BY <1>1, <1>4, IsToSet DEF Events!Crash
  <2>3. EntriesFit'
    BY <1>1, <1>2, <2>1, <2>2 DEF EntriesFit
  <2>4. Remembers
    BY <1>1, <2>1, <2>2 DEF Remembers, Delivered
  <2>5. DOMAIN batch' = Processes /\ \A q \in Processes : batch'[q] = batch[q] \/ BatchFits(batch[q])'
    <3>1. \A q \in Processes : batch'[q] = batch[q] \/ batch'[q] = << >>
      BY <2>1 DEF EventsInv
    <3>2. QED
      BY <1>2, <2>1, <3>1 DEF EventsInv
  <2>6. QED
    BY <2>1, <2>3, <2>4, <2>5, EventsElse, RowsStay DEF EventsInv
<1>5. CASE Events!OutcomeFails(p)
  <2>1. UNCHANGED <<changes, records, rows, stream, taken, applied, lost>> /\ batch' = [batch EXCEPT ![p] = << >>]
    BY <1>5 DEF Events!OutcomeFails
  <2>2. Remembers /\ EntriesFit'
    BY <2>1 DEF EventsInv, EntriesFit, Remembers, Delivered
  <2>3. DOMAIN batch' = Processes /\ \A q \in Processes : batch'[q] = batch[q] \/ BatchFits(batch[q])'
    <3>1. \A q \in Processes : batch'[q] = batch[q] \/ batch'[q] = << >>
      BY <2>1 DEF EventsInv
    <3>2. QED
      BY <1>2, <2>1, <3>1 DEF EventsInv
  <2>4. QED
    BY <2>1, <2>2, <2>3, EventsElse, RowsStay DEF EventsInv
<1>6. CASE Events!ApplyFails(p)
  <2>1. /\ UNCHANGED <<changes, records, rows, batch, stream>> /\ taken[p] # << >>
        /\ taken' = [taken EXCEPT ![p] = << >>]
    BY <1>6 DEF Events!ApplyFails
  <2>2. PICK s : s = taken[p] /\ s \in Seq(Nat) /\ s # << >> /\ Elements(s) \subseteq DOMAIN rows
    BY <1>1, <2>1
  <2>3. Tail(s) \in Seq(Nat) /\ Elements(s) = {Head(s)} \cup Elements(Tail(s))
    BY <2>2, HeadAndTail
  <2>4. \/ applied' = applied \cup {Head(s)} /\ lost' = lost \cup Elements(Tail(s))
        \/ applied' = applied /\ lost' = lost \cup Elements(s)
    BY <1>6, <2>2, <2>3, IsToSet DEF Events!ApplyFails
  <2>5. EntriesFit'
    BY <1>1, <1>2, <2>1, <2>2, <2>3, <2>4 DEF EntriesFit
  <2>6. Remembers
    BY <1>1, <2>1, <2>2, <2>3, <2>4 DEF Remembers, Delivered
  <2>7. QED
    BY <2>1, <2>5, <2>6, EventsElse, RowsStay DEF EventsInv
<1>7. QED
  BY <1>3, <1>4, <1>5, <1>6 DEF Events!Outage, Events!CircuitCloses

LEMMA EventsStep == EventsInv /\ Events!Next => EventsInv'
  BY EventsWrite, EventsRead, EventsPublish, EventsMark, EventsConsume, EventsFault
     DEF Events!Next, Events!Relay

LEMMA EventsAreTyped == EventsInv => Events!TypeOK
<1> SUFFICES ASSUME EventsInv PROVE Events!TypeOK
  OBVIOUS
<1>1. Events!ToSet(stream) = Elements(stream) /\ \A p \in Processes : Events!ToSet(taken[p]) = Elements(taken[p])
  BY IsToSet DEF EventsInv, EntriesFit
<1>2. QED
  BY <1>1 DEF EventsInv, RowsFit, EventRow, RecordsFit, EntriesFit, Events!TypeOK

LEMMA EventsAreKept == EventsInv => RecordedIsKept
<1> SUFFICES ASSUME EventsInv, NEW n \in DOMAIN rows
             PROVE  \/ n \in applied \cup lost \cup Events!Due \cup Events!ToSet(stream) \/ Events!GivenUp(n)
                    \/ \E p \in Processes : n \in Events!ToSet(taken[p])
  BY DEF RecordedIsKept, Events!RecordedIsKept
<1>1. Events!ToSet(stream) = Elements(stream) /\ \A p \in Processes : Events!ToSet(taken[p]) = Elements(taken[p])
  BY IsToSet DEF EventsInv, EntriesFit
<1>2. rows[n].status \in {"PENDING", "FAILED", "PUBLISHED", "DEAD_LETTER"}
  BY DEF EventsInv, RowsFit, EventRow
<1>3. rows[n].status = "PUBLISHED" => Delivered(n)
  BY DEF EventsInv, RowsFit
<1>4. QED
  BY <1>1, <1>2, <1>3 DEF Delivered, Events!Due, Events!GivenUp

-----------------------------------------------------------------------------
(* SetupPage.  Until a completion of the step has failed, only the request *)
(* of the first completion in the queue may write a step, with contents    *)
(* that are at least as new as those stored and at most as new as those of *)
(* the completions behind it.                                              *)
Contents == 0..MaxEdits

Draft == [value : Contents, version : Nat]

Completion == [step : Steps, value : Contents]

Request ==
  [id : Nat, kind : {"save", "complete", "launch"}, step : 0..LastStep, value : Contents, version : Nat,
   at : {"sent", "read", "done"}, rank : 0..Form!Submitted, answer : Nat]

FormFits ==
  /\ values \in [Steps -> Contents] /\ confirmed \in [Steps -> Contents] /\ stored \in [Steps -> Contents]
  /\ known \in [Steps -> Nat] /\ drafts \in [Steps -> Draft]
  /\ \A s \in Steps : known[s] <= drafts[s].version /\ values[s] <= generation /\ stored[s] <= values[s]
  /\ shown \in 1..Form!Review /\ rank \in 0..Form!Submitted
  /\ generation \in Contents /\ sent \in 0..MaxSent /\ slips \in 0..MaxSlips
  /\ pending # Form!Nothing => pending.step \in Steps /\ pending.value \in Contents
  /\ save.id \in 0..sent /\ completing \in 0..sent /\ (completing # 0 => completions # << >>)
  /\ failed \in Steps \cup {0} /\ unsaved \subseteq told /\ told \subseteq Steps
  /\ saving \in {"idle", "saving", "saved", "error"}
  /\ launch.at \in {"no", "queue", "first", "second", "ready", "sent", "done"}
  /\ launch.at \notin {"no", "queue"} => completions = << >>

QueueFits ==
  /\ completions \in Seq(Completion)
  /\ \A i \in 1..Len(completions) :
       LET c == completions[i]
       IN  /\ c.value <= values[c.step] /\ (c.step \notin told => stored[c.step] <= c.value)
           /\ \A j \in 1..Len(completions) :
                i < j /\ completions[j].step = c.step => c.value <= completions[j].value
  /\ \A s \in Steps \ told :
       \/ stored[s] >= confirmed[s]
       \/ \E i \in 1..Len(completions) : completions[i].step = s /\ completions[i].value >= confirmed[s]

RequestFits(r) ==
  /\ r \in Request /\ r.id \in 1..sent
  /\ r.kind # "launch" => r.step \in Steps /\ r.answer <= drafts[r.step].version
  /\ r.id = save.id => r.kind = "save" /\ r.step = save.step
  /\ r.id = completing => r.kind = "complete" /\ r.step = Head(completions).step
  /\ r.kind = "complete" =>
       /\ r.value <= values[r.step]
       /\ r.step \notin told =>
            /\ r.id = completing /\ r.value = Head(completions).value
            /\ r.answer # 0 => stored[r.step] >= r.value

RequestsFit ==
  /\ \A r \in requests : RequestFits(r)
  /\ \A r, q \in requests : r.id = q.id => r = q

FormInv == FormFits /\ QueueFits /\ RequestsFit

LEMMA FormBounds ==
  /\ LastStep \in Nat \ {0} /\ MaxEdits \in Nat /\ MaxSent \in Nat /\ MaxSlips \in Nat
  /\ Steps = 1..LastStep /\ Form!Steps = Steps /\ Form!Review = LastStep + 1 /\ Form!Submitted = LastStep + 2
  BY OnboardingBounds, StorefrontBounds DEF Steps, Form!Steps, Form!Review, Form!Submitted

LEMMA FormInit == Form!Init => FormInv
<1> SUFFICES ASSUME Form!Init PROVE FormInv
  OBVIOUS
<1>0. rank \in 0..LastStep /\ shown = rank + 1 /\ Form!Steps = 1..LastStep /\ Steps = 1..LastStep /\ LastStep \in Nat
  BY FormBounds DEF Form!Init
<1>1. shown \in 1..Form!Review /\ rank \in 0..Form!Submitted
  BY <1>0, FormBounds
<1>2. /\ values = [s \in Steps |-> 0] /\ confirmed = values /\ stored = values /\ 0 \in Contents
  BY <1>0, FormBounds DEF Form!Init, Contents
<1>3. /\ drafts = [s \in Steps |-> [value |-> 0, version |-> IF s <= rank THEN 1 ELSE 0]]
      /\ known = [s \in Steps |-> drafts[s].version]
  BY <1>0 DEF Form!Init
<1>4. drafts \in [Steps -> Draft] /\ known \in [Steps -> Nat] /\ \A s \in Steps : known[s] <= drafts[s].version
  BY <1>2, <1>3 DEF Draft
<1>5. /\ generation = 0 /\ pending = Form!Nothing /\ save = Form!NoSave
      /\ completions = << >> /\ completing = 0 /\ failed = 0 /\ launch = Form!NotLaunching /\ saving = "idle"
      /\ requests = {} /\ sent = 0 /\ slips = 0 /\ told = {} /\ unsaved = {}
  BY DEF Form!Init
<1>6. FormFits
  BY <1>1, <1>2, <1>4, <1>5, FormBounds DEF FormFits, Form!NoSave, Form!NotLaunching
<1>7. QueueFits
  BY <1>2, <1>5 DEF QueueFits
<1>8. RequestsFit
  BY <1>5 DEF RequestsFit
<1>9. QED
  BY <1>6, <1>7, <1>8 DEF FormInv

(* A request that no step of its own is about.                             *)
LEMMA RequestStays ==
  ASSUME FormInv, NEW r \in requests, sent' \in Nat, sent <= sent', told \subseteq told',
         r.kind = "complete" /\ r.step \notin told => stored'[r.step] = stored[r.step],
         \A s \in Steps : drafts[s].version <= drafts'[s].version /\ values[s] <= values'[s],
         drafts' \in [Steps -> Draft], values' \in [Steps -> Contents],
         r.id = save'.id => save' = save,
         \/ completing' = completing /\ (completing # 0 => Head(completions') = Head(completions))
         \/ completing = 0 /\ completing' = sent + 1
         \/ completing' = 0 /\ (r.id # completing \/ r.step \in told')
  PROVE  RequestFits(r)'
<1>0. /\ RequestFits(r) /\ r \in Request /\ r.id \in Nat /\ r.id >= 1 /\ r.id <= sent /\ sent \in Nat
      /\ completing \in Nat
  BY DEF FormInv, FormFits, RequestsFit, RequestFits, Request
<1>1. r.id \in 1..sent'
  BY <1>0
<1>2. r.kind # "launch" => r.step \in Steps /\ r.answer <= drafts'[r.step].version
  <2>1. SUFFICES ASSUME r.kind # "launch" PROVE r.step \in Steps /\ r.answer <= drafts'[r.step].version
    OBVIOUS
  <2>2. PICK s : s = r.step /\ s \in Steps /\ r.answer <= drafts[s].version
    BY <1>0, <2>1 DEF RequestFits
  <2>3. drafts[s].version \in Nat /\ drafts'[s].version \in Nat /\ r.answer \in Nat
    BY <1>0, <2>2 DEF FormInv, FormFits, Draft, Request
  <2>4. r.answer <= drafts'[s].version
    BY <2>2, <2>3
  <2>5. QED
    BY <2>2, <2>4
<1>3. r.id = save'.id => r.kind = "save" /\ r.step = save'.step
  BY <1>0 DEF RequestFits
<1>4. r.id = completing' => r.kind = "complete" /\ r.step = Head(completions').step
  <2>1. r.id = completing' => completing' = completing /\ completing # 0
    BY <1>0
  <2>2. QED
    BY <1>0, <2>1 DEF RequestFits
<1>5. r.kind = "complete" => r.value <= values'[r.step]
  <2>1. SUFFICES ASSUME r.kind = "complete" PROVE r.value <= values'[r.step]
    OBVIOUS
  <2>2. PICK s : s = r.step /\ s \in Steps /\ r.value <= values[s]
    BY <1>0, <2>1 DEF RequestFits
  <2>3. values[s] \in Contents /\ values'[s] \in Contents /\ r.value \in Contents
    BY <1>0, <2>2 DEF FormInv, FormFits, Request
  <2>4. r.value <= values'[s]
    BY <2>2, <2>3, FormBounds DEF Contents
  <2>5. QED
    BY <2>2, <2>4
<1>6. r.kind = "complete" /\ r.step \notin told' =>
        /\ r.id = completing' /\ r.value = Head(completions').value
        /\ r.answer # 0 => stored'[r.step] >= r.value
  <2>1. SUFFICES ASSUME r.kind = "complete", r.step \notin told'
                 PROVE  /\ r.id = completing' /\ r.value = Head(completions').value
                        /\ r.answer # 0 => stored'[r.step] >= r.value
    OBVIOUS
  <2>2. r.id = completing /\ r.value = Head(completions).value /\ (r.answer # 0 => stored[r.step] >= r.value)
    BY <1>0, <2>1 DEF RequestFits
  <2>3. completing' = completing /\ completing # 0
    BY <1>0, <2>1, <2>2
  <2>4. stored'[r.step] = stored[r.step]
    BY <2>1
  <2>5. QED
    BY <2>2, <2>3, <2>4
<1>7. QED
  BY <1>0, <1>1, <1>2, <1>3, <1>4, <1>5, <1>6 DEF RequestFits

(* A request is sent.                                                      *)
LEMMA Posted ==
  ASSUME FormInv, NEW rest \in SUBSET requests, NEW kind \in {"save", "complete", "launch"}, NEW what,
         what.step \in 0..LastStep, what.value \in Contents, Form!Post(rest, kind, what),
         \A r \in rest : RequestFits(r)',
         kind # "launch" => what.step \in Steps,
         sent' = save'.id => kind = "save" /\ what.step = save'.step,
         sent' = completing' => kind = "complete" /\ what.step = Head(completions').step,
         kind = "complete" =>
           /\ sent' = completing' /\ what.value = Head(completions').value /\ what.value <= values'[what.step],
         drafts' \in [Steps -> Draft]
  PROVE  RequestsFit' /\ sent' = sent + 1 /\ sent' \in 1..MaxSent
<1>1. sent' = sent + 1 /\ sent < MaxSent /\ sent \in 0..MaxSent
  BY DEF Form!Post, FormInv, FormFits
<1>2. sent' \in 1..MaxSent /\ sent' \in Nat
  BY <1>1, FormBounds
<1>3. PICK new : new = [id |-> sent', kind |-> kind, step |-> what.step, value |-> what.value,
                        version |-> IF what.step \in Form!Steps THEN known[what.step] ELSE 0,
                        at |-> "sent", rank |-> 0, answer |-> 0]
  OBVIOUS
<1>4. requests' = rest \cup {new}
  BY <1>3 DEF Form!Post
<1>5. new \in Request
  <2>1. (IF what.step \in Form!Steps THEN known[what.step] ELSE 0) \in Nat
    BY FormBounds DEF FormInv, FormFits
  <2>2. 0 \in 0..Form!Submitted
    BY FormBounds
  <2>3. QED
    BY <1>2, <1>3, <2>1, <2>2 DEF Request
<1>6. /\ new.id = sent' /\ new.kind = kind /\ new.step = what.step /\ new.value = what.value /\ new.answer = 0
  BY <1>3
<1>7. new.kind # "launch" => new.step \in Steps /\ new.answer <= drafts'[new.step].version
  BY <1>6 DEF Draft
<1>8. new.id \in 1..sent'
  BY <1>2, <1>6
<1>9. RequestFits(new)'
  BY <1>5, <1>6, <1>7, <1>8 DEF RequestFits
<1>10. \A r \in rest : r.id # new.id
  <2>1. \A r \in rest : r.id \in 1..sent
    BY DEF FormInv, RequestsFit, RequestFits
  <2>2. QED
    BY <1>1, <1>6, <2>1
<1>11. QED
  BY <1>1, <1>2, <1>4, <1>9, <1>10 DEF FormInv, RequestsFit

LEMMA LeftAreRequests ==
  ASSUME NEW id, NEW rest \in Form!Left(id)
  PROVE  rest \subseteq requests
  BY DEF Form!Left

(* What is shown grows newer, and nothing is queued or stored.             *)
LEMMA QueueStays ==
  ASSUME FormInv, UNCHANGED <<completions, stored, told, confirmed>>, values' \in [Steps -> Contents],
         \A s \in Steps : values[s] <= values'[s]
  PROVE  QueueFits'
<1>1. completions \in Seq(Completion) /\ QueueFits
  BY DEF FormInv, QueueFits
<1>2. ASSUME NEW i \in 1..Len(completions) PROVE completions[i].value <= values'[completions[i].step]
  <2>1. completions[i] \in Completion /\ completions[i].value <= values[completions[i].step]
    BY <1>1 DEF QueueFits
  <2>2. PICK s \in Steps : s = completions[i].step
    BY <2>1 DEF Completion
  <2>3. PICK c \in Contents : c = completions[i].value
    BY <2>1 DEF Completion
  <2>4. values[s] \in Contents /\ values'[s] \in Contents /\ values[s] <= values'[s] /\ c <= values[s]
    BY <2>1, <2>2, <2>3 DEF FormInv, FormFits
  <2>5. c <= values'[s]
    BY <2>4, FormBounds DEF Contents
  <2>6. QED
    BY <2>2, <2>3, <2>5
<1>3. QED
  BY <1>1, <1>2 DEF QueueFits

(* A draft is sent to be saved.                                            *)
LEMMA FormSaves ==
  ASSUME FormInv, NEW what, what.step \in Steps, what.value \in Contents, NEW byHand,
         Form!StartDraftSave(what, byHand),
         pending' \in {pending, Form!Nothing},
         UNCHANGED <<values, shown, generation, known, completions, completing, failed, drafts, stored, rank,
                     slips, confirmed, told, unsaved>>,
         launch'.at \in {"no", "queue", "first", "second", "ready", "sent", "done"},
         launch'.at \notin {"no", "queue"} => completions = << >>
  PROVE  FormInv'
<1>1. PICK rest \in Form!Left(save.id) : Form!Post(rest, "save", what)
  BY DEF Form!StartDraftSave
<1>2. /\ save' = [id |-> sent', step |-> what.step, generation |-> generation, byHand |-> byHand]
      /\ saving' = "saving"
  BY DEF Form!StartDraftSave
<1>3. rest \in SUBSET requests /\ what.step \in 0..LastStep
  BY LeftAreRequests, FormBounds
<1>4. sent' = sent + 1 /\ sent \in Nat /\ completing \in 0..sent
  BY <1>1 DEF Form!Post, FormInv, FormFits
<1>5. ASSUME NEW r \in rest PROVE RequestFits(r)'
  <2>1. r \in requests /\ r.id \in 1..sent
    BY <1>3 DEF FormInv, RequestsFit, RequestFits
  <2>2. r.id # save'.id /\ sent' \in Nat /\ sent <= sent'
    BY <1>2, <1>4, <2>1
  <2>3. \A s \in Steps : drafts[s].version <= drafts'[s].version /\ values[s] <= values'[s]
    <3>1. \A s \in Steps : drafts[s].version \in Nat
      BY DEF FormInv, FormFits, Draft
    <3>2. \A s \in Steps : values[s] \in Nat
      <4>1. values \in [Steps -> Contents] /\ \A c \in Contents : c \in Nat
        BY DEF FormInv, FormFits, Contents
      <4>2. QED
        BY <4>1
    <3>3. QED
      BY <3>1, <3>2
  <2>4. drafts' \in [Steps -> Draft] /\ values' \in [Steps -> Contents]
    BY DEF FormInv, FormFits
  <2>5. QED
    BY <2>1, <2>2, <2>3, <2>4, RequestStays
<1>6. RequestsFit' /\ sent' \in 1..MaxSent
  <2>1. sent' # completing' /\ save'.step = what.step
    BY <1>2, <1>4
  <2>2. drafts' \in [Steps -> Draft]
    BY DEF FormInv, FormFits
  <2>3. QED
    BY <1>1, <1>3, <1>5, <2>1, <2>2, Posted
<1>7. QueueFits'
  <2>1. values \in [Steps -> Contents] /\ values' = values
    BY DEF FormInv, FormFits
  <2>2. \A c \in Contents : c <= c
    BY FormBounds DEF Contents
  <2>3. \A s \in Steps : values[s] <= values'[s]
    BY <2>1, <2>2
  <2>4. QED
    BY <2>1, <2>3, QueueStays
<1>8. FormFits'
  <2>1. save'.id \in 0..sent' /\ completing' \in 0..sent' /\ sent' \in 0..MaxSent
    BY <1>2, <1>4, <1>6
  <2>2. QED
    BY <1>2, <2>1 DEF FormInv, FormFits
<1>9. QED
  BY <1>6, <1>7, <1>8 DEF FormInv

(* Nothing is sent, answered, queued or stored.                            *)
LEMMA FormElse ==
  ASSUME FormInv,
         UNCHANGED <<known, save, completions, completing, drafts, stored, rank, requests, sent, slips,
                     confirmed, told, unsaved>>,
         values' \in [Steps -> Contents], generation' \in Contents,
         \A s \in Steps : values[s] <= values'[s] /\ values'[s] <= generation',
         shown' \in 1..Form!Review, failed' \in Steps \cup {0},
         pending' # Form!Nothing => pending'.step \in Steps /\ pending'.value \in Contents,
         saving' \in {"idle", "saving", "saved", "error"},
         launch'.at \in {"no", "queue", "first", "second", "ready", "sent", "done"},
         launch'.at \notin {"no", "queue"} => completions = << >>
  PROVE  FormInv'
<1>1. QueueFits'
  BY QueueStays
<1>2. ASSUME NEW r \in requests PROVE RequestFits(r)'
  <2>1. \A s \in Steps : drafts[s].version <= drafts'[s].version
    BY DEF FormInv, FormFits, Draft
  <2>2. drafts' \in [Steps -> Draft] /\ sent' \in Nat /\ sent <= sent'
    BY DEF FormInv, FormFits
  <2>3. QED
    BY <2>1, <2>2, RequestStays
<1>3. RequestsFit'
  BY <1>2 DEF FormInv, RequestsFit
<1>4. \A s \in Steps : stored'[s] <= values'[s]
  <2>1. SUFFICES ASSUME NEW s \in Steps PROVE stored[s] <= values'[s]
    OBVIOUS
  <2>2. stored[s] \in Contents /\ values[s] \in Contents /\ values'[s] \in Contents /\ stored[s] <= values[s]
        /\ values[s] <= values'[s]
    BY DEF FormInv, FormFits
  <2>3. QED
    BY <2>2, FormBounds DEF Contents
<1>5. FormFits'
  BY <1>4 DEF FormInv, FormFits
<1>6. QED
  BY <1>1, <1>3, <1>5 DEF FormInv

(* A launch that hears of a save has seen the queue empty.                 *)
LEMMA HearsFits ==
  ASSUME FormInv, NEW id, NEW outcome, NEW next
  PROVE  LET heard == Form!Hears(id, outcome, next)
         IN  /\ heard.at \in {"no", "queue", "first", "second", "ready", "sent", "done"}
             /\ heard.at \notin {"no", "queue"} => completions = << >>
  BY DEF Form!Hears, Form!NotLaunching, FormInv, FormFits

LEMMA FormPage ==
  ASSUME FormInv,
         \/ Form!UpdateValue \/ Form!AutoSave \/ Form!SaveCurrentDraft \/ Form!GoBack \/ Form!HandleLaunch
         \/ Form!FlushAnyPendingDraftSave
  PROVE  FormInv'
<1>1. FormFits
  BY DEF FormInv
<1>2. ASSUME NEW s \in Steps PROVE values[s] \in Nat /\ values[s] <= generation /\ generation \in Nat
  <2>1. values \in [Steps -> Contents] /\ generation \in Contents /\ \A c \in Contents : c \in Nat
    BY <1>1 DEF FormFits, Contents
  <2>2. QED
    BY <1>1, <2>1 DEF FormFits
<1>3. CASE Form!UpdateValue
  <2>1. /\ shown \in Steps /\ generation < MaxEdits /\ generation' = generation + 1
        /\ values' = [values EXCEPT ![shown] = generation']
        /\ pending' = [step |-> shown, value |-> generation'] /\ saving' = "idle"
        /\ UNCHANGED <<shown, known, save, completions, completing, failed, launch, drafts, stored, rank,
                       requests, sent, slips, confirmed, told, unsaved>>
    BY <1>3, FormBounds DEF Form!UpdateValue, Form!serverVars, Form!historyVars
  <2>2. generation' \in Contents
    BY <1>2, <2>1, FormBounds DEF Contents
  <2>3. values' \in [Steps -> Contents]
    BY <1>1, <2>1, <2>2 DEF FormFits
  <2>4. \A s \in Steps : values[s] <= values'[s] /\ values'[s] <= generation'
    <3>1. \A s \in Steps : values'[s] = IF s = shown THEN generation' ELSE values[s]
      BY <1>1, <2>1 DEF FormFits
    <3>2. QED
      BY <1>2, <2>1, <3>1
  <2>5. QED
    BY <1>1, <2>1, <2>2, <2>3, <2>4, FormElse DEF FormFits
<1>4. CASE Form!AutoSave
  <2>1. /\ pending # Form!Nothing /\ Form!StartDraftSave(pending, FALSE) /\ pending' = Form!Nothing
        /\ launch' = Form!Hears(save.id, "aborted", sent')
        /\ UNCHANGED <<values, shown, generation, known, completions, completing, failed, drafts, stored, rank,
                       slips, confirmed, told, unsaved>>
    BY <1>4 DEF Form!AutoSave, Form!serverVars, Form!historyVars
  <2>2. PICK what : what = pending /\ what.step \in Steps /\ what.value \in Contents
    BY <1>1, <2>1 DEF FormFits
  <2>3. PICK id, next : id = save.id /\ next = sent'
    OBVIOUS
  <2>4. /\ launch'.at \in {"no", "queue", "first", "second", "ready", "sent", "done"}
        /\ launch'.at \notin {"no", "queue"} => completions = << >>
    BY <2>1, <2>3, HearsFits
  <2>5. QED
    BY <2>1, <2>2, <2>4, FormSaves
<1>5. CASE Form!SaveCurrentDraft
  <2>1. /\ shown \in Steps /\ Form!StartDraftSave([step |-> shown, value |-> values[shown]], TRUE)
        /\ pending' \in {pending, Form!Nothing}
        /\ UNCHANGED <<values, shown, generation, known, completions, completing, failed, launch, drafts, stored,
                       rank, slips, confirmed, told, unsaved>>
    BY <1>5, FormBounds DEF Form!SaveCurrentDraft, Form!serverVars, Form!historyVars
  <2>2. PICK what : what = [step |-> shown, value |-> values[shown]]
    OBVIOUS
  <2>3. what.step \in Steps /\ what.value \in Contents
    BY <1>1, <2>1, <2>2 DEF FormFits
  <2>4. QED
    BY <1>1, <2>1, <2>2, <2>3, FormSaves DEF FormFits
<1>6. CASE Form!GoBack
  <2>1. /\ shown' = shown - 1 /\ shown > 1
        /\ UNCHANGED <<values, generation, known, pending, save, completions, completing, failed, launch,
                       saving, drafts, stored, rank, requests, sent, slips, confirmed, told, unsaved>>
    BY <1>6 DEF Form!GoBack, Form!serverVars, Form!historyVars
  <2>2. shown' \in 1..Form!Review
    BY <1>1, <2>1, FormBounds DEF FormFits
  <2>3. \A s \in Steps : values[s] <= values'[s] /\ values'[s] <= generation'
    BY <1>2, <2>1
  <2>4. QED
    BY <1>1, <2>1, <2>2, <2>3, FormElse DEF FormFits
<1>7. ASSUME UNCHANGED <<values, shown, generation, known, pending, save, completions, completing, failed,
                         saving, drafts, stored, rank, requests, sent, slips, confirmed, told, unsaved>>,
             launch'.at \in {"queue", "second", "ready"}, launch'.at # "queue" => completions = << >>
      PROVE  FormInv'
  <2>1. \A s \in Steps : values[s] <= values'[s] /\ values'[s] <= generation'
    BY <1>2, <1>7
  <2>2. QED
    BY <1>1, <1>7, <2>1, FormElse DEF FormFits
<1>8. CASE Form!HandleLaunch
  <2>1. launch' = [at |-> "queue", on |-> 0]
    BY <1>8 DEF Form!HandleLaunch
  <2>2. UNCHANGED <<values, shown, generation, known, pending, save, completions, completing, failed,
                    saving, drafts, stored, rank, requests, sent, slips, confirmed, told, unsaved>>
    BY <1>8 DEF Form!HandleLaunch, Form!serverVars, Form!historyVars
  <2>3. QED
    BY <1>7, <2>1, <2>2
<1>9. ASSUME Form!FlushAnyPendingDraftSave PROVE FormInv'
  <2>1. /\ completions = << >>
        /\ UNCHANGED <<values, shown, generation, known, completions, completing, failed, drafts, stored, rank,
                       slips, confirmed, told, unsaved>>
    BY <1>9 DEF Form!FlushAnyPendingDraftSave, Form!QueueIsDone, Form!serverVars, Form!historyVars
  <2>2. CASE pending = Form!Nothing /\ UNCHANGED <<pending, save, saving, requests, sent>>
             /\ launch' = IF save.id # 0 THEN [at |-> "second", on |-> save.id] ELSE [at |-> "ready", on |-> 0]
    <3>1. launch'.at \in {"queue", "second", "ready"}
      BY <2>2
    <3>2. QED
      BY <1>7, <2>1, <2>2, <3>1
  <2>3. CASE pending # Form!Nothing /\ Form!StartDraftSave(pending, FALSE) /\ pending' = Form!Nothing
             /\ launch' = [at |-> "first", on |-> sent']
    <3>1. launch'.at = "first"
      BY <2>3
    <3>2. PICK what : what = pending /\ what.step \in Steps /\ what.value \in Contents
      BY <1>1, <2>3 DEF FormFits
    <3>3. QED
      BY <2>1, <2>3, <3>1, <3>2, FormSaves
  <2>4. QED
    BY <1>9, <2>2, <2>3 DEF Form!FlushAnyPendingDraftSave
<1>10. QED
  BY <1>3, <1>4, <1>5, <1>6, <1>8, <1>9

(* A step is continued: its contents are confirmed and go to the queue.    *)
LEMMA FormContinues ==
  ASSUME FormInv, Form!CompleteCurrentStep
  PROVE  FormInv'
<1>1. FormFits /\ QueueFits /\ completions \in Seq(Completion)
  BY DEF FormInv, QueueFits
<1>2. /\ shown \in Steps /\ launch.at = "no" /\ generation < MaxEdits /\ generation' = generation + 1
      /\ shown' = shown + 1 /\ saving' = "saving" /\ failed' \in {0, failed}
      /\ UNCHANGED <<values, known, pending, save, completing, launch, drafts, stored, rank, requests, sent, slips,
                     told, unsaved>>
  BY FormBounds DEF Form!CompleteCurrentStep, Form!serverVars
<1>3. /\ completions' = Append(completions, [step |-> shown, value |-> values[shown]])
      /\ confirmed' = [confirmed EXCEPT ![shown] = values[shown]]
  BY DEF Form!CompleteCurrentStep
<1>4. PICK c \in Completion : c = [step |-> shown, value |-> values[shown]]
  BY <1>1, <1>2 DEF FormFits, Completion
<1>5. PICK n \in Nat : n = Len(completions)
  BY <1>1, LenProperties
<1>6. /\ completions' \in Seq(Completion) /\ completions' # << >> /\ Len(completions') = n + 1
      /\ \A i \in 1..n : completions'[i] = completions[i]
      /\ completions'[n + 1] = c
  BY <1>1, <1>3, <1>4, <1>5, AppendProperties
<1>7. ASSUME NEW s \in Steps
      PROVE  /\ values[s] \in Nat /\ stored[s] <= values[s] /\ values[s] <= generation /\ generation \in Nat
             /\ drafts[s].version \in Nat
  <2>1. /\ values \in [Steps -> Contents] /\ generation \in Contents /\ drafts \in [Steps -> Draft]
        /\ \A d \in Contents : d \in Nat
    BY <1>1 DEF FormFits, Contents
  <2>2. QED
    BY <1>1, <2>1 DEF FormFits, Draft
<1>8. FormFits'
  <2>1. generation' \in Contents /\ \A s \in Steps : values[s] <= generation'
    BY <1>2, <1>7, FormBounds DEF Contents
  <2>2. shown' \in 1..Form!Review
    BY <1>2, FormBounds
  <2>3. confirmed' \in [Steps -> Contents]
    BY <1>1, <1>2, <1>3 DEF FormFits
  <2>4. QED
    BY <1>1, <1>2, <1>6, <2>1, <2>2, <2>3 DEF FormFits
<1>9. QueueFits'
  <2>1. ASSUME NEW i \in 1..(n + 1)
        PROVE  LET d == completions'[i]
               IN  /\ d.value <= values[d.step] /\ (d.step \notin told => stored[d.step] <= d.value)
                   /\ \A j \in 1..(n + 1) :
                        i < j /\ completions'[j].step = d.step => d.value <= completions'[j].value
    <3>1. CASE i = n + 1
      BY <1>2, <1>4, <1>5, <1>6, <1>7, <3>1
    <3>2. CASE i # n + 1
      <4>1. i \in 1..n /\ completions'[i] = completions[i]
        BY <1>5, <1>6, <3>2
      <4>2. /\ completions[i].value <= values[completions[i].step]
            /\ completions[i].step \notin told => stored[completions[i].step] <= completions[i].value
            /\ \A j \in 1..n :
                 i < j /\ completions[j].step = completions[i].step => completions[i].value <= completions[j].value
        BY <1>1, <1>5, <4>1 DEF QueueFits
      <4>3. ASSUME NEW j \in 1..(n + 1), i < j, completions'[j].step = completions[i].step
            PROVE  completions[i].value <= completions'[j].value
        <5>1. CASE j = n + 1
          BY <1>4, <1>6, <4>2, <4>3, <5>1
        <5>2. CASE j # n + 1
          BY <1>5, <1>6, <4>2, <4>3, <5>2
        <5>3. QED
          BY <5>1, <5>2
      <4>4. QED
        BY <4>1, <4>2, <4>3
    <3>3. QED
      BY <3>1, <3>2
  <2>2. ASSUME NEW s \in Steps \ told
        PROVE  \/ stored[s] >= confirmed'[s]
               \/ \E i \in 1..(n + 1) : completions'[i].step = s /\ completions'[i].value >= confirmed'[s]
    <3>1. CASE s = shown
      <4>1. confirmed'[s] = values[s] /\ values[s] \in Nat
        BY <1>1, <1>2, <1>3, <1>7, <3>1 DEF FormFits
      <4>2. n + 1 \in 1..(n + 1) /\ completions'[n + 1].step = s /\ completions'[n + 1].value = values[s]
        BY <1>4, <1>5, <1>6, <3>1
      <4>3. QED
        BY <4>1, <4>2
    <3>2. CASE s # shown
      <4>1. confirmed'[s] = confirmed[s]
        BY <1>1, <1>3, <3>2 DEF FormFits
      <4>2. CASE stored[s] >= confirmed[s]
        BY <4>1, <4>2
      <4>3. CASE \E i \in 1..n : completions[i].step = s /\ completions[i].value >= confirmed[s]
        BY <1>5, <1>6, <4>1, <4>3
      <4>4. QED
        BY <1>1, <1>5, <4>2, <4>3 DEF QueueFits
    <3>3. QED
      BY <3>1, <3>2
  <2>3. QED
    BY <1>2, <1>6, <2>1, <2>2 DEF QueueFits
<1>10. RequestsFit'
  <2>1. completing # 0 => Head(completions') = Head(completions)
    <3>1. SUFFICES ASSUME completions # << >> PROVE Head(completions') = Head(completions)
      BY <1>1 DEF FormFits
    <3>2. Head(completions) = completions[1] /\ n \in Nat \ {0}
      BY <1>1, <1>5, <3>1, HeadAndTail
    <3>3. Head(completions') = completions'[1]
      BY <1>6, HeadAndTail
    <3>4. QED
      BY <1>6, <3>2, <3>3
  <2>2. sent' \in Nat /\ sent <= sent' /\ drafts' \in [Steps -> Draft] /\ values' \in [Steps -> Contents]
    BY <1>1, <1>2 DEF FormFits
  <2>3. \A s \in Steps : drafts[s].version <= drafts'[s].version /\ values[s] <= values'[s]
    BY <1>2, <1>7
  <2>4. \A r \in requests : RequestFits(r)'
    BY <1>2, <2>1, <2>2, <2>3, RequestStays
  <2>5. QED
    BY <1>2, <2>4 DEF FormInv, RequestsFit
<1>11. QED
  BY <1>8, <1>9, <1>10 DEF FormInv

LEMMA Versions ==
  ASSUME FormInv
  PROVE  \A s \in Steps : drafts[s].version \in Nat /\ values[s] \in Nat /\ stored[s] \in Nat /\ confirmed[s] \in Nat
<1>1. /\ values \in [Steps -> Contents] /\ stored \in [Steps -> Contents] /\ confirmed \in [Steps -> Contents]
      /\ drafts \in [Steps -> Draft] /\ \A c \in Contents : c \in Nat
  BY DEF FormInv, FormFits, Contents
<1>2. QED
  BY <1>1 DEF Draft

(* The first completion of the queue, or the launch, is sent.              *)
LEMMA FormSends ==
  ASSUME FormInv, NEW rest \in SUBSET requests, NEW kind \in {"complete", "launch"}, NEW what,
         what.step \in 0..LastStep, what.value \in Contents, Form!Post(rest, kind, what),
         save' \in {save, Form!NoSave}, pending' \in {pending, Form!Nothing},
         UNCHANGED <<values, shown, generation, known, completions, failed, saving, drafts, stored, rank, slips,
                     confirmed, told, unsaved>>,
         launch'.at \in {"no", "queue", "first", "second", "ready", "sent", "done"},
         launch'.at \notin {"no", "queue"} => completions = << >>,
         kind = "launch" => completing' = completing,
         kind = "complete" => completing = 0 /\ completing' = sent' /\ completions # << >> /\ what = Head(completions)
  PROVE  FormInv'
<1>1. FormFits /\ QueueFits /\ completions \in Seq(Completion)
  BY DEF FormInv, QueueFits
<1>2. sent' = sent + 1 /\ sent \in Nat /\ completing \in 0..sent /\ save.id \in 0..sent /\ save'.id \in {save.id, 0}
  BY <1>1 DEF Form!Post, FormFits, Form!NoSave
<1>3. /\ drafts' \in [Steps -> Draft] /\ values' \in [Steps -> Contents]
      /\ \A s \in Steps : drafts[s].version <= drafts'[s].version /\ values[s] <= values'[s]
  <2>1. drafts' = drafts /\ values' = values /\ drafts \in [Steps -> Draft] /\ values \in [Steps -> Contents]
    BY <1>1 DEF FormFits
  <2>2. QED
    BY <2>1, Versions
<1>4. ASSUME NEW r \in rest PROVE RequestFits(r)'
  <2>1. r \in requests /\ r.id \in 1..sent
    BY DEF FormInv, RequestsFit, RequestFits
  <2>2. sent' \in Nat /\ sent <= sent' /\ (r.id = save'.id => save' = save)
    BY <1>2, <2>1 DEF Form!NoSave
  <2>3. completing' = completing \/ (completing = 0 /\ completing' = sent + 1)
    BY <1>2
  <2>4. QED
    BY <1>3, <2>1, <2>2, <2>3, RequestStays
<1>5. RequestsFit' /\ sent' \in 1..MaxSent
  <2>1. kind = "complete" => what.step \in Steps /\ what.value <= values[what.step]
    <3>1. SUFFICES ASSUME kind = "complete" PROVE what.step \in Steps /\ what.value <= values[what.step]
      OBVIOUS
    <3>2. what = completions[1] /\ what \in Completion /\ 1 \in 1..Len(completions)
      BY <1>1, <3>1, HeadAndTail
    <3>3. QED
      BY <1>1, <3>2 DEF QueueFits, Completion
  <2>2. sent' # save'.id /\ (kind = "launch" => sent' # completing')
    BY <1>2
  <2>3. kind # "launch" => what.step \in Steps
    BY <2>1
  <2>4. /\ sent' = save'.id => kind = "save" /\ what.step = save'.step
        /\ sent' = completing' => kind = "complete" /\ what.step = Head(completions').step
        /\ kind = "complete" =>
             /\ sent' = completing' /\ what.value = Head(completions').value /\ what.value <= values'[what.step]
    BY <2>1, <2>2
  <2>5. QED
    BY <1>3, <1>4, <2>3, <2>4, Posted
<1>6. QueueFits'
  BY <1>3, QueueStays
<1>7. FormFits'
  <2>1. save'.id \in 0..sent' /\ completing' \in 0..sent' /\ sent' \in 0..MaxSent
    BY <1>2, <1>5
  <2>2. completing' # 0 => completions # << >>
    BY <1>1 DEF FormFits
  <2>3. QED
    BY <1>1, <2>1, <2>2 DEF FormFits
<1>8. QED
  BY <1>5, <1>6, <1>7 DEF FormInv

LEMMA FormGoesOn ==
  ASSUME FormInv, Form!SendCompletion \/ Form!SendLaunch
  PROVE  FormInv'
<1>1. FormFits /\ completions \in Seq(Completion)
  BY DEF FormInv, QueueFits
<1>2. CASE Form!SendCompletion
  <2>1. PICK c : c = Head(completions)
    OBVIOUS
  <2>2. /\ completions # << >> /\ completing = 0 /\ completing' = sent'
        /\ UNCHANGED <<values, shown, generation, known, completions, failed, launch, saving, drafts, stored, rank,
                       slips, confirmed, told, unsaved>>
    BY <1>2 DEF Form!SendCompletion, Form!serverVars, Form!historyVars
  <2>3. /\ pending' \in {pending, Form!Nothing} /\ save' \in {save, Form!NoSave}
        /\ \E rest \in (IF save.step = c.step THEN Form!Left(save.id) ELSE {requests}) : Form!Post(rest, "complete", c)
    BY <1>2, <2>1 DEF Form!SendCompletion
  <2>4. PICK rest \in SUBSET requests : Form!Post(rest, "complete", c)
    BY <2>3, LeftAreRequests
  <2>5. c.step \in 0..LastStep /\ c.value \in Contents
    <3>1. c \in Completion
      BY <1>1, <2>1, <2>2, HeadAndTail
    <3>2. QED
      BY <3>1, FormBounds DEF Completion
  <2>6. QED
    BY <1>1, <2>1, <2>2, <2>3, <2>4, <2>5, FormSends DEF FormFits
<1>3. CASE Form!SendLaunch
  <2>1. /\ launch.at = "ready"
        /\ UNCHANGED <<values, shown, generation, known, pending, save, completions, completing, failed, saving,
                       drafts, stored, rank, slips, confirmed, told, unsaved>>
    BY <1>3 DEF Form!SendLaunch, Form!serverVars, Form!historyVars
  <2>2. CASE launch' = Form!NotLaunching /\ UNCHANGED <<requests, sent>>
    <3>1. launch'.at = "no"
      BY <2>2 DEF Form!NotLaunching
    <3>2. \A s \in Steps : values[s] <= values'[s] /\ values'[s] <= generation'
      BY <1>1, <2>1, Versions DEF FormFits
    <3>3. QED
      BY <1>1, <2>1, <2>2, <3>1, <3>2, FormElse DEF FormFits
  <2>3. CASE Form!Post(requests, "launch", Form!Nothing) /\ launch' = [at |-> "sent", on |-> sent']
    <3>1. launch'.at = "sent" /\ completions = << >>
      BY <1>1, <2>1, <2>3 DEF FormFits
    <3>2. PICK what : what = Form!Nothing
      OBVIOUS
    <3>3. what.step \in 0..LastStep /\ what.value \in Contents
      BY <3>2, FormBounds DEF Form!Nothing, Contents
    <3>4. QED
      BY <2>1, <2>3, <3>1, <3>2, <3>3, FormSends
  <2>4. QED
    BY <1>3, <2>2, <2>3 DEF Form!SendLaunch
<1>4. QED
  BY <1>2, <1>3

(* The first completion leaves the queue: it has been stored, or failed.   *)
LEMMA QueueShrinks ==
  ASSUME FormInv, completions # << >>, completions' = Tail(completions), UNCHANGED <<values, stored, confirmed>>,
         told \subseteq told',
         Head(completions).step \in told' \/ stored[Head(completions).step] >= Head(completions).value
  PROVE  QueueFits'
<1>1. QueueFits /\ completions \in Seq(Completion)
  BY DEF FormInv, QueueFits
<1>2. PICK s : s = completions /\ s \in Seq(Completion) /\ s # << >>
  BY <1>1
<1>3. PICK rest : rest = Tail(s)
  OBVIOUS
<1>4. /\ Head(s) = s[1] /\ rest \in Seq(Completion) /\ Len(s) \in Nat \ {0} /\ Len(rest) = Len(s) - 1
      /\ \A i \in 1..Len(rest) : i + 1 \in 1..Len(s) /\ rest[i] = s[i + 1]
  BY <1>2, <1>3, HeadAndTail, HeadTailProperties
<1>5. \A i \in 1..Len(s) :
        /\ s[i].value <= values[s[i].step] /\ (s[i].step \notin told => stored[s[i].step] <= s[i].value)
        /\ \A j \in 1..Len(s) : i < j /\ s[j].step = s[i].step => s[i].value <= s[j].value
  BY <1>1, <1>2 DEF QueueFits
<1>6. ASSUME NEW i \in 1..Len(rest)
      PROVE  /\ rest[i].value <= values[rest[i].step]
             /\ rest[i].step \notin told' => stored[rest[i].step] <= rest[i].value
             /\ \A j \in 1..Len(rest) : i < j /\ rest[j].step = rest[i].step => rest[i].value <= rest[j].value
  <2>1. i + 1 \in 1..Len(s) /\ rest[i] = s[i + 1]
    BY <1>4
  <2>2. ASSUME NEW j \in 1..Len(rest), i < j PROVE j + 1 \in 1..Len(s) /\ rest[j] = s[j + 1] /\ i + 1 < j + 1
    BY <1>4, <2>2
  <2>3. QED
    BY <1>5, <2>1, <2>2
<1>7. ASSUME NEW step \in Steps \ told'
      PROVE  \/ stored[step] >= confirmed[step]
             \/ \E i \in 1..Len(rest) : rest[i].step = step /\ rest[i].value >= confirmed[step]
  <2>1. CASE stored[step] >= confirmed[step]
    BY <2>1
  <2>2. ASSUME NEW i \in 1..Len(s), s[i].step = step, s[i].value >= confirmed[step]
        PROVE  \/ stored[step] >= confirmed[step]
               \/ \E j \in 1..Len(rest) : rest[j].step = step /\ rest[j].value >= confirmed[step]
    <3>1. CASE i = 1
      <4>1. stored[step] >= s[1].value /\ s[1].value >= confirmed[step]
        BY <1>2, <1>4, <2>2, <3>1
      <4>2. stored[step] \in Nat /\ confirmed[step] \in Nat
        BY Versions
      <4>3. s[1].value \in Nat
        <5>1. s[1] \in Completion /\ \A c \in Contents : c \in Nat
          BY <1>2, <1>4, HeadAndTail DEF Contents
        <5>2. QED
          BY <5>1 DEF Completion
      <4>4. QED
        BY <4>1, <4>2, <4>3
    <3>2. CASE i # 1
      <4>1. i - 1 \in 1..Len(rest) /\ (i - 1) + 1 = i
        BY <1>4, <3>2
      <4>2. rest[i - 1] = s[i]
        BY <1>4, <4>1
      <4>3. QED
        BY <2>2, <4>1, <4>2
    <3>3. QED
      BY <3>1, <3>2
  <2>3. QED
    BY <1>1, <1>2, <2>1, <2>2 DEF QueueFits
<1>8. completions' = rest
  BY <1>2, <1>3
<1>9. QED
  BY <1>4, <1>6, <1>7, <1>8 DEF QueueFits

(* A request ends for the page.                                            *)
LEMMA FormEnds ==
  ASSUME FormInv, NEW r \in requests, NEW answer \in Nat, Form!Ends(r.id, answer),
         requests' \subseteq requests, answer # 0 => answer = r.answer /\ r \notin requests',
         UNCHANGED <<values, shown, generation, pending, drafts, stored, rank, sent, confirmed>>,
         slips' \in 0..MaxSlips
  PROVE  FormInv'
<1>1. FormFits /\ QueueFits /\ RequestFits(r) /\ r.id \in 1..sent /\ sent \in Nat /\ completions \in Seq(Completion)
  BY DEF FormInv, FormFits, QueueFits, RequestsFit, RequestFits
<1>2. /\ drafts' \in [Steps -> Draft] /\ values' \in [Steps -> Contents] /\ sent' \in Nat /\ sent <= sent'
      /\ \A s \in Steps : drafts[s].version <= drafts'[s].version /\ values[s] <= values'[s]
  <2>1. drafts' = drafts /\ values' = values /\ drafts \in [Steps -> Draft] /\ values \in [Steps -> Contents]
    BY <1>1 DEF FormFits
  <2>2. QED
    BY <1>1, <2>1, Versions
<1>3. \A q \in requests' : q \in requests /\ q.id \in 1..sent /\ (q.id = r.id => q = r)
  BY DEF FormInv, RequestsFit, RequestFits
<1>4. ASSUME \A q \in requests' : RequestFits(q)' PROVE RequestsFit'
  BY <1>3, <1>4 DEF FormInv, RequestsFit
<1>5. ASSUME NEW step \in Steps, answer <= drafts[step].version,
             known' = IF answer = 0 THEN known ELSE [known EXCEPT ![step] = answer]
      PROVE  known' \in [Steps -> Nat] /\ \A s \in Steps : known'[s] <= drafts[s].version
  BY <1>1, <1>5 DEF FormFits
<1>6. ASSUME r.id = save.id, Form!SaveEnds(answer) PROVE FormInv'
  <2>1. /\ save' = Form!NoSave /\ UNCHANGED <<completions, completing, failed, told, unsaved>>
        /\ known' = IF answer = 0 THEN known ELSE [known EXCEPT ![save.step] = answer]
        /\ saving' \in {"error", "saved", saving}
    BY <1>6 DEF Form!SaveEnds
  <2>2. PICK step : step = save.step /\ step \in Steps /\ answer <= drafts[step].version
    <3>1. r.kind = "save" /\ r.step = save.step
      BY <1>1, <1>6 DEF RequestFits
    <3>2. r.step \in Steps /\ r.answer <= drafts[r.step].version /\ 0 <= drafts[r.step].version
      BY <1>1, <3>1, Versions DEF RequestFits
    <3>3. QED
      BY <3>1, <3>2
  <2>3. known' \in [Steps -> Nat] /\ \A s \in Steps : known'[s] <= drafts[s].version
    BY <1>5, <2>1, <2>2
  <2>4. PICK id, outcome : id = save.id /\ outcome = IF answer = 0 THEN "failed" ELSE "saved"
    OBVIOUS
  <2>5. launch' = Form!Hears(id, outcome, 0)
    BY <1>6, <2>4 DEF Form!SaveEnds
  <2>6. /\ launch'.at \in {"no", "queue", "first", "second", "ready", "sent", "done"}
        /\ launch'.at \notin {"no", "queue"} => completions = << >>
    BY <2>5, HearsFits
  <2>7. FormFits'
    BY <1>1, <2>1, <2>3, <2>6 DEF FormFits, Form!NoSave
  <2>8. ASSUME NEW q \in requests' PROVE RequestFits(q)'
    <3>1. q.id # save'.id
      BY <1>3, <2>1 DEF Form!NoSave
    <3>2. QED
      BY <1>2, <1>3, <2>1, <3>1, RequestStays
  <2>9. QED
    BY <1>2, <1>4, <2>1, <2>7, <2>8, QueueStays DEF FormInv
<1>7. ASSUME r.id = completing, Form!CompletionEnds(answer) PROVE FormInv'
  <2>1. PICK step : step = Head(completions).step
    OBVIOUS
  <2>2. /\ completions' = Tail(completions) /\ completing' = 0 /\ UNCHANGED <<save, launch>>
        /\ known' = IF answer = 0 THEN known ELSE [known EXCEPT ![step] = answer]
        /\ failed' = IF answer = 0 THEN step ELSE 0
        /\ saving' = IF answer = 0 THEN "error" ELSE "saved"
        /\ told' = IF answer = 0 THEN told \cup {step} ELSE told
        /\ unsaved' = IF answer = 0 THEN unsaved \cup {step} ELSE unsaved \ {step}
    BY <1>7, <2>1 DEF Form!CompletionEnds
  <2>3. r.kind = "complete" /\ r.step = step /\ step \in Steps /\ answer <= drafts[step].version
    <3>1. r.kind = "complete" /\ r.step = step
      BY <1>1, <1>7, <2>1 DEF RequestFits
    <3>2. r.step \in Steps /\ r.answer <= drafts[r.step].version /\ 0 <= drafts[r.step].version
      BY <1>1, <3>1, Versions DEF RequestFits
    <3>3. QED
      BY <3>1, <3>2
  <2>4. completions # << >> /\ completing # 0 /\ launch.at \in {"no", "queue"}
    BY <1>1, <1>7 DEF FormFits
  <2>5. known' \in [Steps -> Nat] /\ \A s \in Steps : known'[s] <= drafts[s].version
    BY <1>5, <2>2, <2>3
  <2>6. told \subseteq told' /\ told' \subseteq Steps /\ unsaved' \subseteq told' /\ failed' \in Steps \cup {0}
    BY <1>1, <2>2, <2>3 DEF FormFits
  <2>7. FormFits'
    BY <1>1, <2>2, <2>4, <2>5, <2>6 DEF FormFits
  <2>8. step \in told' \/ stored[step] >= Head(completions).value
    BY <1>1, <2>2, <2>3 DEF RequestFits
  <2>9. QueueFits'
    BY <2>1, <2>2, <2>4, <2>6, <2>8, QueueShrinks
  <2>10. ASSUME NEW q \in requests' PROVE RequestFits(q)'
    <3>1. q.id # completing \/ q.step \in told'
      BY <1>3, <1>7, <2>2, <2>3
    <3>2. QED
      BY <1>2, <1>3, <2>2, <2>6, <3>1, RequestStays
  <2>11. QED
    BY <1>4, <2>7, <2>9, <2>10 DEF FormInv
<1>8. ASSUME launch.at = "sent", Form!LaunchEnds(answer) PROVE FormInv'
  <2>1. /\ launch' = IF answer = 0 THEN Form!NotLaunching ELSE [at |-> "done", on |-> 0]
        /\ UNCHANGED <<known, saving, save, completions, completing, failed, told, unsaved>>
    BY <1>8 DEF Form!LaunchEnds
  <2>2. launch'.at \in {"no", "done"} /\ completions = << >>
    BY <1>1, <1>8, <2>1 DEF Form!NotLaunching, FormFits
  <2>3. FormFits'
    BY <1>1, <2>1, <2>2 DEF FormFits
  <2>4. \A q \in requests' : RequestFits(q)'
    BY <1>2, <1>3, <2>1, RequestStays
  <2>5. QED
    BY <1>2, <1>4, <2>1, <2>3, <2>4, QueueStays DEF FormInv
<1>9. QED
  BY <1>6, <1>7, <1>8 DEF Form!Ends

(* The server goes on with a request.                                      *)
LEMMA Served ==
  ASSUME FormInv, NEW r \in requests, NEW at \in {"sent", "read", "done"}, NEW answer \in Nat,
         Form!Becomes(r, at, answer),
         \A q \in requests \ {r} : RequestFits(q)',
         UNCHANGED <<values, completions, completing, save, told, sent>>,
         r.kind # "launch" => answer <= drafts'[r.step].version,
         r.kind = "complete" /\ r.step \notin told /\ answer # 0 => stored'[r.step] >= r.value
  PROVE  RequestsFit'
<1>1. RequestFits(r) /\ r \in Request /\ r.id \in 1..sent /\ rank \in 0..Form!Submitted
  BY DEF FormInv, FormFits, RequestsFit, RequestFits
<1>2. PICK new : new = [r EXCEPT !.at = at, !.answer = answer, !.rank = IF r.kind = "complete" THEN rank ELSE 0]
  OBVIOUS
<1>3. requests' = requests \ {r} \/ requests' = (requests \ {r}) \cup {new}
  BY <1>2 DEF Form!Becomes
<1>4. /\ new \in Request /\ new.id = r.id /\ new.kind = r.kind /\ new.step = r.step /\ new.value = r.value
      /\ new.answer = answer
  <2>1. (IF r.kind = "complete" THEN rank ELSE 0) \in 0..Form!Submitted
    BY <1>1, FormBounds
  <2>2. QED
    BY <1>1, <1>2, <2>1 DEF Request
<1>5. RequestFits(new)'
  BY <1>1, <1>4 DEF RequestFits
<1>6. \A q, p \in requests \ {r} : (q.id = p.id => q = p) /\ q.id # r.id
  BY DEF FormInv, RequestsFit
<1>7. QED
  BY <1>3, <1>4, <1>5, <1>6 DEF RequestsFit

LEMMA FormServes ==
  ASSUME FormInv, NEW r \in requests,
         Form!ReadForRequest(r) \/ Form!SaveDraft(r) \/ Form!CompleteStep(r) \/ Form!LaunchStore(r)
  PROVE  FormInv'
<1>0. /\ FormFits /\ QueueFits /\ RequestFits(r) /\ r \in Request /\ sent \in Nat /\ completions \in Seq(Completion)
      /\ values \in [Steps -> Contents] /\ drafts \in [Steps -> Draft] /\ stored \in [Steps -> Contents]
  BY DEF FormInv, FormFits, QueueFits, RequestsFit, RequestFits
<1>1. /\ UNCHANGED <<values, shown, generation, known, pending, save, completions, completing, failed, launch, saving>>
      /\ UNCHANGED <<sent, confirmed, told, unsaved>>
  BY DEF Form!ReadForRequest, Form!SaveDraft, Form!CompleteStep, Form!LaunchStore, Form!pageVars,
         Form!historyVars, Form!serverVars
<1>2. \A q \in requests : q.id \in 1..sent /\ (q.id = r.id => q = r)
  BY DEF FormInv, RequestsFit, RequestFits
<1>3. ASSUME drafts' \in [Steps -> Draft], \A s \in Steps : drafts[s].version <= drafts'[s].version
      PROVE  /\ \A s \in Steps : known[s] <= drafts'[s].version
             /\ \A q \in requests :
                  (q.kind = "complete" /\ q.step \notin told => stored'[q.step] = stored[q.step]) => RequestFits(q)'
  <2>1. \A s \in Steps : known[s] <= drafts'[s].version
    <3>1. SUFFICES ASSUME NEW s \in Steps PROVE known[s] <= drafts'[s].version
      OBVIOUS
    <3>2. known[s] \in Nat /\ drafts[s].version \in Nat /\ drafts'[s].version \in Nat /\ known[s] <= drafts[s].version
      BY <1>0, <1>3 DEF FormFits, Draft
    <3>3. QED
      BY <1>3, <3>2
  <2>2. \A s \in Steps : drafts[s].version <= drafts'[s].version /\ values[s] <= values'[s]
    BY <1>1, <1>3, Versions
  <2>3. sent' \in Nat /\ sent <= sent' /\ values' \in [Steps -> Contents]
    BY <1>0, <1>1
  <2>4. QED
    BY <1>1, <1>3, <2>1, <2>2, <2>3, RequestStays
<1>4. ASSUME UNCHANGED stored PROVE QueueFits'
  <2>1. values' \in [Steps -> Contents] /\ \A s \in Steps : values[s] <= values'[s]
    BY <1>0, <1>1, Versions
  <2>2. QED
    BY <1>1, <1>4, <2>1, QueueStays
<1>5. ASSUME UNCHANGED <<drafts, stored>>, rank' \in 0..Form!Submitted, slips' = slips,
             NEW at \in {"sent", "read", "done"}, NEW answer \in Nat, Form!Becomes(r, at, answer),
             answer = 0 \/ r.kind = "launch"
      PROVE  FormInv'
  <2>1. drafts' \in [Steps -> Draft] /\ \A s \in Steps : drafts[s].version <= drafts'[s].version
    BY <1>0, <1>5, Versions
  <2>2. (\A s \in Steps : known[s] <= drafts'[s].version) /\ \A q \in requests : RequestFits(q)'
    BY <1>3, <1>5, <2>1
  <2>3. r.kind # "launch" => answer <= drafts'[r.step].version
    BY <1>0, <1>5, Versions DEF RequestFits
  <2>4. r.kind = "complete" /\ r.step \notin told /\ answer # 0 => stored'[r.step] >= r.value
    BY <1>5
  <2>5. RequestsFit'
    BY <1>1, <1>5, <2>2, <2>3, <2>4, Served
  <2>6. FormFits'
    BY <1>0, <1>1, <1>5 DEF FormFits
  <2>7. QED
    BY <1>4, <1>5, <2>5, <2>6 DEF FormInv
<1>6. CASE Form!ReadForRequest(r)
  <2>1. UNCHANGED <<drafts, stored, rank, slips>>
    BY <1>6 DEF Form!ReadForRequest, Form!serverVars
  <2>2. PICK at \in {"sent", "read", "done"}, answer \in {0, 1} :
          Form!Becomes(r, at, answer) /\ (answer = 0 \/ r.kind = "launch")
    <3>1. r.kind \in {"save", "complete", "launch"}
      BY <1>0 DEF Request
    <3>2. CASE r.kind = "launch"
      BY <1>6, <3>2 DEF Form!ReadForRequest
    <3>3. CASE r.kind = "save"
      BY <1>6, <3>3 DEF Form!ReadForRequest
    <3>4. CASE r.kind = "complete"
      BY <1>6, <3>4 DEF Form!ReadForRequest
    <3>5. QED
      BY <3>1, <3>2, <3>3, <3>4
  <2>3. answer \in Nat /\ rank' \in 0..Form!Submitted
    BY <1>0, <2>1, <2>2 DEF FormFits
  <2>4. QED
    BY <1>5, <2>1, <2>2, <2>3
<1>7. CASE Form!LaunchStore(r)
  <2>1. r.kind = "launch" /\ rank' = Form!Submitted /\ Form!Becomes(r, "done", 1) /\ UNCHANGED <<drafts, stored, slips>>
    BY <1>7 DEF Form!LaunchStore
  <2>2. rank' \in 0..Form!Submitted /\ 1 \in Nat /\ "done" \in {"sent", "read", "done"}
    BY <2>1, FormBounds
  <2>3. QED
    BY <1>5, <2>1, <2>2
<1>8. ASSUME NEW step \in Steps, r.step = step,
             drafts' = [drafts EXCEPT ![r.step] = [value |-> r.value, version |-> @.version + 1]]
      PROVE  /\ drafts' \in [Steps -> Draft] /\ drafts'[step].version \in Nat
             /\ \A s \in Steps : drafts[s].version <= drafts'[s].version
  <2>1. PICK new : new = [value |-> r.value, version |-> drafts[step].version + 1]
    OBVIOUS
  <2>2. drafts[step].version \in Nat
    BY Versions
  <2>3. new \in Draft /\ drafts[step].version <= new.version
    BY <1>0, <2>1, <2>2 DEF Draft, Request
  <2>4. drafts' = [drafts EXCEPT ![step] = new]
    BY <1>8, <2>1
  <2>5. QED
    BY <1>0, <2>3, <2>4, Versions DEF Draft
<1>9. CASE Form!SaveDraft(r)
  <2>1. /\ r.kind \in {"save", "complete"} /\ UNCHANGED <<stored, rank>> /\ slips' \in 0..MaxSlips
        /\ drafts' = [drafts EXCEPT ![r.step] = [value |-> r.value, version |-> @.version + 1]]
        /\ Form!Becomes(r, "done", IF r.kind = "save" THEN drafts'[r.step].version ELSE 0)
    <3>1. slips' = slips \/ (slips < MaxSlips /\ slips' = slips + 1)
      BY <1>9 DEF Form!SaveDraft
    <3>2. slips' \in 0..MaxSlips
      BY <1>0, <3>1, FormBounds DEF FormFits
    <3>3. QED
      BY <1>9, <3>2 DEF Form!SaveDraft
  <2>2. PICK step \in Steps : step = r.step
    BY <1>0, <2>1 DEF RequestFits
  <2>3. /\ drafts' \in [Steps -> Draft] /\ drafts'[step].version \in Nat
        /\ \A s \in Steps : drafts[s].version <= drafts'[s].version
    BY <1>8, <2>1, <2>2
  <2>4. PICK answer \in Nat : answer = IF r.kind = "save" THEN drafts'[r.step].version ELSE 0
    BY <2>2, <2>3
  <2>5. (\A s \in Steps : known[s] <= drafts'[s].version) /\ \A q \in requests : RequestFits(q)'
    BY <1>3, <2>1, <2>3
  <2>6. answer <= drafts'[r.step].version
    BY <2>2, <2>3, <2>4
  <2>7. RequestsFit'
    BY <1>1, <2>1, <2>4, <2>5, <2>6, Served
  <2>8. FormFits'
    BY <1>0, <1>1, <2>1, <2>3, <2>5 DEF FormFits
  <2>9. QED
    BY <1>4, <2>1, <2>7, <2>8 DEF FormInv
<1>10. CASE Form!CompleteStep(r)
  <2>1. /\ r.kind = "complete" /\ slips' = slips
        /\ drafts' = [drafts EXCEPT ![r.step] = [value |-> r.value, version |-> @.version + 1]]
        /\ stored' = [stored EXCEPT ![r.step] = r.value]
        /\ rank' = IF r.rank <= r.step THEN r.step ELSE r.rank
        /\ Form!Becomes(r, "done", drafts'[r.step].version)
    BY <1>10 DEF Form!CompleteStep
  <2>2. PICK step \in Steps : step = r.step
    BY <1>0, <2>1 DEF RequestFits
  <2>3. /\ drafts' \in [Steps -> Draft] /\ drafts'[step].version \in Nat
        /\ \A s \in Steps : drafts[s].version <= drafts'[s].version
    BY <1>8, <2>1, <2>2
  <2>4. PICK answer \in Nat : answer = drafts'[r.step].version
    BY <2>2, <2>3
  <2>5. PICK c \in Contents : c = r.value
    BY <1>0 DEF Request
  <2>6. /\ stored' \in [Steps -> Contents] /\ stored'[step] = c
        /\ \A s \in Steps : s # step => stored'[s] = stored[s]
    BY <1>0, <2>1, <2>2, <2>5
  <2>7. /\ c <= values[step]
        /\ step \notin told =>
             /\ r.id = completing /\ completions # << >>
             /\ c = Head(completions).value /\ step = Head(completions).step
    <3>1. r.id = completing => completing # 0
      BY <1>0 DEF RequestFits
    <3>2. QED
      BY <1>0, <2>1, <2>2, <2>5, <3>1 DEF RequestFits, FormFits
  <2>8. ASSUME NEW q \in requests \ {r} PROVE RequestFits(q)'
    <3>1. q.kind = "complete" /\ q.step \notin told => q.step \in Steps /\ q.id = completing
      BY DEF FormInv, RequestsFit, RequestFits
    <3>2. q.kind = "complete" /\ q.step \notin told => stored'[q.step] = stored[q.step]
      BY <1>2, <2>6, <2>7, <3>1
    <3>3. QED
      BY <1>3, <2>3, <3>2
  <2>9. answer <= drafts'[r.step].version /\ stored'[r.step] >= r.value
    <3>1. c \in Nat
      BY DEF Contents
    <3>2. QED
      BY <2>2, <2>3, <2>4, <2>5, <2>6, <3>1
  <2>10. RequestsFit'
    BY <1>1, <2>1, <2>4, <2>8, <2>9, Served
  <2>11. FormFits'
    <3>1. rank' \in 0..Form!Submitted
      <4>1. r.rank \in 0..Form!Submitted /\ step \in 1..LastStep /\ LastStep \in Nat /\ Form!Submitted = LastStep + 2
        BY <1>0, FormBounds DEF Request
      <4>2. QED
        BY <2>1, <2>2, <4>1
    <3>2. \A s \in Steps : stored'[s] <= values[s]
      BY <1>0, <2>6, <2>7 DEF FormFits
    <3>3. \A s \in Steps : known[s] <= drafts'[s].version
      BY <1>3, <2>3
    <3>4. QED
      BY <1>0, <1>1, <2>1, <2>3, <2>6, <3>1, <3>2, <3>3 DEF FormFits
  <2>12. QueueFits'
    <3>1. step \notin told =>
            /\ 1 \in 1..Len(completions) /\ completions[1].value = c /\ completions[1].step = step
            /\ stored[step] <= c
      <4>1. SUFFICES ASSUME step \notin told
                     PROVE  /\ 1 \in 1..Len(completions) /\ completions[1].value = c /\ completions[1].step = step
                            /\ stored[step] <= c
        OBVIOUS
      <4>2. Head(completions) = completions[1] /\ 1 \in 1..Len(completions)
        BY <1>0, <2>7, <4>1, HeadAndTail
      <4>3. QED
        BY <1>0, <2>7, <4>1, <4>2 DEF QueueFits
    <3>2. ASSUME NEW i \in 1..Len(completions), completions[i].step \notin told
          PROVE  stored'[completions[i].step] <= completions[i].value
      <4>1. completions[i] \in Completion
        BY <1>0
      <4>2. PICK s \in Steps : s = completions[i].step
        BY <4>1 DEF Completion
      <4>3. CASE s = step
        <5>1. c <= completions[i].value
          <6>1. CASE i = 1
            BY <3>1, <3>2, <4>2, <4>3, <6>1 DEF Contents
          <6>2. CASE i # 1
            <7>1. 1 < i /\ 1 \in 1..Len(completions)
              BY <3>1, <3>2, <4>2, <4>3, <6>2
            <7>2. completions[i].step = completions[1].step => completions[1].value <= completions[i].value
              BY <1>0, <7>1 DEF QueueFits
            <7>3. QED
              BY <3>1, <3>2, <4>2, <4>3, <7>2
          <6>3. QED
            BY <6>1, <6>2
        <5>2. QED
          BY <2>6, <4>2, <4>3, <5>1
      <4>4. CASE s # step
        BY <1>0, <2>6, <3>2, <4>2, <4>4 DEF QueueFits
      <4>5. QED
        BY <4>3, <4>4
    <3>3. ASSUME NEW s \in Steps \ told
          PROVE  \/ stored'[s] >= confirmed[s]
                 \/ \E i \in 1..Len(completions) : completions[i].step = s /\ completions[i].value >= confirmed[s]
      <4>1. stored[s] \in Nat /\ confirmed[s] \in Nat /\ c \in Nat
        BY Versions DEF Contents
      <4>2. stored'[s] >= stored[s] /\ stored'[s] \in Nat
        BY <2>6, <3>1, <3>3, <4>1
      <4>3. stored[s] >= confirmed[s] => stored'[s] >= confirmed[s]
        BY <4>1, <4>2
      <4>4. QED
        BY <1>0, <4>3 DEF QueueFits
    <3>4. QED
      BY <1>0, <1>1, <3>2, <3>3 DEF QueueFits
  <2>13. QED
    BY <2>10, <2>11, <2>12 DEF FormInv
<1>11. QED
  BY <1>6, <1>7, <1>9, <1>10

LEMMA FormHears ==
  ASSUME FormInv, NEW r \in requests, Form!Arrives(r) \/ Form!Breaks(r)
  PROVE  FormInv'
<1>1. UNCHANGED <<values, shown, generation, pending, drafts, stored, rank, sent, confirmed>>
  BY DEF Form!Arrives, Form!Breaks, Form!serverVars
<1>2. PICK answer \in Nat : answer = r.answer
  BY DEF FormInv, RequestsFit, RequestFits, Request
<1>3. slips \in 0..MaxSlips
  BY DEF FormInv, FormFits
<1>4. CASE Form!Arrives(r)
  <2>1. Form!Ends(r.id, answer) /\ requests' = requests \ {r} /\ slips' = slips
    BY <1>2, <1>4 DEF Form!Arrives
  <2>2. QED
    BY <1>1, <1>2, <1>3, <2>1, FormEnds
<1>5. CASE Form!Breaks(r)
  <2>1. Form!Ends(r.id, 0) /\ requests' \subseteq requests /\ slips < MaxSlips /\ slips' = slips + 1
    BY <1>5, LeftAreRequests DEF Form!Breaks
  <2>2. slips' \in 0..MaxSlips
    BY <1>3, <2>1, FormBounds
  <2>3. QED
    BY <1>1, <2>1, <2>2, FormEnds
<1>6. QED
  BY <1>4, <1>5

LEMMA FormStep == FormInv /\ Form!Next => FormInv'
  BY FormPage, FormContinues, FormGoesOn, FormHears, FormServes DEF Form!Next

LEMMA FormIsTyped == FormInv => Form!TypeOK
<1> SUFFICES ASSUME FormInv PROVE Form!TypeOK
  OBVIOUS
<1>1. Contents = 0..MaxEdits /\ Form!Steps = Steps
  BY FormBounds DEF Contents
<1>2. QED
  BY <1>1 DEF FormInv, FormFits, Form!TypeOK

LEMMA FormIsConfirmed == FormInv => ConfirmedIsSubmitted
<1> SUFFICES ASSUME FormInv, launch.at \in {"sent", "done"}, NEW s \in Steps \ told
             PROVE  stored[s] >= confirmed[s]
  BY FormBounds DEF ConfirmedIsSubmitted, Form!ConfirmedIsSubmitted, Form!Launches
<1>1. completions = << >>
  BY DEF FormInv, FormFits
<1>2. Len(completions) = 0
  BY <1>1
<1>3. QED
  BY <1>2 DEF FormInv, QueueFits

-----------------------------------------------------------------------------
(* PhotoQueue.  In what follows D is the draft, K the view of the          *)
(* component left behind, M the mounted component, and over the photos     *)
(* that a component already gone has replaced.  Number 0 stands for no     *)
(* attempt.                                                                *)
ViewFits(V, top, over) ==
  /\ V \in [Photos -> Pictures!Photo]
  /\ \A p \in Photos :
       /\ V[p].try <= top
       /\ ~Pictures!There(V[p]) => V[p].try = 0
       /\ V[p].status \in Pictures!Active \cup {"failed", "aborted"} => V[p].try # 0
       /\ p \notin over => V[p].asset \in {0, V[p].file}

(* An attempt belongs to one photo, and where a photo still waits for it,  *)
(* that photo shows the file it sends.  What the draft waits for from the  *)
(* component left behind, that component waits for too.                    *)
AttemptFits(m, a, D, K, M, top, over) ==
  /\ a.photo \in Photos /\ a.try \in 1..top /\ a.file \in Pictures!File /\ a.n \in Nat
  /\ \A p \in Photos : D[p].try = a.try =>
       /\ p = a.photo /\ (p \notin over => D[p].file = a.file)
       /\ m # M => K[p].try = a.try
  /\ \A p \in Photos : K[p].try = a.try => p = a.photo /\ (p \notin over => K[p].file = a.file)

PairFits(D, K, over) ==
  \A p \in Photos \ over : D[p].try = K[p].try /\ K[p].try # 0 => D[p].file = K[p].file

Item == [photo : Photos, try : Pictures!Try, file : Pictures!File, n : Nat]

Airborne == [mount : Pictures!Mounts, photo : Photos, try : Pictures!Try, file : Pictures!File, n : Nat,
            at : {"key", "sent", "session", "resent", "deaf"}, aborted : BOOLEAN]

(* Attempts Q that wait and F under way are apart, and each waiting photo  *)
(* of the draft has one of them.                                           *)
AttemptsFit(Q, F, D, K, M, top, over) ==
  /\ Q \in [Pictures!Mounts -> SUBSET Item] /\ F \subseteq Airborne
  /\ \A m \in Pictures!Mounts : \A i \in Q[m] :
       AttemptFits(m, i, D, K, M, top, over) /\ \A f \in F : f.mount = m => f.try # i.try
  /\ \A f \in F : AttemptFits(f.mount, f, D, K, M, top, over)
  /\ \A p \in Photos : D[p].status \in Pictures!Active =>
       \/ \E f \in F : f.try = D[p].try
       \/ \E m \in Pictures!Mounts : \E i \in Q[m] : i.try = D[p].try

(* The file that a component holds for a photo is the one the photo shows. *)
FilesFit(held, V, over) ==
  \A p \in Photos : /\ V[p].status = "absent" => held[p] = 0
                    /\ p \notin over /\ Pictures!There(V[p]) => held[p] \in {0, V[p].file}

PhotosFit(Q, F, D, K, M, top, over) ==
  /\ ViewFits(D, top, over) /\ ViewFits(K, top, over) /\ PairFits(D, K, over)
  /\ AttemptsFit(Q, F, D, K, M, top, over)

QueueMoves(Q, F) == \A m \in Pictures!Mounts : Q[m] # {} => \E f \in F : f.mount = m

Gone(D, K, M) == IF M = 1 THEN \A p \in Photos : K[p].status = "absent"
                 ELSE \A p \in Photos : K[p].status = "removed" => D[p].status = "removed"

PhotoInv ==
  /\ mount \in Pictures!Mounts /\ crossed \subseteq Photos
  /\ used \in [files : Pictures!File, tries : Pictures!Try]
  /\ timers \in [Pictures!Mounts -> [Photos -> Pictures!Try]]
  /\ files \in [Pictures!Mounts -> [Photos -> Pictures!File]]
  /\ picked \subseteq [mount : Pictures!Mounts, photo : Photos, file : Pictures!File]
  /\ PhotosFit(queue, flights, draft, kept, mount, used.tries, crossed)
  /\ QueueMoves(queue, flights)
  /\ Gone(draft, kept, mount)
  /\ \A m \in Pictures!Mounts : FilesFit(files[m], Pictures!Seen(m), crossed)
  /\ mount = 1 => files[2] = [p \in Photos |-> 0] /\ \A r \in picked : r.mount = 1

LEMMA PhotoConstants ==
  /\ MaxFiles \in Nat /\ 1 <= MaxFiles /\ MaxTries \in Nat /\ Concurrency \in Nat /\ 1 <= Concurrency
  /\ Pictures!Mounts = {1, 2} /\ Pictures!File = 0..MaxFiles /\ Pictures!Try = 0..MaxTries
  /\ Pictures!Active = {"queued", "validating", "uploading", "retrying"}
  BY PhotoBounds, StorefrontBounds DEF Pictures!Mounts, Pictures!File, Pictures!Try, Pictures!Active

(* Two attempts are the same but for what has become of them.              *)
SameAttempt(a, b) == a.photo = b.photo /\ a.try = b.try /\ a.file = b.file /\ a.n = b.n

Apart(Q, F) == \A m \in Pictures!Mounts : \A i \in Q[m] : \A f \in F : f.mount = m => f.try # i.try

Waits(Q, F, D) ==
  \A p \in Photos : D[p].status \in Pictures!Active =>
    \/ \E f \in F : f.try = D[p].try
    \/ \E m \in Pictures!Mounts : \E i \in Q[m] : i.try = D[p].try

(* Attempts go on or end, and no photo gets a new one: photos keep theirs, *)
(* with its file, or have none any more.                                   *)
Stays(Q, F, D, K, Q2, F2, D2, K2, top, over) ==
  /\ Q2 \in [Pictures!Mounts -> SUBSET Item] /\ \A m \in Pictures!Mounts : Q2[m] \subseteq Q[m]
  /\ F2 \subseteq Airborne
  /\ \A f \in F2 : \/ \E g \in F : SameAttempt(f, g) /\ f.mount = g.mount
                   \/ \E i \in Q[f.mount] : SameAttempt(f, i)
  /\ ViewFits(D2, top, over) /\ ViewFits(K2, top, over)
  /\ \A p \in Photos : D2[p].try # 0 => D2[p].try = D[p].try /\ D2[p].file = D[p].file /\ K2[p].try = K[p].try
  /\ \A p \in Photos : K2[p].try # 0 => K2[p].try = K[p].try /\ K2[p].file = K[p].file
  /\ Apart(Q2, F2) /\ Waits(Q2, F2, D2)

LEMMA PhotosStay ==
  ASSUME NEW Q, NEW F, NEW D, NEW K, NEW M \in Pictures!Mounts, NEW top \in Pictures!Try, NEW over,
         NEW Q2, NEW F2, NEW D2, NEW K2,
         PhotosFit(Q, F, D, K, M, top, over), Stays(Q, F, D, K, Q2, F2, D2, K2, top, over)
  PROVE  PhotosFit(Q2, F2, D2, K2, M, top, over)
<1> USE DEF Stays
<1>1. ASSUME NEW m, NEW a, NEW b, AttemptFits(m, b, D, K, M, top, over), SameAttempt(a, b)
      PROVE  AttemptFits(m, a, D2, K2, M, top, over)
  <2>1. a.try # 0
    BY <1>1, PhotoConstants DEF AttemptFits, SameAttempt
  <2>2. QED
    BY <1>1, <2>1 DEF AttemptFits, SameAttempt
<1>2. ASSUME NEW m \in Pictures!Mounts, NEW i \in Q2[m] PROVE AttemptFits(m, i, D2, K2, M, top, over)
  <2>1. AttemptFits(m, i, D, K, M, top, over)
    BY DEF PhotosFit, AttemptsFit
  <2>2. SameAttempt(i, i)
    BY DEF SameAttempt
  <2>3. QED
    BY <1>1, <2>1, <2>2
<1>3. ASSUME NEW f \in F2 PROVE AttemptFits(f.mount, f, D2, K2, M, top, over)
  <2>1. ASSUME NEW g \in F, SameAttempt(f, g), f.mount = g.mount
        PROVE  AttemptFits(f.mount, f, D2, K2, M, top, over)
    <3>1. AttemptFits(f.mount, g, D, K, M, top, over)
      BY <2>1 DEF PhotosFit, AttemptsFit
    <3>2. QED
      BY <1>1, <2>1, <3>1
  <2>2. ASSUME NEW i \in Q[f.mount], SameAttempt(f, i)
        PROVE  AttemptFits(f.mount, f, D2, K2, M, top, over)
    <3>1. f.mount \in Pictures!Mounts
      BY DEF Airborne
    <3>2. AttemptFits(f.mount, i, D, K, M, top, over)
      BY <3>1 DEF PhotosFit, AttemptsFit
    <3>3. QED
      BY <1>1, <2>2, <3>2
  <2>3. QED
    BY <2>1, <2>2
<1>4. PairFits(D2, K2, over)
  BY DEF PhotosFit, PairFits
<1>5. AttemptsFit(Q2, F2, D2, K2, M, top, over)
  BY <1>2, <1>3 DEF AttemptsFit, Apart, Waits
<1>6. QED
  BY <1>4, <1>5 DEF PhotosFit

(* Photo p of a view waits for the new attempt a.                          *)
Tries(v, a, p, over) ==
  /\ v \in Pictures!Photo /\ Pictures!There(v) /\ v.try = a.try
  /\ p \notin over => v.file = a.file /\ v.asset \in {0, v.file}

(* Attempt a of component m is queued, with those of W: d and k are photo  *)
(* p in the draft and in the view of the component left behind.            *)
NewTry(Q, D, K, M, top, over, m, p, a, W, d, k, over2) ==
  /\ a \in Item /\ a.photo = p /\ a.try = top + 1 /\ top < MaxTries /\ over \subseteq over2
  /\ W \subseteq Q[m] /\ \A i \in Q[m] \ W : i.photo = p
  /\ d = D[p] \/ Tries(d, a, p, over2)
  /\ k = K[p] \/ Tries(k, a, p, over2)
  /\ d.try = a.try /\ m # M => k.try = a.try
  /\ d = D[p] /\ d.try # 0 /\ d.try = K[p].try => k = K[p]
  /\ W = Q[m] \/ d.status \notin Pictures!Active \/ d.try = a.try

LEMMA PhotosTry ==
  ASSUME NEW Q, NEW F, NEW D, NEW K, NEW M \in Pictures!Mounts, NEW top \in Pictures!Try, NEW over,
         PhotosFit(Q, F, D, K, M, top, over),
         NEW m \in Pictures!Mounts, NEW p \in Photos, NEW a, NEW W, NEW d, NEW k, NEW over2,
         NewTry(Q, D, K, M, top, over, m, p, a, W, d, k, over2)
  PROVE  PhotosFit([Q EXCEPT ![m] = W \cup {a}], F, [D EXCEPT ![p] = d], [K EXCEPT ![p] = k], M, top + 1, over2)
<1> USE DEF NewTry
<1> DEFINE D2 == [D EXCEPT ![p] = d]
           K2 == [K EXCEPT ![p] = k]
<1> DEFINE Q2 == [Q EXCEPT ![m] = W \cup {a}]
<1>1. /\ Q \in [Pictures!Mounts -> SUBSET Item] /\ F \subseteq Airborne
      /\ ViewFits(D, top, over) /\ ViewFits(K, top, over) /\ PairFits(D, K, over)
      /\ AttemptsFit(Q, F, D, K, M, top, over)
  BY DEF PhotosFit, AttemptsFit
<1>2. top \in Nat /\ top + 1 \in 1..MaxTries
  BY PhotoConstants
<1>3. ASSUME NEW V, NEW v, ViewFits(V, top, over), v = V[p] \/ Tries(v, a, p, over2)
      PROVE  ViewFits([V EXCEPT ![p] = v], top + 1, over2)
  <2>1. V \in [Photos -> Pictures!Photo] /\ V[p] \in Pictures!Photo
    BY <1>3 DEF ViewFits
  <2>2. v \in Pictures!Photo /\ v.try \in Nat /\ v.try <= top + 1
    BY <1>2, <1>3, <2>1, PhotoConstants DEF ViewFits, Tries, Pictures!Photo
  <2>3. \A q \in Photos : V[q].try \in Nat /\ V[q].try <= top + 1
    BY <1>2, <1>3, <2>1, PhotoConstants DEF ViewFits, Pictures!Photo
  <2>4. /\ ~Pictures!There(v) => v.try = 0
        /\ v.status \in Pictures!Active \cup {"failed", "aborted"} => v.try # 0
        /\ p \notin over2 => v.asset \in {0, v.file}
    BY <1>2, <1>3 DEF ViewFits, Tries
  <2>5. QED
    BY <1>3, <2>1, <2>2, <2>3, <2>4 DEF ViewFits
<1>4. ViewFits(D2, top + 1, over2) /\ ViewFits(K2, top + 1, over2)
  BY <1>1, <1>3
<1>5. /\ \A q \in Photos : D[q].try <= top /\ K[q].try <= top /\ D[q].try \in Nat /\ K[q].try \in Nat
      /\ \A q \in Photos : D2[q] = IF q = p THEN d ELSE D[q]
      /\ \A q \in Photos : K2[q] = IF q = p THEN k ELSE K[q]
  BY <1>1, PhotoConstants DEF ViewFits, Pictures!Photo
<1>6. \A q \in Photos : D[q].try # a.try /\ K[q].try # a.try
  BY <1>2, <1>5
<1>7. PairFits(D2, K2, over2)
  <2>1. ASSUME NEW q \in Photos \ over2, D2[q].try = K2[q].try, K2[q].try # 0 PROVE D2[q].file = K2[q].file
    <3>1. CASE q # p
      BY <1>1, <1>5, <2>1, <3>1 DEF PairFits
    <3>2. CASE q = p /\ d = D[p] /\ k = K[p]
      BY <1>1, <1>5, <2>1, <3>2 DEF PairFits
    <3>3. CASE q = p /\ Tries(d, a, p, over2)
      BY <1>5, <1>6, <2>1, <3>3 DEF Tries
    <3>4. CASE q = p /\ Tries(k, a, p, over2)
      BY <1>5, <1>6, <2>1, <3>4 DEF Tries
    <3>5. QED
      BY <3>1, <3>2, <3>3, <3>4
  <2>2. QED
    BY <2>1 DEF PairFits
<1>8. ASSUME NEW j, NEW b, AttemptFits(j, b, D, K, M, top, over) PROVE AttemptFits(j, b, D2, K2, M, top + 1, over2)
  <2>1. b.try \in 1..top /\ b.try \in 1..(top + 1) /\ b.try # a.try /\ b.try # 0
    BY <1>2, <1>8 DEF AttemptFits
  <2>2. ASSUME NEW q \in Photos, D2[q].try = b.try
        PROVE  /\ q = b.photo /\ (q \notin over2 => D2[q].file = b.file)
               /\ j # M => K2[q].try = b.try
    <3>1. D2[q] = D[q]
      BY <1>5, <2>1, <2>2 DEF Tries
    <3>2. q = b.photo /\ (q \notin over => D[q].file = b.file) /\ (j # M => K[q].try = b.try)
      BY <1>8, <2>2, <3>1 DEF AttemptFits
    <3>3. j # M => K2[q] = K[q]
      BY <1>5, <2>1, <2>2, <3>1, <3>2
    <3>4. QED
      BY <3>1, <3>2, <3>3
  <2>3. ASSUME NEW q \in Photos, K2[q].try = b.try PROVE q = b.photo /\ (q \notin over2 => K2[q].file = b.file)
    <3>1. K2[q] = K[q]
      BY <1>5, <2>1, <2>3 DEF Tries
    <3>2. QED
      BY <1>8, <2>3, <3>1 DEF AttemptFits
  <2>4. QED
    BY <1>8, <2>1, <2>2, <2>3 DEF AttemptFits
<1>9. AttemptFits(m, a, D2, K2, M, top + 1, over2)
  <2>1. a.try \in 1..(top + 1) /\ a.file \in Pictures!File /\ a.n \in Nat
    BY <1>2 DEF Item
  <2>2. ASSUME NEW q \in Photos, D2[q].try = a.try
        PROVE  /\ q = p /\ (q \notin over2 => D2[q].file = a.file)
               /\ m # M => K2[q].try = a.try
    <3>1. q = p /\ D2[q] = d /\ K2[q] = k /\ d # D[p]
      BY <1>5, <1>6, <2>2
    <3>2. QED
      BY <2>2, <3>1 DEF Tries
  <2>3. ASSUME NEW q \in Photos, K2[q].try = a.try PROVE q = p /\ (q \notin over2 => K2[q].file = a.file)
    <3>1. q = p /\ K2[q] = k /\ k # K[p]
      BY <1>5, <1>6, <2>3
    <3>2. QED
      BY <3>1 DEF Tries
  <2>4. QED
    BY <2>1, <2>2, <2>3 DEF AttemptFits
<1>10. /\ Q2 \in [Pictures!Mounts -> SUBSET Item]
       /\ \A j \in Pictures!Mounts : \A i \in Q2[j] : i \in Q[j] \/ (j = m /\ i = a)
  BY <1>1
<1>11. \A j \in Pictures!Mounts : \A i \in Q2[j] : AttemptFits(j, i, D2, K2, M, top + 1, over2)
  BY <1>1, <1>8, <1>9, <1>10 DEF AttemptsFit
<1>12. \A f \in F : AttemptFits(f.mount, f, D2, K2, M, top + 1, over2)
  BY <1>1, <1>8 DEF AttemptsFit
<1>13. \A j \in Pictures!Mounts : \A i \in Q2[j] : \A f \in F : f.mount = j => f.try # i.try
  <2>1. \A f \in F : f.try # a.try
    <3>1. \A f \in F : f.try \in 1..top
      BY <1>1 DEF AttemptsFit, AttemptFits
    <3>2. QED
      BY <1>2, <3>1
  <2>2. QED
    BY <1>1, <1>10, <2>1 DEF AttemptsFit
<1>14. ASSUME NEW q \in Photos, D2[q].status \in Pictures!Active
       PROVE  \/ \E f \in F : f.try = D2[q].try
              \/ \E j \in Pictures!Mounts : \E i \in Q2[j] : i.try = D2[q].try
  <2>1. CASE D2[q].try = a.try
    <3>1. a \in Q2[m]
      BY <1>1
    <3>2. QED
      BY <2>1, <3>1
  <2>2. CASE D2[q].try # a.try
    <3>1. D2[q] = D[q] /\ (q = p => W = Q[m])
      BY <1>5, <1>14, <2>2 DEF Tries
    <3>2. ASSUME NEW j \in Pictures!Mounts, NEW i \in Q[j], i.try = D[q].try PROVE i \in Q2[j]
      <4>1. i.photo = q
        BY <1>1, <3>2 DEF AttemptsFit, AttemptFits
      <4>2. j = m => i \in W
        BY <3>1, <4>1
      <4>3. QED
        BY <1>1, <4>2
    <3>3. QED
      BY <1>1, <1>14, <3>1, <3>2 DEF AttemptsFit
  <2>3. QED
    BY <2>1, <2>2
<1>15. AttemptsFit(Q2, F, D2, K2, M, top + 1, over2)
  BY <1>1, <1>10, <1>11, <1>12, <1>13, <1>14 DEF AttemptsFit
<1>16. QED
  BY <1>4, <1>7, <1>15 DEF PhotosFit

SameView(v, w) ==
  /\ v.try = w.try /\ v.file = w.file /\ (Pictures!There(v) <=> Pictures!There(w))
  /\ (v.status = "absent" <=> w.status = "absent") /\ (v.status = "removed" <=> w.status = "removed")

LEMMA BegunIs ==
  ASSUME NEW V \in [Photos -> Pictures!Photo], NEW B
  PROVE  /\ Pictures!Begun(V, B) \in [Photos -> Pictures!Photo]
         /\ \A p \in Photos : \/ Pictures!Begun(V, B)[p] = V[p]
                              \/ /\ Pictures!There(V[p]) /\ \E i \in B : V[p].try = i.try
                                 /\ Pictures!Begun(V, B)[p] = [V[p] EXCEPT !.status = "validating"]
<1>1. "validating" \in Pictures!Active
  BY PhotoConstants
<1>2. \A p \in Photos : [V[p] EXCEPT !.status = "validating"] \in Pictures!Photo
  BY <1>1 DEF Pictures!Photo
<1>3. QED
  BY <1>2 DEF Pictures!Begun, Pictures!IsAttempt

(* Attempts that begin leave the views as they were.                       *)
LEMMA BegunFits ==
  ASSUME NEW V, NEW top, NEW over, ViewFits(V, top, over), NEW B, \A i \in B : i.try # 0
  PROVE  /\ ViewFits(Pictures!Begun(V, B), top, over)
         /\ \A p \in Photos : SameView(Pictures!Begun(V, B)[p], V[p])
<1>1. V \in [Photos -> Pictures!Photo]
  BY DEF ViewFits
<1>2. PICK V2 : V2 = Pictures!Begun(V, B)
  OBVIOUS
<1>3. V2 \in [Photos -> Pictures!Photo]
  BY <1>1, <1>2, BegunIs
<1>4. ASSUME NEW p \in Photos
      PROVE  /\ SameView(V2[p], V[p]) /\ V2[p].asset = V[p].asset
             /\ V2[p].status \in Pictures!Active \cup {"failed", "aborted"} => V2[p].try # 0
  <2>1. CASE V2[p] = V[p]
    BY <2>1 DEF SameView, ViewFits
  <2>2. CASE /\ Pictures!There(V[p]) /\ \E i \in B : V[p].try = i.try
             /\ V2[p] = [V[p] EXCEPT !.status = "validating"]
    <3>1. V[p] \in Pictures!Photo
      BY <1>1
    <3>2. /\ V2[p].try = V[p].try /\ V2[p].file = V[p].file /\ V2[p].asset = V[p].asset
          /\ V2[p].status = "validating"
      BY <2>2, <3>1 DEF Pictures!Photo
    <3>3. QED
      BY <2>2, <3>2 DEF SameView, Pictures!There
  <2>3. QED
    BY <1>1, <1>2, <2>1, <2>2, BegunIs
<1>5. ViewFits(V2, top, over)
  BY <1>3, <1>4 DEF ViewFits, SameView
<1>6. QED
  BY <1>2, <1>4, <1>5

(* The queue is processed.                                                 *)
LEMMA PhotosProcess ==
  ASSUME NEW m \in Pictures!Mounts, NEW W, NEW out, NEW ended, NEW views, NEW M \in Pictures!Mounts,
         NEW top \in Pictures!Try, NEW over, queue \in [Pictures!Mounts -> SUBSET Item],
         PhotosFit([queue EXCEPT ![m] = W], out, views.draft, views.kept, M, top, over),
         \A j \in Pictures!Mounts \ {m} : queue[j] # {} => \E f \in out : f.mount = j,
         Pictures!Process(m, W, out, ended, views)
  PROVE  /\ PhotosFit(queue', flights', draft', kept', M, top, over) /\ QueueMoves(queue', flights')
         /\ \A p \in Photos : SameView(draft'[p], views.draft[p]) /\ SameView(kept'[p], views.kept[p])
<1>1. PICK Q : Q = [queue EXCEPT ![m] = W]
  OBVIOUS
<1>2. PICK D, K : D = views.draft /\ K = views.kept
  OBVIOUS
<1>3. PICK B : B = Pictures!NextUp(m, W, out, ended)
  OBVIOUS
<1>4. /\ queue' = [queue EXCEPT ![m] = W \ B]
      /\ flights' = out \cup {Pictures!Flight(m, i) : i \in B}
      /\ draft' = Pictures!Begun(D, B) /\ kept' = Pictures!Begun(K, B)
  BY <1>2, <1>3 DEF Pictures!Process, Pictures!Written
<1>5. /\ PhotosFit(Q, out, D, K, M, top, over) /\ AttemptsFit(Q, out, D, K, M, top, over)
      /\ ViewFits(D, top, over) /\ ViewFits(K, top, over)
      /\ Q \in [Pictures!Mounts -> SUBSET Item] /\ Q[m] = W /\ W \in SUBSET Item /\ out \subseteq Airborne
  BY <1>1, <1>2 DEF PhotosFit, AttemptsFit
<1>6. /\ B \subseteq W /\ \A first \in B, item \in W : first.try <= item.try
      /\ \A i \in W : i.try \in 1..top
  BY <1>3, <1>5 DEF Pictures!NextUp, AttemptsFit, AttemptFits
<1>7. /\ ViewFits(draft', top, over) /\ \A p \in Photos : SameView(draft'[p], D[p])
      /\ ViewFits(kept', top, over) /\ \A p \in Photos : SameView(kept'[p], K[p])
  <2>1. \A i \in B : i.try # 0
    BY <1>6, PhotoConstants
  <2>2. QED
    BY <1>4, <1>5, <2>1, BegunFits
<1>8. /\ queue' \in [Pictures!Mounts -> SUBSET Item] /\ queue'[m] = W \ B
      /\ \A j \in Pictures!Mounts : j # m => queue'[j] = queue[j] /\ queue'[j] = Q[j]
      /\ \A j \in Pictures!Mounts : queue'[j] \subseteq Q[j]
  BY <1>1, <1>4, <1>5
<1>9. \A i \in B : LET f == Pictures!Flight(m, i)
                   IN f \in Airborne /\ f.mount = m /\ SameAttempt(f, i) /\ i \in Q[m]
  BY <1>5, <1>6 DEF Pictures!Flight, Airborne, Item, SameAttempt
<1>10. flights' \in SUBSET Airborne
  BY <1>4, <1>5, <1>9
<1>11. ASSUME NEW f \in flights'
       PROVE  \/ \E g \in out : SameAttempt(f, g) /\ f.mount = g.mount
              \/ \E i \in Q[f.mount] : SameAttempt(f, i)
  <2>1. CASE f \in out
    BY <2>1 DEF SameAttempt
  <2>2. CASE f \in {Pictures!Flight(m, i) : i \in B}
    BY <1>9, <2>2
  <2>3. QED
    BY <1>4, <2>1, <2>2
<1>12. Apart(queue', flights')
  <2>1. ASSUME NEW j \in Pictures!Mounts, NEW i \in queue'[j], NEW f \in flights', f.mount = j
        PROVE  f.try # i.try
    <3>1. CASE f \in out
      BY <1>5, <1>8, <2>1, <3>1 DEF AttemptsFit
    <3>2. CASE f \in {Pictures!Flight(m, k) : k \in B}
      <4>1. PICK k \in B : f = Pictures!Flight(m, k)
        BY <3>2
      <4>2. f.mount = m /\ f.try = k.try /\ j = m /\ i \in W /\ i \notin B
        BY <1>8, <1>9, <2>1, <4>1 DEF SameAttempt
      <4>3. PICK item \in W : ~(i.try <= item.try)
        BY <1>3, <1>6, <4>2 DEF Pictures!NextUp
      <4>4. k.try <= item.try /\ i.try \in Nat /\ item.try \in Nat /\ k.try \in Nat
        BY <1>6, <4>2, PhotoConstants
      <4>5. QED
        BY <4>2, <4>3, <4>4
    <3>3. QED
      BY <1>4, <3>1, <3>2
  <2>2. QED
    BY <2>1 DEF Apart
<1>13. Waits(queue', flights', draft')
  <2>1. ASSUME NEW p \in Photos, draft'[p].status \in Pictures!Active
        PROVE  \/ \E f \in flights' : f.try = draft'[p].try
               \/ \E j \in Pictures!Mounts : \E i \in queue'[j] : i.try = draft'[p].try
    <3>1. draft'[p].try = D[p].try
      BY <1>7 DEF SameView
    <3>2. \A i \in B : \E f \in flights' : f.try = i.try
      BY <1>4, <1>9 DEF SameAttempt
    <3>3. CASE \E i \in B : D[p].try = i.try
      BY <3>1, <3>2, <3>3
    <3>4. CASE D[p].status \in Pictures!Active
      <4>1. CASE \E f \in out : f.try = D[p].try
        BY <1>4, <3>1, <4>1
      <4>2. ASSUME NEW j \in Pictures!Mounts, NEW i \in Q[j], i.try = D[p].try
            PROVE  i \in queue'[j] \/ i \in B
        BY <1>5, <1>8
      <4>3. QED
        BY <1>5, <3>1, <3>2, <3>4, <4>1, <4>2 DEF AttemptsFit
    <3>5. draft'[p] = D[p] \/ \E i \in B : D[p].try = i.try
      <4>1. D \in [Photos -> Pictures!Photo]
        BY <1>5 DEF ViewFits
      <4>2. \/ Pictures!Begun(D, B)[p] = D[p]
            \/ /\ Pictures!There(D[p]) /\ \E i \in B : D[p].try = i.try
               /\ Pictures!Begun(D, B)[p] = [D[p] EXCEPT !.status = "validating"]
        BY <4>1, BegunIs
      <4>3. QED
        BY <1>4, <4>2
    <3>6. QED
      BY <2>1, <3>3, <3>4, <3>5
  <2>2. QED
    BY <2>1 DEF Waits
<1>14. PhotosFit(queue', flights', draft', kept', M, top, over)
  <2>1. PICK Q2, F2, D2, K2 : Q2 = queue' /\ F2 = flights' /\ D2 = draft' /\ K2 = kept'
    OBVIOUS
  <2>2. /\ Q2 \in [Pictures!Mounts -> SUBSET Item] /\ F2 \in SUBSET Airborne
        /\ ViewFits(D2, top, over) /\ ViewFits(K2, top, over) /\ Apart(Q2, F2) /\ Waits(Q2, F2, D2)
        /\ \A j \in Pictures!Mounts : Q2[j] \subseteq Q[j]
    BY <1>7, <1>8, <1>10, <1>12, <1>13, <2>1
  <2>3. \A p \in Photos : /\ D2[p].try = D[p].try /\ D2[p].file = D[p].file
                          /\ K2[p].try = K[p].try /\ K2[p].file = K[p].file
    BY <1>7, <2>1 DEF SameView
  <2>4. \A f \in F2 : \/ \E g \in out : SameAttempt(f, g) /\ f.mount = g.mount
                      \/ \E i \in Q[f.mount] : SameAttempt(f, i)
    BY <1>11, <2>1
  <2>5. Stays(Q, out, D, K, Q2, F2, D2, K2, top, over)
    BY <2>2, <2>3, <2>4 DEF Stays
  <2>6. QED
    BY <1>5, <2>1, <2>5, PhotosStay
<1>15. ASSUME queue'[m] # {} PROVE \E f \in flights' : f.mount = m
  <2>1. CASE \E f \in out : f.mount = m
    BY <1>4, <2>1
  <2>2. CASE ~ \E f \in out : f.mount = m
    <3>1. {f \in out : f.mount = m} = {}
      BY <2>2
    <3>2. Pictures!Cardinality({f \in out : f.mount = m}) < Concurrency
      <4>1. Pictures!Cardinality({f \in out : f.mount = m}) = 0
        BY <3>1, FS_EmptySet, ZenonT(40) DEF Cardinality, Pictures!Cardinality
      <4>2. QED
        BY <4>1, PhotoConstants
    <3>3. {i.try : i \in W} \in SUBSET Nat /\ {i.try : i \in W} # {}
      BY <1>6, <1>8, <1>15, PhotoConstants
    <3>4. PICK t \in {i.try : i \in W} : \A u \in {i.try : i \in W} : t <= u
      BY <3>3, LeastNat
    <3>5. PICK i \in W : i.try = t
      OBVIOUS
    <3>6. i \in B
      BY <1>3, <3>2, <3>4, <3>5 DEF Pictures!NextUp
    <3>7. QED
      BY <1>4, <1>9, <3>6
  <2>3. QED
    BY <2>1, <2>2
<1>16. QueueMoves(queue', flights')
  BY <1>4, <1>8, <1>15 DEF QueueMoves
<1>17. QED
  BY <1>2, <1>7, <1>14, <1>16

(* The same attempts are under way.                                        *)
Still(F, F2) ==
  /\ F2 \subseteq Airborne
  /\ \A f \in F2 : \E g \in F : SameAttempt(f, g) /\ f.mount = g.mount
  /\ \A g \in F : \E f \in F2 : SameAttempt(f, g) /\ f.mount = g.mount

LEMMA StillFits ==
  ASSUME NEW Q, NEW F, NEW D, NEW K, NEW M \in Pictures!Mounts, NEW top \in Pictures!Try, NEW over, NEW F2,
         PhotosFit(Q, F, D, K, M, top, over), Still(F, F2)
  PROVE  PhotosFit(Q, F2, D, K, M, top, over) /\ (QueueMoves(Q, F) => QueueMoves(Q, F2))
<1>1. ViewFits(D, top, over) /\ ViewFits(K, top, over) /\ AttemptsFit(Q, F, D, K, M, top, over)
  BY DEF PhotosFit
<1>2. Apart(Q, F2)
  BY <1>1 DEF Apart, AttemptsFit, Still, SameAttempt
<1>3. Waits(Q, F2, D)
  BY <1>1 DEF Waits, AttemptsFit, Still, SameAttempt
<1>4. Stays(Q, F, D, K, Q, F2, D, K, top, over)
  BY <1>1, <1>2, <1>3 DEF Stays, Still, AttemptsFit
<1>5. PhotosFit(Q, F2, D, K, M, top, over)
  BY <1>4, PhotosStay
<1>6. QED
  BY <1>5 DEF QueueMoves, Still

LEMMA AbortedIs ==
  ASSUME flights \subseteq Airborne, NEW m, NEW try
  PROVE  Still(flights, Pictures!Aborted(m, try))
<1>1. \A f \in flights : /\ [f EXCEPT !.aborted = TRUE] \in Airborne
                         /\ SameAttempt([f EXCEPT !.aborted = TRUE], f) /\ [f EXCEPT !.aborted = TRUE].mount = f.mount
                         /\ SameAttempt(f, f)
  BY DEF Airborne, SameAttempt
<1>2. QED
  BY <1>1 DEF Pictures!Aborted, Still

SeenIn(views, m) == IF m = mount THEN views.draft ELSE views.kept

(* Before the queue of m is processed.                                     *)
Ready(m, W, out, views, top, over) ==
  /\ PhotosFit([queue EXCEPT ![m] = W], out, views.draft, views.kept, mount, top, over)
  /\ \A j \in Pictures!Mounts \ {m} : queue[j] # {} => \E f \in out : f.mount = j
  /\ Gone(views.draft, views.kept, mount)

PhotoRest ==
  /\ mount \in Pictures!Mounts /\ crossed \subseteq Photos
  /\ used \in [files : Pictures!File, tries : Pictures!Try]
  /\ timers \in [Pictures!Mounts -> [Photos -> Pictures!Try]]
  /\ files \in [Pictures!Mounts -> [Photos -> Pictures!File]]
  /\ picked \subseteq [mount : Pictures!Mounts, photo : Photos, file : Pictures!File]
  /\ mount = 1 => files[2] = [p \in Photos |-> 0] /\ \A r \in picked : r.mount = 1

LEMMA PhotosGoOn ==
  ASSUME PhotoInv, PhotoRest', mount' = mount,
         NEW m \in Pictures!Mounts, NEW W, NEW out, NEW ended, NEW views, NEW top, NEW over,
         Pictures!Process(m, W, out, ended, views), top = used'.tries, over = crossed',
         Ready(m, W, out, views, top, over),
         \A j \in Pictures!Mounts : FilesFit(files'[j], SeenIn(views, j), over)
  PROVE  PhotoInv'
<1>1. mount \in Pictures!Mounts /\ queue \in [Pictures!Mounts -> SUBSET Item] /\ top \in Pictures!Try
  BY DEF PhotoInv, PhotoRest, PhotosFit, AttemptsFit
<1>2. PICK M : M = mount
  OBVIOUS
<1>3. PhotosFit([queue EXCEPT ![m] = W], out, views.draft, views.kept, M, top, over)
  BY <1>2 DEF Ready
<1>4. \A j \in Pictures!Mounts \ {m} : queue[j] # {} => \E f \in out : f.mount = j
  BY DEF Ready
<1>5. /\ PhotosFit(queue', flights', draft', kept', M, top, over) /\ QueueMoves(queue', flights')
      /\ \A p \in Photos : SameView(draft'[p], views.draft[p]) /\ SameView(kept'[p], views.kept[p])
  BY <1>1, <1>2, <1>3, <1>4, PhotosProcess
<1>6. Gone(draft', kept', mount')
  BY <1>5 DEF Ready, Gone, SameView
<1>7. \A j \in Pictures!Mounts, p \in Photos : SameView(Pictures!Seen(j)'[p], SeenIn(views, j)[p])
  BY <1>5 DEF Pictures!Seen, SeenIn
<1>8. \A j \in Pictures!Mounts : FilesFit(files'[j], Pictures!Seen(j)', crossed')
  BY <1>7 DEF FilesFit, SameView
<1>9. QED
  BY <1>2, <1>5, <1>6, <1>8 DEF PhotoInv, PhotoRest

(* What component m writes of photo p.                                     *)
LEMMA EditedIs ==
  ASSUME PhotoInv, NEW m \in Pictures!Mounts, NEW p \in Photos, NEW edit
  PROVE  /\ Pictures!Edited(m, p, edit).draft = [draft EXCEPT ![p] = edit[draft[p]]]
         /\ Pictures!Edited(m, p, edit).kept = [kept EXCEPT ![p] = IF m = mount THEN kept[p] ELSE edit[kept[p]]]
<1>1. kept \in [Photos -> Pictures!Photo]
  BY DEF PhotoInv, PhotosFit, ViewFits
<1>2. QED
  BY <1>1 DEF Pictures!Edited

(* A step of component m that queues attempt a at photo p: d and k are the *)
(* photo as the draft and the component left behind have it then.          *)
Begins(m, p, a, W, out, d, k, views, over) ==
  /\ mount' = mount /\ over = crossed' /\ used'.tries = used.tries + 1
  /\ files' = [files EXCEPT ![m][p] = a.file] /\ picked' \subseteq picked
  /\ views.draft = [draft EXCEPT ![p] = d] /\ views.kept = [kept EXCEPT ![p] = k]
  /\ Still(flights, out) /\ Pictures!Process(m, W \cup {a}, out, FALSE, views)
  /\ NewTry(queue, draft, kept, mount, used.tries, crossed, m, p, a, W, d, k, over)
  /\ mount = 1 => m = 1
  /\ draft[p].status = "removed" => d = draft[p]
  /\ m = mount => k = kept[p] /\ (Tries(d, a, p, over) \/ d.status = "removed")
  /\ m # mount => /\ Tries(k, a, p, over) \/ k.status = "removed"
                  /\ p \notin over /\ Pictures!There(d) =>
                       draft[p].status = "absent" \/ (Pictures!There(draft[p]) /\ d.file = draft[p].file)

LEMMA PhotosBegin ==
  ASSUME PhotoInv, PhotoRest',
         NEW m \in Pictures!Mounts, NEW p \in Photos, NEW a, NEW W, NEW out, NEW d, NEW k, NEW views, NEW over,
         Begins(m, p, a, W, out, d, k, views, over)
  PROVE  PhotoInv'
<1> USE DEF Begins
<1>1. /\ mount \in Pictures!Mounts /\ used.tries \in Pictures!Try
      /\ files \in [Pictures!Mounts -> [Photos -> Pictures!File]]
      /\ picked \subseteq [mount : Pictures!Mounts, photo : Photos, file : Pictures!File]
      /\ queue \in [Pictures!Mounts -> SUBSET Item] /\ flights \subseteq Airborne
      /\ draft \in [Photos -> Pictures!Photo] /\ kept \in [Photos -> Pictures!Photo]
      /\ PhotosFit(queue, flights, draft, kept, mount, used.tries, crossed)
  BY DEF PhotoInv, PhotosFit, AttemptsFit, ViewFits
<1>2. PICK M, top, old, Q, D, K :
        M = mount /\ top = used.tries /\ old = crossed /\ Q = queue /\ D = draft /\ K = kept
  OBVIOUS
<1>3. PICK next : next = used'.tries
  OBVIOUS
<1>4. next = top + 1
  BY <1>2, <1>3
<1>5. PhotosFit(Q, out, D, K, M, top, old)
  <2>1. PICK F : F = flights
    OBVIOUS
  <2>2. PhotosFit(Q, F, D, K, M, top, old) /\ Still(F, out) /\ M \in Pictures!Mounts /\ top \in Pictures!Try
    BY <1>1, <1>2, <2>1
  <2>3. QED
    BY <2>2, StillFits
<1>6. PhotosFit([Q EXCEPT ![m] = W \cup {a}], out, [D EXCEPT ![p] = d], [K EXCEPT ![p] = k], M, top + 1, over)
  <2>1. NewTry(Q, D, K, M, top, old, m, p, a, W, d, k, over) /\ M \in Pictures!Mounts /\ top \in Pictures!Try
    BY <1>1, <1>2
  <2>2. QED
    BY <1>5, <2>1, PhotosTry
<1>7. /\ D \in [Photos -> Pictures!Photo] /\ K \in [Photos -> Pictures!Photo]
      /\ \A q \in Photos : views.draft[q] = IF q = p THEN d ELSE D[q]
      /\ \A q \in Photos : views.kept[q] = IF q = p THEN k ELSE K[q]
  BY <1>1, <1>2
<1>8. /\ (d = D[p] \/ Pictures!There(d))
      /\ (k = K[p] \/ Pictures!There(k))
      /\ old \subseteq over
  BY <1>2 DEF NewTry, Tries
<1>9. Gone(views.draft, views.kept, mount)
  <2>1. Gone(D, K, M)
    BY <1>2 DEF PhotoInv
  <2>2. CASE M = 1
    BY <1>2, <1>7, <2>1, <2>2 DEF Gone
  <2>3. CASE M # 1
    BY <1>2, <1>7, <1>8, <2>1, <2>3 DEF Gone, Pictures!There
  <2>4. QED
    BY <2>2, <2>3
<1>10. \A j \in Pictures!Mounts \ {m} : queue[j] # {} => \E f \in out : f.mount = j
  <2>1. \A g \in flights : \E f \in out : f.mount = g.mount
    BY DEF Still
  <2>2. \A j \in Pictures!Mounts : queue[j] # {} => \E g \in flights : g.mount = j
    BY DEF PhotoInv, QueueMoves
  <2>3. QED
    BY <2>1, <2>2
<1>11. Ready(m, W \cup {a}, out, views, next, over)
  BY <1>2, <1>4, <1>6, <1>9, <1>10 DEF Ready
<1>12. ASSUME NEW j \in Pictures!Mounts, NEW q \in Photos
       PROVE  LET v == SeenIn(views, j)[q]
              IN /\ v.status = "absent" => files'[j][q] = 0
                 /\ q \notin over /\ Pictures!There(v) => files'[j][q] \in {0, v.file}
  <2>1. FilesFit(files[j], Pictures!Seen(j), old)
    BY <1>2 DEF PhotoInv
  <2>2. CASE q # p
    <3>1. SeenIn(views, j)[q] = Pictures!Seen(j)[q] /\ files'[j][q] = files[j][q]
      BY <1>1, <1>2, <1>7, <2>2 DEF SeenIn, Pictures!Seen
    <3>2. QED
      BY <1>8, <2>1, <3>1 DEF FilesFit
  <2>3. CASE q = p /\ j = m
    <3>1. files'[j][q] = a.file
      BY <1>1, <2>3
    <3>2. SeenIn(views, j)[q] = IF m = mount THEN d ELSE k
      BY <1>7, <2>3 DEF SeenIn
    <3>3. QED
      BY <2>3, <3>1, <3>2 DEF Tries, Pictures!There
  <2>4. CASE q = p /\ j # m
    <3>1. files'[j][q] = files[j][q]
      BY <1>1, <2>4
    <3>2. CASE j = mount
      <4>1. SeenIn(views, j)[q] = d /\ Pictures!Seen(j)[q] = draft[q]
        BY <1>7, <2>4, <3>2 DEF SeenIn, Pictures!Seen
      <4>2. d.status = "absent" => draft[q].status = "absent"
        BY <1>2, <1>8, <2>4 DEF Pictures!There
      <4>3. QED
        BY <1>8, <2>1, <2>4, <3>1, <3>2, <4>1, <4>2 DEF FilesFit
    <3>3. CASE j # mount
      <4>1. m = mount
        BY <1>1, <2>4, <3>3, PhotoConstants
      <4>2. SeenIn(views, j)[q] = k /\ Pictures!Seen(j)[q] = kept[q] /\ k = kept[q]
        BY <1>7, <2>4, <3>3, <4>1 DEF SeenIn, Pictures!Seen
      <4>3. QED
        BY <1>8, <2>1, <3>1, <4>2 DEF FilesFit
    <3>4. QED
      BY <3>2, <3>3
  <2>5. QED
    BY <2>2, <2>3, <2>4
<1>13. \A j \in Pictures!Mounts : FilesFit(files'[j], SeenIn(views, j), over)
  BY <1>12 DEF FilesFit
<1>14. PICK X, ended : X = W \cup {a} /\ ended = FALSE
  OBVIOUS
<1>15. Pictures!Process(m, X, out, ended, views) /\ Ready(m, X, out, views, next, over)
  BY <1>11, <1>14
<1>16. QED
  BY <1>3, <1>13, <1>15, PhotosGoOn

LEMMA PhotoFacts ==
  PhotoInv => /\ mount \in {1, 2} /\ crossed \subseteq Photos
              /\ used \in [files : Pictures!File, tries : Pictures!Try]
              /\ used.files \in Nat /\ used.tries \in Nat /\ used.tries \in Pictures!Try
              /\ timers \in [Pictures!Mounts -> [Photos -> Pictures!Try]]
              /\ files \in [Pictures!Mounts -> [Photos -> Pictures!File]]
              /\ picked \subseteq [mount : Pictures!Mounts, photo : Photos, file : Pictures!File]
              /\ queue \in [Pictures!Mounts -> SUBSET Item] /\ flights \subseteq Airborne
              /\ draft \in [Photos -> Pictures!Photo] /\ kept \in [Photos -> Pictures!Photo]
              /\ ViewFits(draft, used.tries, crossed) /\ ViewFits(kept, used.tries, crossed)
              /\ PairFits(draft, kept, crossed)
              /\ AttemptsFit(queue, flights, draft, kept, mount, used.tries, crossed)
              /\ PhotosFit(queue, flights, draft, kept, mount, used.tries, crossed)
<1> SUFFICES ASSUME PhotoInv
             PROVE  /\ used.files \in Nat /\ used.tries \in Nat /\ used.tries \in Pictures!Try
                    /\ queue \in [Pictures!Mounts -> SUBSET Item] /\ flights \subseteq Airborne
                    /\ draft \in [Photos -> Pictures!Photo] /\ kept \in [Photos -> Pictures!Photo]
  BY PhotoConstants DEF PhotoInv, PhotosFit
<1>1. used.files \in Nat /\ used.tries \in Nat /\ used.tries \in Pictures!Try
  BY PhotoConstants DEF PhotoInv
<1>2. QED
  BY <1>1 DEF PhotoInv, PhotosFit, AttemptsFit, ViewFits

LEMMA StillSame == ASSUME NEW F \in SUBSET Airborne PROVE Still(F, F)
  BY DEF Still, SameAttempt

(* A photo that is queued with a file.                                     *)
Fresh(file, try) ==
  [Pictures!NoPhoto EXCEPT !.status = "queued", !.file = file, !.try = try, !.n = 1]

LEMMA FreshTries ==
  ASSUME NEW file \in Pictures!File, NEW try \in Pictures!Try, NEW a, a.try = try, a.file = file, NEW p, NEW over
  PROVE  Tries(Fresh(file, try), a, p, over)
<1>1. 0 \in Pictures!File /\ "queued" \in Pictures!Active
  BY PhotoConstants
<1>2. QED
  BY <1>1 DEF Fresh, Tries, Pictures!NoPhoto, Pictures!Photo, Pictures!There

LEMMA PhotosAdd ==
  ASSUME PhotoInv, NEW r \in picked, Pictures!Add(r)
  PROVE  PhotoInv'
<1>1. PICK m, p, file, try : m = r.mount /\ p = r.photo /\ file = r.file /\ try = used.tries + 1
  OBVIOUS
<1>2. PICK a : a = [photo |-> p, try |-> try, file |-> file, n |-> 1]
  OBVIOUS
<1>3. PICK d, k : d = Fresh(file, try) /\ k = (IF m = mount THEN kept[p] ELSE Fresh(file, try))
  OBVIOUS
<1>4. PICK edit : edit = [photo \in Pictures!Views(p) |-> d]
  OBVIOUS
<1>5. PICK views : views = Pictures!Edited(m, p, edit)
  OBVIOUS
<1>6. /\ draft[p].status = "absent" /\ kept[p].status = "absent" /\ used.tries < MaxTries
      /\ used' = [used EXCEPT !.tries = try] /\ picked' = picked \ {r}
      /\ files' = [files EXCEPT ![m][p] = file] /\ Pictures!Enqueue(m, p, file, 1, views)
      /\ UNCHANGED <<mount, timers, crossed>>
  BY <1>1, <1>3, <1>4, <1>5 DEF Pictures!Add, Pictures!Views, Fresh
<1>7. /\ m \in Pictures!Mounts /\ p \in Photos /\ used.tries \in Nat
      /\ file \in Pictures!File /\ try \in Pictures!Try
  BY <1>1, <1>6, PhotoFacts, PhotoConstants
<1>8. mount = 1 => m = 1
  BY <1>1 DEF PhotoInv
<1>9. views.draft = [draft EXCEPT ![p] = d] /\ views.kept = [kept EXCEPT ![p] = k]
  <2>1. edit[draft[p]] = d /\ edit[kept[p]] = d
    BY <1>4 DEF Pictures!Views
  <2>2. k = (IF m = mount THEN kept[p] ELSE edit[kept[p]])
    BY <1>3, <2>1
  <2>3. QED
    BY <1>5, <1>7, <2>1, <2>2, EditedIs
<1>10. PICK W, out, over : W = queue[m] /\ out = flights /\ over = crossed
  OBVIOUS
<1>11. Pictures!Process(m, W \cup {a}, out, FALSE, views)
  BY <1>1, <1>2, <1>6, <1>10 DEF Pictures!Enqueue
<1>12. Tries(d, a, p, over) /\ (m # mount => Tries(k, a, p, over))
  BY <1>2, <1>3, <1>7, FreshTries
<1>13. NewTry(queue, draft, kept, mount, used.tries, crossed, m, p, a, W, d, k, over)
  <2>1. a \in Item
    BY <1>2, <1>7 DEF Item
  <2>2. d.try = a.try /\ d # draft[p] /\ (m # mount => k.try = a.try)
    BY <1>6, <1>12 DEF Tries, Pictures!There
  <2>3. k = kept[p] \/ Tries(k, a, p, over)
    BY <1>3, <1>12
  <2>4. QED
    BY <1>1, <1>2, <1>6, <1>10, <1>12, <2>1, <2>2, <2>3 DEF NewTry
<1>14. Still(flights, out)
  BY <1>10, StillSame, PhotoFacts
<1>15. PhotoRest'
  <2>1. files' \in [Pictures!Mounts -> [Photos -> Pictures!File]]
    BY <1>6, <1>7, PhotoFacts
  <2>2. mount = 1 => files'[2] = files[2]
    BY <1>6, <1>8, PhotoFacts, PhotoConstants
  <2>3. used' \in [files : Pictures!File, tries : Pictures!Try] /\ mount' \in Pictures!Mounts
    BY <1>6, <1>7, PhotoFacts, PhotoConstants
  <2>4. QED
    BY <1>6, <2>1, <2>2, <2>3, PhotoFacts DEF PhotoRest, PhotoInv
<1>16. files' = [files EXCEPT ![m][p] = a.file] /\ used'.tries = used.tries + 1 /\ over = crossed'
  BY <1>1, <1>2, <1>6, <1>10, PhotoFacts
<1>17. /\ mount' = mount /\ picked' \subseteq picked /\ draft[p].status # "removed"
       /\ m = mount => k = kept[p]
  BY <1>3, <1>6
<1>18. Begins(m, p, a, W, out, d, k, views, over)
  BY <1>6, <1>8, <1>9, <1>11, <1>12, <1>13, <1>14, <1>16, <1>17 DEF Begins
<1>19. QED
  BY <1>7, <1>15, <1>18, PhotosBegin

(* Component 2 does nothing before it is there.                            *)
LEMMA SeenIsMounted ==
  ASSUME PhotoInv, NEW m \in Pictures!Mounts, NEW p \in Photos, Pictures!Seen(m)[p].status # "absent"
  PROVE  mount = 1 => m = 1
<1>1. Gone(draft, kept, mount)
  BY DEF PhotoInv
<1>2. QED
  BY <1>1, PhotoConstants DEF Gone, Pictures!Seen

LEMMA PhotosReplace ==
  ASSUME PhotoInv, NEW r \in picked, Pictures!Replace(r)
  PROVE  PhotoInv'
<1>1. PICK m, p, file, try : m = r.mount /\ p = r.photo /\ file = r.file /\ try = used.tries + 1
  OBVIOUS
<1>2. PICK old : old = Pictures!Seen(m)[p].try
  OBVIOUS
<1>3. PICK a : a = [photo |-> p, try |-> try, file |-> file, n |-> 1]
  OBVIOUS
<1>4. PICK edit : edit = [photo \in Pictures!Views(p) |->
                            IF Pictures!There(photo) THEN Fresh(file, try) ELSE photo]
  OBVIOUS
<1>5. PICK views : views = Pictures!Edited(m, p, edit)
  OBVIOUS
<1>6. PICK W, out, over : W = Pictures!Unqueued(m, old) /\ out = Pictures!Aborted(m, old) /\ over = crossed'
  OBVIOUS
<1>7. /\ used.tries < MaxTries /\ used' = [used EXCEPT !.tries = used.tries + 1]
      /\ picked' = picked \ {r} /\ timers' = [timers EXCEPT ![m][p] = 0] /\ files' = [files EXCEPT ![m][p] = file]
      /\ Pictures!Process(m, W \cup {a}, out, FALSE, views)
      /\ crossed' = (IF m = mount THEN crossed ELSE crossed \cup {p}) /\ mount' = mount
  BY <1>1, <1>2, <1>3, <1>4, <1>5, <1>6 DEF Pictures!Replace, Fresh
<1>8. /\ m \in Pictures!Mounts /\ p \in Photos /\ file \in Pictures!File /\ used.tries \in Nat
      /\ Pictures!Seen(m)[p].status # "absent" /\ draft[p] \in Pictures!Photo /\ kept[p] \in Pictures!Photo
  BY <1>1, PhotoFacts DEF Pictures!Replace
<1>9. try \in Pictures!Try /\ draft[p].try \in Nat /\ draft[p].try < try /\ kept[p].try \in Nat /\ kept[p].try < try
  <2>1. /\ draft[p].try \in Nat /\ draft[p].try <= used.tries
        /\ kept[p].try \in Nat /\ kept[p].try <= used.tries
    <3>1. draft[p].try \in Pictures!Try /\ kept[p].try \in Pictures!Try
      BY <1>8 DEF Pictures!Photo
    <3>2. draft[p].try <= used.tries /\ kept[p].try <= used.tries
      BY <1>8, PhotoFacts DEF ViewFits
    <3>3. QED
      BY <3>1, <3>2, PhotoConstants
  <2>2. QED
    BY <1>1, <1>7, <1>8, <2>1, PhotoConstants
<1>10. mount = 1 => m = 1
  BY <1>8, SeenIsMounted
<1>11. PICK d, k : /\ d = (IF Pictures!There(draft[p]) THEN Fresh(file, try) ELSE draft[p])
                   /\ k = (IF m # mount /\ Pictures!There(kept[p]) THEN Fresh(file, try) ELSE kept[p])
  OBVIOUS
<1>12. views.draft = [draft EXCEPT ![p] = d] /\ views.kept = [kept EXCEPT ![p] = k]
  <2>1. edit[draft[p]] = d /\ (m # mount => edit[kept[p]] = k) /\ (m = mount => kept[p] = k)
    BY <1>4, <1>11 DEF Pictures!Views
  <2>2. QED
    BY <1>5, <1>8, <2>1, EditedIs
<1>13. Tries(Fresh(file, try), a, p, over)
  BY <1>3, <1>8, <1>9, FreshTries
<1>14. (d = draft[p] \/ Tries(d, a, p, over)) /\ (k = kept[p] \/ Tries(k, a, p, over))
  BY <1>11, <1>13
<1>15. W \subseteq queue[m] /\ \A i \in queue[m] \ W : i.photo = p
  <2>1. \A i \in queue[m] : AttemptFits(m, i, draft, kept, mount, used.tries, crossed)
    BY <1>8, PhotoFacts DEF AttemptsFit
  <2>2. \A i \in queue[m] \ W : i.try = draft[p].try \/ i.try = kept[p].try
    BY <1>2, <1>6 DEF Pictures!Unqueued, Pictures!Seen
  <2>3. \A i \in queue[m] \ W : i.photo = p
    BY <1>8, <2>1, <2>2 DEF AttemptFits
  <2>4. QED
    BY <1>6, <2>3 DEF Pictures!Unqueued
<1>16. /\ Pictures!There(draft[p]) => d.try = try /\ d # draft[p]
       /\ ~Pictures!There(draft[p]) => /\ d = draft[p] /\ d.try = 0 /\ d.status \notin Pictures!Active
                                       /\ ~Pictures!There(d)
  <2>1. Fresh(file, try).try = try
    BY <1>3, <1>13 DEF Tries
  <2>2. ~Pictures!There(draft[p]) => draft[p].try = 0 /\ draft[p].status \notin Pictures!Active
    BY <1>8, PhotoFacts DEF ViewFits
  <2>3. QED
    BY <1>9, <1>11, <2>1, <2>2
<1>17. d.try = a.try /\ m # mount => k.try = a.try
  <2>1. Gone(draft, kept, mount)
    BY DEF PhotoInv
  <2>2. ASSUME d.try = a.try, m # mount PROVE Pictures!There(kept[p])
    <3>1. Pictures!There(draft[p])
      BY <1>3, <1>9, <1>16, <2>2, PhotoConstants
    <3>2. kept[p].status # "absent"
      BY <1>8, <2>2 DEF Pictures!Seen
    <3>3. QED
      BY <1>8, <2>1, <3>1, <3>2 DEF Gone, Pictures!There
  <2>3. QED
    BY <1>11, <1>13, <2>2 DEF Tries
<1>18. NewTry(queue, draft, kept, mount, used.tries, crossed, m, p, a, W, d, k, over)
  <2>1. a \in Item
    BY <1>3, <1>8, <1>9 DEF Item
  <2>2. a.photo = p /\ a.try = used.tries + 1 /\ crossed \subseteq over
    BY <1>1, <1>3, <1>6, <1>7
  <2>3. W = queue[m] \/ d.status \notin Pictures!Active \/ d.try = a.try
    BY <1>3, <1>16
  <2>4. d = draft[p] /\ d.try # 0 /\ d.try = kept[p].try => k = kept[p]
    BY <1>16
  <2>5. QED
    BY <1>7, <1>14, <1>15, <1>17, <2>1, <2>2, <2>3, <2>4 DEF NewTry
<1>19. Still(flights, out)
  BY <1>6, AbortedIs, PhotoFacts
<1>20. PhotoRest'
  <2>1. files' \in [Pictures!Mounts -> [Photos -> Pictures!File]]
    BY <1>7, <1>8, PhotoFacts
  <2>2. mount = 1 => files'[2] = files[2]
    BY <1>7, <1>8, <1>10, PhotoFacts, PhotoConstants
  <2>3. used' \in [files : Pictures!File, tries : Pictures!Try] /\ mount' \in Pictures!Mounts
    BY <1>1, <1>7, <1>9, PhotoFacts, PhotoConstants
  <2>4. timers' \in [Pictures!Mounts -> [Photos -> Pictures!Try]]
    <3>1. timers \in [Pictures!Mounts -> [Photos -> Pictures!Try]] /\ 0 \in Pictures!Try
      BY PhotoFacts, PhotoConstants
    <3>2. timers' = [timers EXCEPT ![m] = [timers[m] EXCEPT ![p] = 0]]
      BY <1>7
    <3>3. [timers[m] EXCEPT ![p] = 0] \in [Photos -> Pictures!Try]
      BY <1>8, <3>1
    <3>4. QED
      BY <1>8, <3>1, <3>2, <3>3
  <2>5. QED
    BY <1>7, <1>8, <2>1, <2>2, <2>3, <2>4, PhotoFacts DEF PhotoRest, PhotoInv
<1>21. /\ files' = [files EXCEPT ![m][p] = a.file] /\ used'.tries = used.tries + 1
       /\ picked' \subseteq picked
  BY <1>3, <1>7, PhotoFacts
<1>22. /\ m = mount => k = kept[p] /\ (Tries(d, a, p, over) \/ d.status = "removed")
       /\ m # mount => p \in over /\ (Tries(k, a, p, over) \/ k.status = "removed")
  BY <1>6, <1>7, <1>8, <1>11, <1>13 DEF Pictures!Seen, Pictures!There
<1>23. draft[p].status = "removed" => d = draft[p]
  BY <1>11 DEF Pictures!There
<1>24. Begins(m, p, a, W, out, d, k, views, over)
  BY <1>6, <1>7, <1>10, <1>12, <1>18, <1>19, <1>21, <1>22, <1>23 DEF Begins
<1>25. QED
  BY <1>8, <1>20, <1>24, PhotosBegin

LEMMA PhotosAgain ==
  ASSUME PhotoInv, NEW m \in Pictures!Mounts, NEW p \in Photos, Pictures!Again(m, p),
         Pictures!Seen(m)[p].status \in {"failed", "aborted"}, files[m][p] # 0
  PROVE  PhotoInv'
<1>1. PICK photo, try, file : photo = Pictures!Seen(m)[p] /\ try = used.tries + 1 /\ file = files[m][p]
  OBVIOUS
<1>2. PICK a : a = [photo |-> p, try |-> try, file |-> file, n |-> photo.n + 1]
  OBVIOUS
<1>3. PICK edit : edit = [other \in Pictures!Views(p) |->
        IF Pictures!IsAttempt(other, photo.try)
        THEN [other EXCEPT !.status = "retrying", !.try = try, !.n = photo.n + 1, !.retryable = FALSE]
        ELSE other]
  OBVIOUS
<1>4. PICK views : views = Pictures!Edited(m, p, edit)
  OBVIOUS
<1>5. PICK W, out, over : W = queue[m] /\ out = flights /\ over = crossed
  OBVIOUS
<1>6. /\ used.tries < MaxTries /\ used' = [used EXCEPT !.tries = used.tries + 1]
      /\ timers' = [timers EXCEPT ![m][p] = 0]
      /\ Pictures!Enqueue(m, p, file, photo.n + 1, views)
      /\ UNCHANGED <<mount, picked, files, crossed>>
  BY <1>1, <1>3, <1>4 DEF Pictures!Again
<1>7. Pictures!Process(m, W \cup {a}, out, FALSE, views)
  BY <1>1, <1>2, <1>5, <1>6 DEF Pictures!Enqueue
<1>8. /\ file \in Pictures!File /\ file # 0 /\ used.tries \in Nat
      /\ draft[p] \in Pictures!Photo /\ kept[p] \in Pictures!Photo /\ photo \in Pictures!Photo
      /\ photo.try # 0 /\ Pictures!There(photo) /\ photo.n \in Nat
  <2>1. photo \in {draft[p], kept[p]}
    BY <1>1 DEF Pictures!Seen
  <2>2. photo \in Pictures!Photo /\ photo.try # 0
    BY <1>1, <2>1, PhotoFacts DEF ViewFits
  <2>3. QED
    BY <1>1, <2>2, PhotoFacts DEF Pictures!Photo, Pictures!There
<1>9. try \in Pictures!Try /\ draft[p].try \in Nat /\ draft[p].try < try /\ kept[p].try \in Nat /\ kept[p].try < try
  <2>1. /\ draft[p].try \in Nat /\ draft[p].try <= used.tries
        /\ kept[p].try \in Nat /\ kept[p].try <= used.tries
    <3>1. draft[p].try \in Pictures!Try /\ kept[p].try \in Pictures!Try
      BY <1>8 DEF Pictures!Photo
    <3>2. draft[p].try <= used.tries /\ kept[p].try <= used.tries
      BY <1>8, PhotoFacts DEF ViewFits
    <3>3. QED
      BY <3>1, <3>2, PhotoConstants
  <2>2. QED
    BY <1>1, <1>6, <1>8, <2>1, PhotoConstants
<1>10. mount = 1 => m = 1
  BY <1>8, <1>1, SeenIsMounted
<1>11. PICK d, k : d = edit[draft[p]] /\ k = (IF m = mount THEN kept[p] ELSE edit[kept[p]])
  OBVIOUS
<1>12. views.draft = [draft EXCEPT ![p] = d] /\ views.kept = [kept EXCEPT ![p] = k]
  BY <1>4, <1>11, EditedIs
<1>13. ASSUME NEW v \in {draft[p], kept[p]}, Pictures!IsAttempt(v, photo.try),
              p \notin crossed => v.file = file
       PROVE  Tries(edit[v], a, p, over) /\ edit[v].file = v.file
  <2>1. edit[v] = [v EXCEPT !.status = "retrying", !.try = try, !.n = photo.n + 1, !.retryable = FALSE]
    BY <1>3, <1>13 DEF Pictures!Views
  <2>2. v \in Pictures!Photo /\ (p \notin crossed => v.asset \in {0, v.file})
    BY <1>8, PhotoFacts DEF ViewFits
  <2>3. /\ edit[v].try = try /\ edit[v].file = v.file /\ edit[v].asset = v.asset /\ edit[v].status = "retrying"
        /\ edit[v] \in Pictures!Photo
    <3>1. PICK n : n = photo.n + 1
      OBVIOUS
    <3>2. n \in Nat /\ "retrying" \in Pictures!Active
      BY <1>8, <3>1, PhotoConstants
    <3>3. edit[v] = [v EXCEPT !.status = "retrying", !.try = try, !.n = n, !.retryable = FALSE]
      BY <2>1, <3>1
    <3>4. QED
      BY <1>9, <2>2, <3>2, <3>3 DEF Pictures!Photo
  <2>4. QED
    BY <1>2, <1>5, <1>13, <2>2, <2>3 DEF Tries, Pictures!There
<1>14. ASSUME NEW v \in {draft[p], kept[p]}, ~Pictures!IsAttempt(v, photo.try) PROVE edit[v] = v
  BY <1>3, <1>14 DEF Pictures!Views
<1>15. p \notin crossed => photo.file = file
  <2>1. FilesFit(files[m], Pictures!Seen(m), crossed)
    BY DEF PhotoInv
  <2>2. QED
    BY <1>1, <1>8, <2>1 DEF FilesFit
<1>16. ASSUME Pictures!IsAttempt(draft[p], photo.try) PROVE Tries(d, a, p, over) /\ d.file = draft[p].file
  <2>1. p \notin crossed => draft[p].file = file
    <3>1. CASE m = mount
      BY <1>1, <1>15, <3>1 DEF Pictures!Seen
    <3>2. CASE m # mount
      <4>1. photo = kept[p] /\ draft[p].try = kept[p].try /\ kept[p].try # 0
        BY <1>1, <1>8, <1>16, <3>2 DEF Pictures!Seen, Pictures!IsAttempt
      <4>2. QED
        BY <1>15, <4>1, PhotoFacts DEF PairFits
    <3>3. QED
      BY <3>1, <3>2
  <2>2. QED
    BY <1>11, <1>13, <1>16, <2>1
<1>17. ~Pictures!IsAttempt(draft[p], photo.try) => d = draft[p]
  BY <1>11, <1>14
<1>18. m # mount => photo = kept[p] /\ Tries(k, a, p, over)
  <2>1. ASSUME m # mount PROVE photo = kept[p] /\ Pictures!IsAttempt(kept[p], photo.try) /\ k = edit[kept[p]]
    BY <1>1, <1>8, <1>11, <2>1 DEF Pictures!Seen, Pictures!IsAttempt
  <2>2. QED
    BY <1>13, <1>15, <2>1
<1>19. m = mount => k = kept[p] /\ Tries(d, a, p, over)
  <2>1. m = mount => Pictures!IsAttempt(draft[p], photo.try)
    BY <1>1, <1>8 DEF Pictures!Seen, Pictures!IsAttempt
  <2>2. QED
    BY <1>11, <1>16, <2>1
<1>20. NewTry(queue, draft, kept, mount, used.tries, crossed, m, p, a, W, d, k, over)
  <2>1. a \in Item
    BY <1>2, <1>8, <1>9 DEF Item
  <2>2. d = draft[p] \/ Tries(d, a, p, over)
    BY <1>16, <1>17
  <2>3. k = kept[p] \/ Tries(k, a, p, over)
    BY <1>18, <1>19
  <2>4. d.try = a.try /\ m # mount => k.try = a.try
    BY <1>18 DEF Tries
  <2>5. ASSUME d = draft[p], d.try # 0, d.try = kept[p].try PROVE k = kept[p]
    <3>1. ~Pictures!IsAttempt(draft[p], photo.try)
      BY <1>2, <1>9, <1>16, <2>5 DEF Tries
    <3>2. Pictures!There(draft[p])
      BY <2>5, PhotoFacts DEF ViewFits
    <3>3. QED
      BY <1>18, <1>19, <2>5, <3>1, <3>2 DEF Pictures!IsAttempt
  <2>6. QED
    BY <1>1, <1>2, <1>5, <1>6, <2>1, <2>2, <2>3, <2>4, <2>5 DEF NewTry
<1>21. Still(flights, out)
  BY <1>5, StillSame, PhotoFacts
<1>22. PhotoRest'
  <2>1. used' \in [files : Pictures!File, tries : Pictures!Try] /\ mount' \in Pictures!Mounts
    BY <1>1, <1>6, <1>9, PhotoFacts, PhotoConstants
  <2>2. timers' \in [Pictures!Mounts -> [Photos -> Pictures!Try]]
    BY <1>6, PhotoFacts, PhotoConstants
  <2>3. QED
    BY <1>6, <2>1, <2>2, PhotoFacts DEF PhotoRest, PhotoInv
<1>23. /\ files' = [files EXCEPT ![m][p] = a.file] /\ used'.tries = used.tries + 1 /\ over = crossed'
       /\ mount' = mount /\ picked' \subseteq picked
  BY <1>1, <1>2, <1>5, <1>6, PhotoFacts
<1>24. /\ draft[p].status = "removed" => d = draft[p]
       /\ Pictures!There(d) /\ m # mount => Pictures!There(draft[p]) /\ d.file = draft[p].file
  BY <1>16, <1>17 DEF Pictures!IsAttempt, Pictures!There
<1>25. Begins(m, p, a, W, out, d, k, views, over)
  BY <1>7, <1>10, <1>12, <1>18, <1>19, <1>20, <1>21, <1>23, <1>24 DEF Begins
<1>26. QED
  BY <1>22, <1>25, PhotosBegin

LEMMA MountedEdit ==
  ASSUME PhotoInv, NEW p \in Photos, NEW edit, NEW m, m = mount
  PROVE  /\ Pictures!Edited(m, p, edit).draft = [draft EXCEPT ![p] = edit[draft[p]]]
         /\ Pictures!Edited(m, p, edit).kept = kept
  BY DEF Pictures!Edited

(* Attempts end or are told to, and photos fade: the draft may lose some,  *)
(* and no photo waits for anything it has not waited for.                  *)
FadesTo(Q2, F2, views, held) ==
  /\ Q2 \in [Pictures!Mounts -> SUBSET Item] /\ \A m \in Pictures!Mounts : Q2[m] \subseteq queue[m]
  /\ F2 \subseteq Airborne /\ \A f \in F2 : \E g \in flights : SameAttempt(f, g) /\ f.mount = g.mount
  /\ ViewFits(views.draft, used.tries, crossed) /\ ViewFits(views.kept, used.tries, crossed)
  /\ \A p \in Photos : SameView(views.kept[p], kept[p])
  /\ \A p \in Photos : \/ SameView(views.draft[p], draft[p])
                       \/ views.draft[p].status = "removed" /\ Pictures!There(draft[p])
  /\ Waits(Q2, F2, views.draft)
  /\ \A m \in Pictures!Mounts, p \in Photos : held[m][p] \in {0, files[m][p]}

LEMMA PhotosFade ==
  ASSUME PhotoInv, NEW Q2, NEW F2, NEW views, NEW held, FadesTo(Q2, F2, views, held)
  PROVE  /\ PhotosFit(Q2, F2, views.draft, views.kept, mount, used.tries, crossed)
         /\ Gone(views.draft, views.kept, mount)
         /\ \A j \in Pictures!Mounts : FilesFit(held[j], SeenIn(views, j), crossed)
<1>1. PICK Q, F, D, K, M, top, over : /\ Q = queue /\ F = flights /\ D = draft /\ K = kept /\ M = mount
                                      /\ top = used.tries /\ over = crossed
  OBVIOUS
<1>2. PICK D2, K2 : D2 = views.draft /\ K2 = views.kept
  OBVIOUS
<1>3. /\ PhotosFit(Q, F, D, K, M, top, over) /\ M \in Pictures!Mounts /\ top \in Pictures!Try
      /\ AttemptsFit(Q, F, D, K, M, top, over)
  BY <1>1, PhotoFacts, PhotoConstants
<1>4. \A p \in Photos : D2[p].status = "removed" => D2[p].try = 0
  BY <1>2 DEF FadesTo, ViewFits, Pictures!There
<1>5. Apart(Q2, F2)
  <2>1. Apart(Q, F)
    BY <1>3 DEF AttemptsFit, Apart
  <2>2. \A m \in Pictures!Mounts : Q2[m] \subseteq Q[m]
    BY <1>1 DEF FadesTo
  <2>3. \A f \in F2 : \E g \in F : f.try = g.try /\ f.mount = g.mount
    BY <1>1 DEF FadesTo, SameAttempt
  <2>4. QED
    BY <2>1, <2>2, <2>3 DEF Apart
<1>6. Stays(Q, F, D, K, Q2, F2, D2, K2, top, over)
  <2>1. \A p \in Photos : D2[p].try # 0 => D2[p].try = D[p].try /\ D2[p].file = D[p].file /\ K2[p].try = K[p].try
    BY <1>1, <1>2, <1>4 DEF FadesTo, SameView
  <2>2. \A p \in Photos : K2[p].try # 0 => K2[p].try = K[p].try /\ K2[p].file = K[p].file
    BY <1>1, <1>2 DEF FadesTo, SameView
  <2>3. QED
    BY <1>1, <1>2, <1>5, <2>1, <2>2 DEF Stays, FadesTo
<1>7. PhotosFit(Q2, F2, D2, K2, M, top, over)
  BY <1>3, <1>6, PhotosStay
<1>8. Gone(D2, K2, M)
  <2>1. Gone(D, K, M)
    BY <1>1 DEF PhotoInv
  <2>2. QED
    BY <1>1, <1>2, <2>1 DEF Gone, FadesTo, SameView
<1>9. ASSUME NEW j \in Pictures!Mounts, NEW q \in Photos
      PROVE  LET v == SeenIn(views, j)[q]
             IN /\ v.status = "absent" => held[j][q] = 0
                /\ q \notin crossed /\ Pictures!There(v) => held[j][q] \in {0, v.file}
  <2>1. FilesFit(files[j], Pictures!Seen(j), crossed)
    BY DEF PhotoInv
  <2>2. held[j][q] \in {0, files[j][q]}
    BY DEF FadesTo
  <2>3. SameView(SeenIn(views, j)[q], Pictures!Seen(j)[q]) \/ SeenIn(views, j)[q].status = "removed"
    BY DEF FadesTo, SeenIn, Pictures!Seen
  <2>4. CASE SeenIn(views, j)[q].status = "removed"
    BY <2>4 DEF Pictures!There
  <2>5. CASE SameView(SeenIn(views, j)[q], Pictures!Seen(j)[q])
    BY <2>1, <2>2, <2>5 DEF FilesFit, SameView
  <2>6. QED
    BY <2>3, <2>4, <2>5
<1>10. \A j \in Pictures!Mounts : FilesFit(held[j], SeenIn(views, j), crossed)
  BY <1>9 DEF FilesFit
<1>11. QED
  BY <1>1, <1>2, <1>7, <1>8, <1>10

(* A step that does not process the queue.                                 *)
LEMMA PhotosHold ==
  ASSUME PhotoInv, PhotoRest', UNCHANGED <<mount, crossed, used>>, picked' \subseteq picked,
         NEW views, views.draft = draft', views.kept = kept', FadesTo(queue', flights', views, files'),
         QueueMoves(queue', flights')
  PROVE  PhotoInv'
<1>1. PICK Q2, F2, held : Q2 = queue' /\ F2 = flights' /\ held = files'
  OBVIOUS
<1>2. FadesTo(Q2, F2, views, held)
  BY <1>1
<1>3. /\ PhotosFit(Q2, F2, views.draft, views.kept, mount, used.tries, crossed)
      /\ Gone(views.draft, views.kept, mount)
      /\ \A j \in Pictures!Mounts : FilesFit(held[j], SeenIn(views, j), crossed)
  BY <1>2, PhotosFade
<1>4. \A j : SeenIn(views, j) = Pictures!Seen(j)'
  BY DEF SeenIn, Pictures!Seen
<1>5. PhotosFit(queue', flights', draft', kept', mount', used'.tries, crossed') /\ Gone(draft', kept', mount')
  BY <1>1, <1>3
<1>6. \A j \in Pictures!Mounts : FilesFit(files'[j], Pictures!Seen(j)', crossed')
  BY <1>1, <1>3, <1>4
<1>7. QED
  BY <1>5, <1>6 DEF PhotoInv, PhotoRest

(* An attempt ends.                                                        *)
LEMMA PhotosEnd ==
  ASSUME PhotoInv, NEW f \in flights, NEW clocks \in [Pictures!Mounts -> [Photos -> Pictures!Try]],
         NEW held \in [Pictures!Mounts -> [Photos -> Pictures!File]], NEW views,
         mount = 1 => held[2] = [p \in Photos |-> 0],
         Pictures!Ended(f, clocks, held, views), FadesTo(queue, flights \ {f}, views, held)
  PROVE  PhotoInv'
<1>1. PICK m, W, out, ended : m = f.mount /\ W = queue[m] /\ out = flights \ {f} /\ ended = TRUE
  OBVIOUS
<1>2. /\ Pictures!Process(m, W, out, ended, views) /\ timers' = clocks /\ files' = held
      /\ UNCHANGED <<mount, picked, used, crossed>>
  BY <1>1 DEF Pictures!Ended
<1>3. m \in Pictures!Mounts /\ queue \in [Pictures!Mounts -> SUBSET Item]
  BY <1>1, PhotoFacts DEF Airborne
<1>4. PICK Q : Q = queue
  OBVIOUS
<1>5. /\ PhotosFit(Q, out, views.draft, views.kept, mount, used.tries, crossed)
      /\ Gone(views.draft, views.kept, mount)
      /\ \A j \in Pictures!Mounts : FilesFit(held[j], SeenIn(views, j), crossed)
  <2>1. FadesTo(Q, out, views, held)
    BY <1>1, <1>4
  <2>2. QED
    BY <2>1, PhotosFade
<1>6. [queue EXCEPT ![m] = W] = Q
  BY <1>1, <1>3, <1>4
<1>7. \A j \in Pictures!Mounts \ {m} : queue[j] # {} => \E g \in out : g.mount = j
  <2>1. \A j \in Pictures!Mounts : queue[j] # {} => \E g \in flights : g.mount = j
    BY DEF PhotoInv, QueueMoves
  <2>2. QED
    BY <1>1, <2>1
<1>8. PICK top, over : top = used'.tries /\ over = crossed'
  OBVIOUS
<1>9. Ready(m, W, out, views, top, over)
  BY <1>2, <1>5, <1>6, <1>7, <1>8 DEF Ready
<1>10. PhotoRest'
  <2>1. mount = 1 => \A r \in picked : r.mount = 1
    BY DEF PhotoInv
  <2>2. QED
    BY <1>2, <2>1, PhotoFacts, PhotoConstants DEF PhotoRest
<1>11. \A j \in Pictures!Mounts : FilesFit(files'[j], SeenIn(views, j), over)
  BY <1>2, <1>5, <1>8
<1>12. QED
  BY <1>2, <1>3, <1>8, <1>9, <1>10, <1>11, PhotosGoOn

(* What an attempt that waits or is under way says of the photos.          *)
LEMMA AttemptSays ==
  ASSUME PhotoInv
  PROVE  /\ \A m \in Pictures!Mounts : \A i \in queue[m] :
              AttemptFits(m, i, draft, kept, mount, used.tries, crossed)
         /\ \A f \in flights : AttemptFits(f.mount, f, draft, kept, mount, used.tries, crossed)
         /\ Waits(queue, flights, draft)
  BY PhotoFacts DEF AttemptsFit, Waits

LEMMA SameIsSame == ASSUME NEW v PROVE SameView(v, v)
  BY DEF SameView

LEMMA PhotosAbort ==
  ASSUME PhotoInv, NEW p \in Photos, Pictures!Abort(p)
  PROVE  PhotoInv'
<1>1. PICK m, try : m = mount /\ try = draft[p].try
  OBVIOUS
<1>2. PICK edit : edit = [photo \in Pictures!Views(p) |-> Pictures!AbortedPhoto(m, photo)]
  OBVIOUS
<1>3. PICK views : views = Pictures!Edited(m, p, edit)
  OBVIOUS
<1>4. PICK d : d = Pictures!AbortedPhoto(m, draft[p])
  OBVIOUS
<1>5. /\ draft[p].status \in Pictures!Active /\ timers' = [timers EXCEPT ![m][p] = 0]
      /\ queue' = [queue EXCEPT ![m] = Pictures!Unqueued(m, try)] /\ flights' = Pictures!Aborted(m, try)
      /\ draft' = views.draft /\ kept' = views.kept
      /\ UNCHANGED <<mount, picked, files, used, crossed>>
  BY <1>1, <1>2, <1>3 DEF Pictures!Abort, Pictures!Written
<1>6. m \in Pictures!Mounts /\ draft[p] \in Pictures!Photo /\ try # 0 /\ Pictures!There(draft[p])
  BY <1>1, <1>5, PhotoFacts, PhotoConstants DEF ViewFits, Pictures!There
<1>7. views.draft = [draft EXCEPT ![p] = d] /\ views.kept = kept
  <2>1. edit[draft[p]] = d
    BY <1>2, <1>4 DEF Pictures!Views
  <2>2. QED
    BY <1>1, <1>3, <1>6, <2>1, MountedEdit
<1>8. Still(flights, flights')
  BY <1>5, AbortedIs, PhotoFacts
<1>9. /\ d = draft[p] /\ Pictures!Away(m, try)
      \/ d = [draft[p] EXCEPT !.status = "aborted", !.retryable = FALSE]
  BY <1>1, <1>4, <1>6 DEF Pictures!AbortedPhoto
<1>10. /\ d \in Pictures!Photo /\ d.try = try /\ d.file = draft[p].file /\ d.asset = draft[p].asset
       /\ Pictures!There(d) /\ (d.status \in Pictures!Active => Pictures!Away(m, try))
  BY <1>1, <1>6, <1>9, PhotoConstants DEF Pictures!Photo, Pictures!There
<1>11. SameView(d, draft[p])
  BY <1>1, <1>6, <1>10 DEF SameView, Pictures!There
<1>12. ViewFits(views.draft, used.tries, crossed)
  BY <1>1, <1>6, <1>7, <1>10, PhotoFacts DEF ViewFits
<1>13. /\ queue' \in [Pictures!Mounts -> SUBSET Item] /\ \A j \in Pictures!Mounts : queue'[j] \subseteq queue[j]
       /\ \A j \in Pictures!Mounts : \A i \in queue[j] \ queue'[j] : i.try = try
  BY <1>5, <1>6, PhotoFacts DEF Pictures!Unqueued
<1>14. ASSUME NEW q \in Photos, views.draft[q].status \in Pictures!Active
       PROVE  \/ \E f \in flights' : f.try = views.draft[q].try
              \/ \E j \in Pictures!Mounts : \E i \in queue'[j] : i.try = views.draft[q].try
  <2>1. \A g \in flights : \E f \in flights' : f.try = g.try
    BY <1>8 DEF Still, SameAttempt
  <2>2. CASE q = p
    <3>1. views.draft[q] = d
      BY <1>7, <2>2, PhotoFacts
    <3>2. PICK g \in flights : g.try = try
      BY <1>10, <1>14, <3>1 DEF Pictures!Away
    <3>3. QED
      BY <1>10, <2>1, <3>1, <3>2
  <2>3. CASE q # p
    <3>1. views.draft[q] = draft[q]
      BY <1>7, <2>3, PhotoFacts
    <3>2. ASSUME NEW j \in Pictures!Mounts, NEW i \in queue[j], i.try = draft[q].try PROVE i \in queue'[j]
      <4>1. i.photo = q /\ (i.try = draft[p].try => i.photo = p)
        BY <3>2, AttemptSays DEF AttemptFits
      <4>2. QED
        BY <1>1, <1>13, <2>3, <4>1
    <3>3. QED
      BY <1>14, <2>1, <3>1, <3>2, AttemptSays DEF Waits
  <2>4. QED
    BY <2>2, <2>3
<1>15. Waits(queue', flights', views.draft)
  BY <1>14 DEF Waits
<1>16. FadesTo(queue', flights', views, files')
  <2>1. \A q \in Photos : SameView(views.draft[q], draft[q]) /\ SameView(views.kept[q], kept[q])
    BY <1>7, <1>11, SameIsSame, PhotoFacts
  <2>2. \A j \in Pictures!Mounts, q \in Photos : files'[j][q] \in {0, files[j][q]}
    BY <1>5
  <2>3. QED
    BY <1>7, <1>8, <1>12, <1>13, <1>15, <2>1, <2>2, PhotoFacts DEF FadesTo, Still
<1>17. QueueMoves(queue', flights')
  <2>1. \A g \in flights : \E f \in flights' : f.mount = g.mount
    BY <1>8 DEF Still
  <2>2. \A j \in Pictures!Mounts : queue[j] # {} => \E g \in flights : g.mount = j
    BY DEF PhotoInv, QueueMoves
  <2>3. QED
    BY <1>13, <2>1, <2>2 DEF QueueMoves
<1>18. PhotoRest'
  <2>1. timers' \in [Pictures!Mounts -> [Photos -> Pictures!Try]]
    BY <1>5, <1>6, PhotoFacts, PhotoConstants
  <2>2. QED
    BY <1>5, <2>1, PhotoFacts, PhotoConstants DEF PhotoRest, PhotoInv
<1>19. QED
  BY <1>5, <1>16, <1>17, <1>18, PhotosHold

LEMMA PhotosRemove ==
  ASSUME PhotoInv, NEW p \in Photos, Pictures!Remove(p)
  PROVE  PhotoInv'
<1>1. PICK m, try : m = mount /\ try = draft[p].try
  OBVIOUS
<1>2. PICK d : d = [Pictures!NoPhoto EXCEPT !.status = "removed"]
  OBVIOUS
<1>3. PICK edit : edit = [photo \in Pictures!Views(p) |-> d]
  OBVIOUS
<1>4. PICK views : views = Pictures!Edited(m, p, edit)
  OBVIOUS
<1>5. /\ Pictures!There(draft[p]) /\ timers' = [timers EXCEPT ![m][p] = 0]
      /\ queue' = [queue EXCEPT ![m] = {item \in queue[m] : item.photo # p}]
      /\ flights' = Pictures!Aborted(m, try) /\ files' = [files EXCEPT ![m][p] = 0]
      /\ draft' = views.draft /\ kept' = views.kept
      /\ UNCHANGED <<mount, picked, used, crossed>>
  BY <1>1, <1>2, <1>3, <1>4 DEF Pictures!Remove, Pictures!Written
<1>6. m \in Pictures!Mounts
  BY <1>1, PhotoFacts, PhotoConstants
<1>7. views.draft = [draft EXCEPT ![p] = d] /\ views.kept = kept
  <2>1. edit[draft[p]] = d
    BY <1>3 DEF Pictures!Views
  <2>2. QED
    BY <1>1, <1>4, <1>6, <2>1, MountedEdit
<1>8. Still(flights, flights')
  BY <1>5, AbortedIs, PhotoFacts
<1>9. /\ d \in Pictures!Photo /\ d.try = 0 /\ d.status = "removed" /\ d.asset = 0
      /\ d.status \notin Pictures!Active
  <2>1. 0 \in Pictures!File /\ 0 \in Pictures!Try /\ 0 \in Nat
    BY PhotoConstants
  <2>2. d = [status |-> "removed", file |-> 0, try |-> 0, n |-> 0, retryable |-> FALSE, asset |-> 0]
    BY <1>2 DEF Pictures!NoPhoto
  <2>3. d \in Pictures!Photo
    BY <2>1, <2>2 DEF Pictures!Photo
  <2>4. QED
    BY <2>2, <2>3, PhotoConstants
<1>10. ViewFits(views.draft, used.tries, crossed)
  <2>1. draft \in [Photos -> Pictures!Photo] /\ ViewFits(draft, used.tries, crossed) /\ 0 <= used.tries
    BY PhotoFacts
  <2>2. \A q \in Photos : views.draft[q] = IF q = p THEN d ELSE draft[q]
    BY <1>7, <2>1
  <2>3. views.draft \in [Photos -> Pictures!Photo]
    BY <1>7, <1>9, <2>1
  <2>4. d.status \notin Pictures!Active \cup {"failed", "aborted"}
    BY <1>9
  <2>5. QED
    BY <1>9, <2>1, <2>2, <2>3, <2>4 DEF ViewFits
<1>11. /\ queue' \in [Pictures!Mounts -> SUBSET Item] /\ \A j \in Pictures!Mounts : queue'[j] \subseteq queue[j]
       /\ \A j \in Pictures!Mounts : \A i \in queue[j] \ queue'[j] : i.photo = p
  BY <1>5, <1>6, PhotoFacts
<1>12. ASSUME NEW q \in Photos, views.draft[q].status \in Pictures!Active
       PROVE  \/ \E f \in flights' : f.try = views.draft[q].try
              \/ \E j \in Pictures!Mounts : \E i \in queue'[j] : i.try = views.draft[q].try
  <2>1. \A g \in flights : \E f \in flights' : f.try = g.try
    BY <1>8 DEF Still, SameAttempt
  <2>2. q # p /\ views.draft[q] = draft[q]
    BY <1>7, <1>9, <1>12, PhotoFacts
  <2>3. ASSUME NEW j \in Pictures!Mounts, NEW i \in queue[j], i.try = draft[q].try PROVE i \in queue'[j]
    <3>1. i.photo = q
      BY <2>3, AttemptSays DEF AttemptFits
    <3>2. QED
      BY <1>11, <2>2, <3>1
  <2>4. QED
    BY <1>12, <2>1, <2>2, <2>3, AttemptSays DEF Waits
<1>13. Waits(queue', flights', views.draft)
  BY <1>12 DEF Waits
<1>14. FadesTo(queue', flights', views, files')
  <2>1. \A q \in Photos : /\ SameView(views.kept[q], kept[q])
                          /\ \/ SameView(views.draft[q], draft[q])
                             \/ views.draft[q].status = "removed" /\ Pictures!There(draft[q])
    BY <1>5, <1>7, <1>9, SameIsSame, PhotoFacts
  <2>2. \A j \in Pictures!Mounts, q \in Photos : files'[j][q] \in {0, files[j][q]}
    BY <1>5, PhotoFacts
  <2>3. QED
    BY <1>7, <1>8, <1>10, <1>11, <1>13, <2>1, <2>2, PhotoFacts DEF FadesTo, Still
<1>15. QueueMoves(queue', flights')
  <2>1. \A g \in flights : \E f \in flights' : f.mount = g.mount
    BY <1>8 DEF Still
  <2>2. \A j \in Pictures!Mounts : queue[j] # {} => \E g \in flights : g.mount = j
    BY DEF PhotoInv, QueueMoves
  <2>3. QED
    BY <1>11, <2>1, <2>2 DEF QueueMoves
<1>16. PhotoRest'
  <2>1. /\ timers' \in [Pictures!Mounts -> [Photos -> Pictures!Try]]
        /\ files' \in [Pictures!Mounts -> [Photos -> Pictures!File]]
    BY <1>5, <1>6, PhotoFacts, PhotoConstants
  <2>2. mount = 1 => files'[2] = files[2]
    BY <1>1, <1>5, PhotoFacts, PhotoConstants
  <2>3. QED
    BY <1>5, <2>1, <2>2, PhotoFacts, PhotoConstants DEF PhotoRest, PhotoInv
<1>17. QED
  BY <1>5, <1>14, <1>15, <1>16, PhotosHold

(* What an attempt writes of its photo.                                    *)
LEMMA OutcomeIs ==
  ASSUME PhotoInv, NEW f \in flights, NEW status \in {"uploading", "uploaded", "failed", "aborted"},
         NEW retryable \in BOOLEAN, NEW asset \in {0, f.file}, NEW views,
         views = Pictures!Outcome(f, status, retryable, asset)
  PROVE  /\ ViewFits(views.draft, used.tries, crossed) /\ ViewFits(views.kept, used.tries, crossed)
         /\ \A p \in Photos : SameView(views.draft[p], draft[p]) /\ SameView(views.kept[p], kept[p])
         /\ \A p \in Photos : IF draft[p].try = f.try THEN views.draft[p].status = status
                              ELSE views.draft[p] = draft[p]
<1>1. PICK m, p : m = f.mount /\ p = f.photo
  OBVIOUS
<1>2. PICK edit : edit = [photo \in Pictures!Views(p) |->
         IF Pictures!IsAttempt(photo, f.try)
         THEN [photo EXCEPT !.status = status, !.retryable = retryable, !.asset = asset]
         ELSE photo]
  OBVIOUS
<1>3. views = Pictures!Edited(m, p, edit)
  BY <1>1, <1>2 DEF Pictures!Outcome
<1>4. /\ AttemptFits(m, f, draft, kept, mount, used.tries, crossed) /\ m \in Pictures!Mounts /\ p \in Photos
      /\ f.try # 0 /\ f.file \in Pictures!File /\ asset \in Pictures!File
  <2>1. AttemptFits(m, f, draft, kept, mount, used.tries, crossed) /\ m \in Pictures!Mounts
    BY <1>1, AttemptSays, PhotoFacts DEF Airborne
  <2>2. QED
    BY <1>1, <2>1, PhotoConstants DEF AttemptFits
<1>5. PICK d, k : d = edit[draft[p]] /\ k = (IF m = mount THEN kept[p] ELSE edit[kept[p]])
  OBVIOUS
<1>6. views.draft = [draft EXCEPT ![p] = d] /\ views.kept = [kept EXCEPT ![p] = k]
  BY <1>3, <1>4, <1>5, EditedIs
<1>7. ASSUME NEW V, NEW v, ViewFits(V, used.tries, crossed), v = V[p] \/ v = edit[V[p]],
             V[p] \in Pictures!Views(p), V[p].try = f.try /\ p \notin crossed => V[p].file = f.file
      PROVE  ViewFits([V EXCEPT ![p] = v], used.tries, crossed) /\ SameView(v, V[p])
  <2>1. V \in [Photos -> Pictures!Photo] /\ V[p] \in Pictures!Photo
    BY <1>4, <1>7 DEF ViewFits
  <2>2. CASE v = V[p]
    <3>1. [V EXCEPT ![p] = v] = V
      BY <1>4, <2>1, <2>2
    <3>2. QED
      BY <1>7, <2>2, <3>1, SameIsSame
  <2>3. CASE v = [V[p] EXCEPT !.status = status, !.retryable = retryable, !.asset = asset]
             /\ Pictures!IsAttempt(V[p], f.try)
    <3>1. /\ v \in Pictures!Photo /\ v.try = V[p].try /\ v.file = V[p].file /\ v.asset = asset
          /\ v.status = status
      BY <1>4, <2>1, <2>3, PhotoConstants DEF Pictures!Photo
    <3>2. Pictures!There(v) /\ Pictures!There(V[p]) /\ v.try = f.try
      BY <2>3, <3>1 DEF Pictures!IsAttempt, Pictures!There
    <3>3. p \notin crossed => v.asset \in {0, v.file}
      BY <1>7, <3>1, <3>2
    <3>4. ViewFits([V EXCEPT ![p] = v], used.tries, crossed)
      BY <1>4, <1>7, <2>1, <3>1, <3>2, <3>3 DEF ViewFits
    <3>5. SameView(v, V[p])
      BY <3>1, <3>2 DEF SameView, Pictures!There
    <3>6. QED
      BY <3>4, <3>5
  <2>4. QED
    BY <1>2, <1>7, <2>2, <2>3
<1>8. draft[p] \in Pictures!Views(p) /\ kept[p] \in Pictures!Views(p)
  BY DEF Pictures!Views
<1>9. /\ draft[p].try = f.try /\ p \notin crossed => draft[p].file = f.file
      /\ kept[p].try = f.try /\ p \notin crossed => kept[p].file = f.file
  BY <1>4 DEF AttemptFits
<1>10. /\ ViewFits([draft EXCEPT ![p] = d], used.tries, crossed) /\ SameView(d, draft[p])
       /\ ViewFits([kept EXCEPT ![p] = k], used.tries, crossed) /\ SameView(k, kept[p])
  <2>1. PICK D, K : D = draft /\ K = kept
    OBVIOUS
  <2>2. ViewFits([D EXCEPT ![p] = d], used.tries, crossed) /\ SameView(d, D[p])
    BY <1>5, <1>7, <1>8, <1>9, <2>1, PhotoFacts
  <2>3. ViewFits([K EXCEPT ![p] = k], used.tries, crossed) /\ SameView(k, K[p])
    BY <1>5, <1>7, <1>8, <1>9, <2>1, PhotoFacts
  <2>4. QED
    BY <2>1, <2>2, <2>3
<1>11. \A q \in Photos : SameView(views.draft[q], draft[q]) /\ SameView(views.kept[q], kept[q])
  BY <1>4, <1>6, <1>10, SameIsSame, PhotoFacts
<1>12. ASSUME NEW q \in Photos
       PROVE  IF draft[q].try = f.try THEN views.draft[q].status = status ELSE views.draft[q] = draft[q]
  <2>1. CASE draft[q].try = f.try
    <3>1. q = p /\ Pictures!There(draft[q])
      BY <1>1, <1>4, <2>1, PhotoFacts DEF AttemptFits, ViewFits
    <3>2. d = [draft[p] EXCEPT !.status = status, !.retryable = retryable, !.asset = asset]
      BY <1>2, <1>5, <1>8, <2>1, <3>1 DEF Pictures!IsAttempt
    <3>3. d.status = status
      BY <1>4, <3>2, PhotoFacts DEF Pictures!Photo
    <3>4. QED
      BY <1>6, <2>1, <3>1, <3>3, PhotoFacts
  <2>2. CASE draft[q].try # f.try
    <3>1. draft[p].try # f.try => d = draft[p]
      BY <1>2, <1>5, <1>8 DEF Pictures!IsAttempt
    <3>2. QED
      BY <1>4, <1>6, <2>2, <3>1, PhotoFacts
  <2>3. QED
    BY <2>1, <2>2
<1>13. QED
  BY <1>6, <1>10, <1>11, <1>12

(* An attempt goes on to its next point.                                   *)
LEMMA OnwardIs ==
  ASSUME PhotoInv, NEW f \in flights, NEW at \in {"sent", "session", "resent", "deaf"}, Pictures!Onward(f, at)
  PROVE  /\ Still(flights, flights') /\ PhotoRest' /\ UNCHANGED <<mount, picked, files, queue, used, crossed>>
         /\ QueueMoves(queue', flights')
<1>1. PICK g : g = [f EXCEPT !.at = at]
  OBVIOUS
<1>2. g \in Airborne /\ SameAttempt(g, f) /\ SameAttempt(f, g) /\ g.mount = f.mount
  BY <1>1, PhotoFacts DEF Airborne, SameAttempt
<1>3. flights' = (flights \ {f}) \cup {g} /\ UNCHANGED <<mount, picked, files, queue, timers, used, crossed>>
  BY <1>1 DEF Pictures!Onward
<1>4. Still(flights, flights')
  BY <1>2, <1>3, PhotoFacts DEF Still, SameAttempt
<1>5. PhotoRest'
  BY <1>3, PhotoFacts, PhotoConstants DEF PhotoRest, PhotoInv
<1>6. QueueMoves(queue', flights')
  BY <1>3, <1>4 DEF PhotoInv, QueueMoves, Still
<1>7. QED
  BY <1>3, <1>4, <1>5, <1>6

LEMMA PhotosOnward ==
  ASSUME PhotoInv, NEW f \in flights, Pictures!Send(f) \/ Pictures!Refused(f) \/ Pictures!Resend(f)
  PROVE  PhotoInv'
<1>1. PICK views : views = IF Pictures!Send(f) THEN Pictures!Outcome(f, "uploading", FALSE, 0) ELSE Pictures!Same
  OBVIOUS
<1>2. PICK at \in {"sent", "session", "resent", "deaf"} : Pictures!Onward(f, at)
  BY DEF Pictures!Send, Pictures!Refused, Pictures!Resend
<1>3. draft' = views.draft /\ kept' = views.kept
  BY <1>1 DEF Pictures!Send, Pictures!Refused, Pictures!Resend, Pictures!Written, Pictures!Same
<1>4. /\ Still(flights, flights') /\ PhotoRest' /\ UNCHANGED <<mount, picked, files, queue, used, crossed>>
      /\ QueueMoves(queue', flights')
  BY <1>2, OnwardIs
<1>5. /\ ViewFits(views.draft, used.tries, crossed) /\ ViewFits(views.kept, used.tries, crossed)
      /\ \A p \in Photos : SameView(views.draft[p], draft[p]) /\ SameView(views.kept[p], kept[p])
      /\ \A p \in Photos : draft[p].try = f.try \/ views.draft[p] = draft[p]
  <2>1. CASE Pictures!Send(f)
    <3>1. views = Pictures!Outcome(f, "uploading", FALSE, 0)
      BY <1>1, <2>1
    <3>2. PICK status, retryable, asset : status = "uploading" /\ retryable = FALSE /\ asset = 0
      OBVIOUS
    <3>3. /\ status \in {"uploading", "uploaded", "failed", "aborted"}
          /\ retryable \in BOOLEAN /\ asset \in {0, f.file}
          /\ views = Pictures!Outcome(f, status, retryable, asset)
      BY <3>1, <3>2
    <3>4. /\ ViewFits(views.draft, used.tries, crossed) /\ ViewFits(views.kept, used.tries, crossed)
          /\ \A p \in Photos : SameView(views.draft[p], draft[p]) /\ SameView(views.kept[p], kept[p])
          /\ \A p \in Photos : IF draft[p].try = f.try THEN views.draft[p].status = status
                               ELSE views.draft[p] = draft[p]
      BY <3>3, OutcomeIs
    <3>5. QED
      BY <3>4
  <2>2. CASE ~Pictures!Send(f)
    <3>1. views.draft = draft /\ views.kept = kept
      BY <1>1, <2>2 DEF Pictures!Same
    <3>2. QED
      BY <3>1, SameIsSame, PhotoFacts
  <2>3. QED
    BY <2>1, <2>2
<1>6. Waits(queue', flights', views.draft)
  <2>1. ASSUME NEW p \in Photos, views.draft[p].status \in Pictures!Active
        PROVE  \/ \E g \in flights' : g.try = views.draft[p].try
               \/ \E m \in Pictures!Mounts : \E i \in queue'[m] : i.try = views.draft[p].try
    <3>1. \A h \in flights : \E g \in flights' : g.try = h.try
      BY <1>4 DEF Still, SameAttempt
    <3>2. views.draft[p].try = draft[p].try
      BY <1>5 DEF SameView
    <3>3. CASE draft[p].try = f.try
      BY <3>1, <3>2, <3>3
    <3>4. CASE views.draft[p] = draft[p]
      BY <1>4, <2>1, <3>1, <3>4, AttemptSays DEF Waits
    <3>5. QED
      BY <1>5, <3>3, <3>4
  <2>2. QED
    BY <2>1 DEF Waits
<1>7. FadesTo(queue', flights', views, files')
  <2>1. queue \in [Pictures!Mounts -> SUBSET Item] /\ queue' = queue /\ files' = files
    BY <1>4, PhotoFacts
  <2>2. QED
    BY <1>4, <1>5, <1>6, <2>1 DEF FadesTo, Still
<1>8. QED
  BY <1>3, <1>4, <1>7, PhotosHold

(* An attempt ends, and no photo of the draft waits for it any more.       *)
LEMMA PhotosSettle ==
  ASSUME PhotoInv, NEW f \in flights, NEW clocks, NEW held, NEW views,
         clocks = timers \/ clocks = [timers EXCEPT ![f.mount][f.photo] = f.try],
         held = files \/ held = [files EXCEPT ![f.mount][f.photo] = 0],
         Pictures!Ended(f, clocks, held, views),
         ViewFits(views.draft, used.tries, crossed), ViewFits(views.kept, used.tries, crossed),
         \A p \in Photos : SameView(views.draft[p], draft[p]) /\ SameView(views.kept[p], kept[p]),
         \A p \in Photos : IF draft[p].try = f.try THEN views.draft[p].status \notin Pictures!Active
                           ELSE views.draft[p] = draft[p]
  PROVE  PhotoInv'
<1>1. f.mount \in Pictures!Mounts /\ f.photo \in Photos /\ f.try \in Pictures!Try
  BY PhotoFacts DEF Airborne
<1>2. clocks \in [Pictures!Mounts -> [Photos -> Pictures!Try]]
  <2>1. timers \in [Pictures!Mounts -> [Photos -> Pictures!Try]]
    BY PhotoFacts
  <2>2. QED
    BY <1>1, <2>1
<1>3. /\ held \in [Pictures!Mounts -> [Photos -> Pictures!File]]
      /\ \A m \in Pictures!Mounts, p \in Photos : held[m][p] \in {0, files[m][p]}
  <2>1. files \in [Pictures!Mounts -> [Photos -> Pictures!File]] /\ 0 \in Pictures!File
    <3>1. files \in [Pictures!Mounts -> [Photos -> Pictures!File]]
      BY PhotoFacts
    <3>2. 0 \in Pictures!File
      BY PhotoConstants
    <3>3. QED
      BY <3>1, <3>2
  <2>2. CASE held = files
    BY <2>1, <2>2
  <2>3. CASE held = [files EXCEPT ![f.mount][f.photo] = 0]
    <3>1. held \in [Pictures!Mounts -> [Photos -> Pictures!File]]
      BY <1>1, <2>1, <2>3
    <3>2. \A m \in Pictures!Mounts : held[m] = IF m = f.mount THEN [files[m] EXCEPT ![f.photo] = 0] ELSE files[m]
      BY <1>1, <2>1, <2>3
    <3>3. \A m \in Pictures!Mounts, p \in Photos : held[m][p] \in {0, files[m][p]}
      BY <2>1, <3>2
    <3>4. QED
      BY <3>1, <3>3
  <2>4. QED
    BY <2>2, <2>3
<1>4. mount = 1 => held[2] = [p \in Photos |-> 0]
  <2>1. ASSUME mount = 1 PROVE held[2] = [p \in Photos |-> 0]
    <3>1. files[2] = [p \in Photos |-> 0]
      BY <2>1 DEF PhotoInv
    <3>2. held[2] \in [Photos -> Pictures!File] /\ \A p \in Photos : held[2][p] = 0
      BY <1>3, <3>1, PhotoConstants
    <3>3. QED
      BY <3>2
  <2>2. QED
    BY <2>1
<1>5. Waits(queue, flights \ {f}, views.draft)
  <2>1. ASSUME NEW p \in Photos, views.draft[p].status \in Pictures!Active
        PROVE  \/ \E g \in flights \ {f} : g.try = views.draft[p].try
               \/ \E m \in Pictures!Mounts : \E i \in queue[m] : i.try = views.draft[p].try
    <3>1. draft[p].try # f.try /\ views.draft[p] = draft[p]
      BY <2>1
    <3>2. QED
      BY <2>1, <3>1, AttemptSays DEF Waits
  <2>2. QED
    BY <2>1 DEF Waits
<1>6. FadesTo(queue, flights \ {f}, views, held)
  <2>1. \A g \in flights \ {f} : \E h \in flights : SameAttempt(g, h) /\ g.mount = h.mount
    BY DEF SameAttempt
  <2>2. QED
    BY <1>3, <1>5, <2>1, PhotoFacts DEF FadesTo
<1>7. QED
  BY <1>2, <1>3, <1>4, <1>6, PhotosEnd

LEMMA PhotosFinish ==
  ASSUME PhotoInv, NEW f \in flights,
         Pictures!Arrives(f) \/ Pictures!IsAborted(f) \/ \E retryable \in BOOLEAN : Pictures!Fails(f, retryable)
  PROVE  PhotoInv'
<1> DEFINE off == [files EXCEPT ![f.mount][f.photo] = 0]
           clock == [timers EXCEPT ![f.mount][f.photo] = f.try]
<1>1. PICK off2, clock2 : off2 = off /\ clock2 = clock
  OBVIOUS
<1>2. ASSUME NEW status \in {"uploaded", "failed", "aborted"}, NEW retryable \in BOOLEAN, NEW asset \in {0, f.file},
             NEW clocks \in {timers, clock}, NEW held \in {files, off},
             Pictures!Ended(f, clocks, held, Pictures!Outcome(f, status, retryable, asset))
      PROVE  PhotoInv'
  <2>1. PICK views : views = Pictures!Outcome(f, status, retryable, asset)
    OBVIOUS
  <2>2. status \in {"uploading", "uploaded", "failed", "aborted"} /\ status \notin Pictures!Active
    BY PhotoConstants
  <2>3. /\ ViewFits(views.draft, used.tries, crossed) /\ ViewFits(views.kept, used.tries, crossed)
        /\ \A p \in Photos : SameView(views.draft[p], draft[p]) /\ SameView(views.kept[p], kept[p])
        /\ \A p \in Photos : IF draft[p].try = f.try THEN views.draft[p].status = status
                             ELSE views.draft[p] = draft[p]
    BY <2>1, <2>2, OutcomeIs
  <2>4. \A p \in Photos : IF draft[p].try = f.try THEN views.draft[p].status \notin Pictures!Active
                          ELSE views.draft[p] = draft[p]
    BY <2>2, <2>3
  <2>5. Pictures!Ended(f, clocks, held, views)
    BY <1>2, <2>1
  <2>6. QED
    BY <2>3, <2>4, <2>5, PhotosSettle
<1>3. CASE Pictures!IsAttempt(Pictures!Seen(f.mount)[f.photo], f.try) /\ Pictures!Arrives(f)
  BY <1>2, <1>3 DEF Pictures!Arrives
<1>4. CASE ~Pictures!IsAttempt(Pictures!Seen(f.mount)[f.photo], f.try) /\ Pictures!Arrives(f)
  <2>1. PICK views : views = Pictures!Same
    OBVIOUS
  <2>2. views.draft = draft /\ views.kept = kept /\ Pictures!Ended(f, timers, files, views)
    BY <1>4, <2>1 DEF Pictures!Arrives, Pictures!Same
  <2>3. ASSUME NEW p \in Photos, draft[p].try = f.try PROVE FALSE
    <3>1. AttemptFits(f.mount, f, draft, kept, mount, used.tries, crossed) /\ f.try # 0
      BY AttemptSays, PhotoConstants DEF AttemptFits
    <3>2. p = f.photo /\ (f.mount # mount => kept[p].try = f.try)
      BY <2>3, <3>1 DEF AttemptFits
    <3>3. Pictures!Seen(f.mount)[p].try = f.try /\ Pictures!There(Pictures!Seen(f.mount)[p])
      BY <2>3, <3>1, <3>2, PhotoFacts DEF Pictures!Seen, ViewFits
    <3>4. QED
      BY <1>4, <3>2, <3>3 DEF Pictures!IsAttempt
  <2>4. QED
    BY <2>2, <2>3, SameIsSame, PhotoFacts, PhotosSettle
<1>5. CASE Pictures!IsAborted(f)
  BY <1>2, <1>5 DEF Pictures!IsAborted
<1>6. ASSUME NEW retryable \in BOOLEAN, Pictures!Fails(f, retryable) PROVE PhotoInv'
  BY <1>2, <1>6 DEF Pictures!Fails
<1>7. QED
  BY <1>3, <1>4, <1>5, <1>6

LEMMA PhotosLook ==
  ASSUME PhotoInv, NEW p \in Photos, Pictures!LookAt(p)
  PROVE  PhotoInv'
<1>1. PICK r : r = [mount |-> mount, photo |-> p, file |-> used.files + 1]
  OBVIOUS
<1>2. /\ used' = [used EXCEPT !.files = used.files + 1] /\ used.files < MaxFiles
      /\ picked' = picked \cup {r} /\ UNCHANGED <<mount, draft, kept, files, queue, flights, timers, crossed>>
  BY <1>1 DEF Pictures!LookAt
<1>3. used.files + 1 \in Pictures!File /\ used'.tries = used.tries
  BY <1>2, PhotoFacts, PhotoConstants
<1>4. used' \in [files : Pictures!File, tries : Pictures!Try]
  BY <1>2, <1>3, PhotoFacts
<1>5. picked' \subseteq [mount : Pictures!Mounts, photo : Photos, file : Pictures!File]
  BY <1>1, <1>2, <1>3, PhotoFacts, PhotoConstants
<1>6. \A j : Pictures!Seen(j)' = Pictures!Seen(j)
  BY <1>2 DEF Pictures!Seen
<1>7. mount' = 1 => files'[2] = [q \in Photos |-> 0] /\ \A other \in picked' : other.mount = 1
  BY <1>1, <1>2 DEF PhotoInv
<1>8. PhotosFit(queue', flights', draft', kept', mount', used'.tries, crossed')
  BY <1>2, <1>3, PhotoFacts
<1>9. \A m \in Pictures!Mounts : FilesFit(files'[m], Pictures!Seen(m)', crossed')
  BY <1>2, <1>6 DEF PhotoInv
<1>10. QED
  BY <1>2, <1>4, <1>5, <1>7, <1>8, <1>9 DEF PhotoInv

LEMMA PhotosTimer ==
  ASSUME PhotoInv, NEW m \in Pictures!Mounts, NEW p \in Photos, Pictures!TimerFires(m, p)
  PROVE  PhotoInv'
<1>1. CASE Pictures!Again(m, p) /\ Pictures!Seen(m)[p].status = "failed" /\ files[m][p] # 0
  BY <1>1, PhotosAgain
<1>2. CASE /\ timers' = [timers EXCEPT ![m][p] = 0]
           /\ UNCHANGED <<mount, draft, kept, picked, files, queue, flights, used, crossed>>
  <2>1. timers' \in [Pictures!Mounts -> [Photos -> Pictures!Try]]
    BY <1>2, PhotoFacts, PhotoConstants
  <2>2. \A j : Pictures!Seen(j)' = Pictures!Seen(j)
    BY <1>2 DEF Pictures!Seen
  <2>3. QED
    BY <1>2, <2>1, <2>2 DEF PhotoInv
<1>3. QED
  BY <1>1, <1>2 DEF Pictures!TimerFires

LEMMA PhotosLeave ==
  ASSUME PhotoInv, Pictures!Leave
  PROVE  PhotoInv'
<1>1. /\ mount = 1 /\ mount' = 2 /\ kept' = draft
      /\ flights' = {[f EXCEPT !.aborted = TRUE] : f \in flights}
      /\ timers' = [timers EXCEPT ![1] = [p \in Photos |-> 0]]
      /\ UNCHANGED <<draft, picked, files, queue, used, crossed>>
  BY DEF Pictures!Leave
<1>2. \A f \in flights : /\ [f EXCEPT !.aborted = TRUE] \in Airborne
                         /\ SameAttempt([f EXCEPT !.aborted = TRUE], f) /\ [f EXCEPT !.aborted = TRUE].mount = f.mount
  BY PhotoFacts DEF Airborne, SameAttempt
<1>3. Still(flights, flights')
  BY <1>1, <1>2 DEF Still
<1>4. PICK Q, F, D, K, M, top, over : /\ Q = queue /\ F = flights /\ D = draft /\ K = kept /\ M = mount
                                      /\ top = used.tries /\ over = crossed
  OBVIOUS
<1>5. PICK F2 : F2 = flights'
  OBVIOUS
<1>6. PhotosFit(Q, F2, D, K, M, top, over) /\ QueueMoves(Q, F2)
  <2>1. PhotosFit(Q, F, D, K, M, top, over) /\ Still(F, F2) /\ M \in Pictures!Mounts /\ top \in Pictures!Try
    BY <1>3, <1>4, <1>5, PhotoFacts, PhotoConstants
  <2>2. QueueMoves(Q, F)
    BY <1>4 DEF PhotoInv
  <2>3. QED
    BY <2>1, <2>2, StillFits
<1>7. ASSUME NEW m, NEW a, AttemptFits(m, a, D, K, M, top, over) PROVE AttemptFits(m, a, D, D, 2, top, over)
  BY <1>7 DEF AttemptFits
<1>8. PhotosFit(Q, F2, D, D, 2, top, over)
  BY <1>6, <1>7 DEF PhotosFit, PairFits, AttemptsFit
<1>9. Gone(D, D, 2)
  BY DEF Gone
<1>10. Pictures!Seen(1) = D /\ Pictures!Seen(2) = K /\ Pictures!Seen(1)' = D /\ Pictures!Seen(2)' = D
  BY <1>1, <1>4 DEF Pictures!Seen
<1>11. FilesFit(files[1], D, over) /\ FilesFit(files[2], D, over)
  <2>1. FilesFit(files[1], Pictures!Seen(1), crossed)
    BY PhotoConstants DEF PhotoInv
  <2>2. files[2] = [p \in Photos |-> 0]
    BY <1>1 DEF PhotoInv
  <2>3. FilesFit(files[2], D, over)
    BY <2>2 DEF FilesFit
  <2>4. QED
    BY <1>4, <1>10, <2>1, <2>3
<1>12. timers' \in [Pictures!Mounts -> [Photos -> Pictures!Try]]
  BY <1>1, PhotoFacts, PhotoConstants
<1>13. \A m \in Pictures!Mounts : FilesFit(files'[m], Pictures!Seen(m)', crossed')
  BY <1>1, <1>4, <1>10, <1>11, PhotoConstants
<1>14. PhotosFit(queue', flights', draft', kept', mount', used'.tries, crossed') /\ QueueMoves(queue', flights')
       /\ Gone(draft', kept', mount')
  BY <1>1, <1>4, <1>5, <1>6, <1>8, <1>9
<1>15. mount' \in Pictures!Mounts /\ mount' # 1
  BY <1>1, PhotoConstants
<1>16. QED
  BY <1>1, <1>12, <1>13, <1>14, <1>15 DEF PhotoInv

LEMMA PhotosStep == PhotoInv /\ Pictures!Next => PhotoInv'
<1> SUFFICES ASSUME PhotoInv, Pictures!Next PROVE PhotoInv'
  OBVIOUS
<1>1. CASE \E p \in Photos : Pictures!Choose(p) \/ Pictures!Abort(p) \/ Pictures!Remove(p) \/ Pictures!Pick(p)
  BY <1>1, PhotosLook, PhotosAbort, PhotosRemove DEF Pictures!Choose, Pictures!Pick
<1>2. CASE \E r \in picked : Pictures!Add(r) \/ Pictures!Replace(r)
  BY <1>2, PhotosAdd, PhotosReplace
<1>3. ASSUME NEW m \in Pictures!Mounts, NEW p \in Photos, Pictures!Retry(m, p) PROVE PhotoInv'
  BY <1>3, PhotosAgain DEF Pictures!Retry
<1>4. ASSUME NEW m \in Pictures!Mounts, NEW p \in Photos, Pictures!TimerFires(m, p) PROVE PhotoInv'
  BY <1>4, PhotosTimer
<1>5. ASSUME NEW f \in flights, Pictures!Progress(f) PROVE PhotoInv'
  BY <1>5, PhotosOnward, PhotosFinish DEF Pictures!Progress
<1>6. CASE Pictures!Leave
  BY <1>6, PhotosLeave
<1>7. QED
  BY <1>1, <1>2, <1>3, <1>4, <1>5, <1>6 DEF Pictures!Next, Pictures!FlightOf

LEMMA PhotosInit == Pictures!Init => PhotoInv
<1> SUFFICES ASSUME Pictures!Init PROVE PhotoInv
  OBVIOUS
<1>1. 0 \in Pictures!File /\ 1 \in Pictures!File /\ 0 \in Pictures!Try /\ 0 \in Nat /\ 1 \in Pictures!Mounts
  BY PhotoConstants
<1>2. PICK new : new = [status |-> "stored", file |-> 1, try |-> 0, n |-> 0, retryable |-> FALSE, asset |-> 1]
  OBVIOUS
<1>3. \A p \in Photos : draft[p] \in {new, Pictures!NoPhoto} /\ kept[p] = Pictures!NoPhoto
  BY <1>2 DEF Pictures!Init, Pictures!NoPhoto
<1>4. new \in Pictures!Photo /\ Pictures!NoPhoto \in Pictures!Photo
  BY <1>1, <1>2 DEF Pictures!Photo, Pictures!NoPhoto
<1>5. draft \in [Photos -> Pictures!Photo] /\ kept \in [Photos -> Pictures!Photo]
  BY <1>2, <1>4 DEF Pictures!Init, Pictures!NoPhoto
<1>6. /\ mount = 1 /\ crossed = {} /\ picked = {} /\ flights = {} /\ used = [files |-> 1, tries |-> 0]
      /\ queue = [m \in Pictures!Mounts |-> {}] /\ files = [m \in Pictures!Mounts |-> [p \in Photos |-> 0]]
      /\ timers = [m \in Pictures!Mounts |-> [p \in Photos |-> 0]]
  BY DEF Pictures!Init
<1>7. ViewFits(draft, 0, {}) /\ ViewFits(kept, 0, {})
  <2>1. \A v \in {new, Pictures!NoPhoto} :
          /\ v.try = 0 /\ v.status \notin Pictures!Active \cup {"failed", "aborted"} /\ v.asset = v.file
    BY <1>2, PhotoConstants DEF Pictures!NoPhoto
  <2>2. QED
    BY <1>3, <1>5, <2>1 DEF ViewFits
<1>8. AttemptsFit(queue, flights, draft, kept, mount, 0, {})
  <2>1. \A p \in Photos : draft[p].status \notin Pictures!Active
    BY <1>2, <1>3, PhotoConstants DEF Pictures!NoPhoto
  <2>2. QED
    BY <1>6, <2>1 DEF AttemptsFit
<1>9. PairFits(draft, kept, {})
  BY <1>3 DEF PairFits, Pictures!NoPhoto
<1>10. PhotosFit(queue, flights, draft, kept, mount, used.tries, crossed)
  BY <1>6, <1>7, <1>8, <1>9 DEF PhotosFit
<1>11. Gone(draft, kept, mount) /\ QueueMoves(queue, flights)
  BY <1>3, <1>6 DEF Gone, QueueMoves, Pictures!NoPhoto
<1>12. \A m \in Pictures!Mounts : FilesFit(files[m], Pictures!Seen(m), crossed)
  BY <1>6 DEF FilesFit
<1>13. files[2] = [p \in Photos |-> 0]
  BY <1>6, PhotoConstants
<1>14. QED
  BY <1>1, <1>6, <1>10, <1>11, <1>12, <1>13 DEF PhotoInv

LEMMA PhotosAreTyped == PhotoInv => Pictures!TypeOK
<1> SUFFICES ASSUME PhotoInv PROVE Pictures!TypeOK
  OBVIOUS
<1>1. mount \in Pictures!Mounts
  BY DEF PhotoInv
<1>2. QED
  BY <1>1, PhotoFacts DEF Pictures!TypeOK, Item, Airborne

LEMMA PhotosAreTheirFiles == PhotoInv => AssetIsItsFile
<1> SUFFICES ASSUME PhotoInv PROVE AssetIsItsFile
  OBVIOUS
<1>1. \A p \in Photos \ crossed : draft[p].asset # 0 => draft[p].asset = draft[p].file
  BY PhotoFacts DEF ViewFits
<1>2. \A m \in Pictures!Mounts : \A item \in queue[m] : ~Pictures!Away(m, item.try)
  BY PhotoFacts DEF AttemptsFit, Pictures!Away
<1>3. QED
  BY <1>1, <1>2 DEF AssetIsItsFile, Pictures!AssetIsItsFile

LEMMA PhotosAreOnTheirWay == PhotoInv => WaitingIsOnItsWay
<1> SUFFICES ASSUME PhotoInv PROVE WaitingIsOnItsWay
  OBVIOUS
<1>1. \A p \in Photos : Pictures!Waiting(p) =>
        \/ \E f \in flights : f.try = draft[p].try
        \/ \E m \in Pictures!Mounts : \E i \in queue[m] : i.try = draft[p].try
  BY AttemptSays DEF Waits, Pictures!Waiting
<1>2. \A f \in flights : f.mount \in Pictures!Mounts
  BY PhotoFacts DEF Airborne
<1>3. QED
  BY <1>1, <1>2 DEF PhotoInv, QueueMoves, WaitingIsOnItsWay, Pictures!WaitingIsOnItsWay, Pictures!Away

-----------------------------------------------------------------------------
(* The store front.                                                        *)
StorefrontInv == SetupInv /\ PagesInv /\ EventsInv /\ FormInv /\ PhotoInv

LEMMA SetupRests == SetupInv /\ UNCHANGED vars => SetupInv'
  BY SetupStep

LEMMA PagesRest == PagesInv /\ UNCHANGED pageVars => PagesInv'
  BY DEF pageVars, PagesInv, ScopeFits, L2Fits, L1Fits, LoadsFit, Sound, SoundLoad, Numbered, Pages!InForce

LEMMA EventsRest == EventsInv /\ UNCHANGED eventVars => EventsInv'
  BY DEF eventVars, EventsInv, RowsFit, RecordsFit, EntriesFit, BatchFits, Delivered, Elements

LEMMA FormRests == FormInv /\ UNCHANGED formVars => FormInv'
  BY DEF formVars, FormInv, FormFits, QueueFits, RequestsFit, RequestFits

LEMMA PhotosRest == PhotoInv /\ UNCHANGED photoVars => PhotoInv'
  BY DEF photoVars, PhotoInv, PhotosFit, ViewFits, PairFits, AttemptsFit, AttemptFits, FilesFit, QueueMoves,
         Gone, Pictures!Seen

LEMMA StorefrontInvariant == StorefrontSpec => []StorefrontInv
<1>1. StorefrontInit => StorefrontInv
  BY SetupInit, PagesInit, EventsInit, FormInit, PhotosInit DEF StorefrontInit, StorefrontInv
<1>2. StorefrontInv /\ [StorefrontNext]_<<part, vars, pageVars, eventVars, photoVars, formVars>> => StorefrontInv'
  <2> SUFFICES ASSUME StorefrontInv,
                      [StorefrontNext]_<<part, vars, pageVars, eventVars, photoVars, formVars>>
               PROVE  StorefrontInv'
    OBVIOUS
  <2>1. SetupInv'
    BY SetupStep, SetupRests DEF StorefrontInv, StorefrontNext
  <2>2. PagesInv'
    BY PagesStep, PagesRest DEF StorefrontInv, StorefrontNext
  <2>3. EventsInv'
    BY EventsStep, EventsRest DEF StorefrontInv, StorefrontNext
  <2>4. FormInv'
    BY FormStep, FormRests DEF StorefrontInv, StorefrontNext
  <2>5. PhotoInv'
    BY PhotosStep, PhotosRest DEF StorefrontInv, StorefrontNext
  <2>6. QED
    BY <2>1, <2>2, <2>3, <2>4, <2>5 DEF StorefrontInv
<1>3. QED
  BY <1>1, <1>2, PTL DEF StorefrontSpec

(* The state of every part stays within its types: no counter passes its   *)
(* bound, and no queue, log or record holds what the code cannot put       *)
(* there.                                                                  *)
THEOREM StorefrontTypes == StorefrontSpec => []StorefrontTypeOK
<1>1. StorefrontInv => StorefrontTypeOK
  BY PagesAreTyped, EventsAreTyped, FormIsTyped, PhotosAreTyped DEF StorefrontInv, StorefrontTypeOK, SetupInv
<1>2. QED
  BY <1>1, StorefrontInvariant, PTL

(* Setup, review and listing of a store agree unless a step was overtaken  *)
(* by a submission or a decision, and no step of the setup is skipped,     *)
(* whatever any number of tabs and admins have read before they write.     *)
THEOREM StorefrontSetup == StorefrontSpec => []SetupIsInStep
<1>1. StorefrontInv => SetupIsInStep
  BY DEF StorefrontInv, SetupInv, SetupIsInStep
<1>2. QED
  BY <1>1, StorefrontInvariant, PTL

(* What has been announced is what is served under the version in force,   *)
(* whatever loads were in flight and whichever process stores them, as     *)
(* long as no announcement has left the counter at a version in use.       *)
THEOREM StorefrontAnnounced == StorefrontSpec => []AnnouncedIsServed
<1>1. StorefrontInv => AnnouncedIsServed
  BY PagesAreServed DEF StorefrontInv
<1>2. QED
  BY <1>1, StorefrontInvariant, PTL

(* A change whose event has been recorded is on its way until it is        *)
(* delivered to a consumer or the relay has given it up: the relay drops   *)
(* none, whatever fails. What a consumer loses after the delivery is       *)
(* counted as lost.                                                        *)
THEOREM StorefrontRecorded == StorefrontSpec => []RecordedIsKept
<1>1. StorefrontInv => RecordedIsKept
  BY EventsAreKept DEF StorefrontInv
<1>2. QED
  BY <1>1, StorefrontInvariant, PTL

(* What is submitted for review is what the merchant has confirmed, but    *)
(* for steps that the page said could not be saved.                        *)
THEOREM StorefrontConfirmed == StorefrontSpec => []ConfirmedIsSubmitted
<1>1. StorefrontInv => ConfirmedIsSubmitted
  BY FormIsConfirmed DEF StorefrontInv
<1>2. QED
  BY <1>1, StorefrontInvariant, PTL

(* The address a draft holds for a photo is the address of the file that   *)
(* the merchant sees there, whatever uploads were replaced, aborted or     *)
(* left behind by a component that has gone, unless that component went on *)
(* writing to the photo.                                                   *)
THEOREM StorefrontAssets == StorefrontSpec => []AssetIsItsFile
<1>1. StorefrontInv => AssetIsItsFile
  BY PhotosAreTheirFiles DEF StorefrontInv
<1>2. QED
  BY <1>1, StorefrontInvariant, PTL

(* A photo that the form waits for has an upload in a queue or under way,  *)
(* and a queue that waits has one under way that will start it.            *)
THEOREM StorefrontWaiting == StorefrontSpec => []WaitingIsOnItsWay
<1>1. StorefrontInv => WaitingIsOnItsWay
  BY PhotosAreOnTheirWay DEF StorefrontInv
<1>2. QED
  BY <1>1, StorefrontInvariant, PTL
=============================================================================
