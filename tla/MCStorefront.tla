---------------------------- MODULE MCStorefront ----------------------------
(* The setup of a store with the form it is made on, the events of its     *)
(* catalogue, its public pages and the photos that a merchant uploads; a   *)
(* behaviour is one of the five parts, the others standing still.          *)
EXTENDS Onboarding

CONSTANTS Processes, Servers, MaxChanges, MaxBumps, MaxFaults,
          MaxEvents, MaxAttempts, MaxMishaps,
          Photos, Stored, Concurrency, MaxFiles, MaxTries,
          Unversioned, MaxEdits, MaxSent, MaxSlips

ASSUME StorefrontBounds == {MaxChanges, MaxBumps, MaxEvents, MaxEdits, MaxSent, MaxSlips, MaxTries} \subseteq Nat

ASSUME PhotoBounds == Concurrency \in Nat \ {0} /\ MaxFiles \in Nat \ {0}

VARIABLES
  part,
  committed, counter, l2, l1, loads, firsts, reach, bumps, faults, announced, reused,
  changes, records, rows, batch, stream, taken, online, mishaps, applied, lost,
  mount, draft, kept, picked, files, queue, flights, timers, used, crossed,
  values, shown, generation, known, pending, save, completions, completing, failed, launch, saving,
  drafts, stored, rank, requests, sent, slips, confirmed, told, unsaved

pageVars == <<committed, counter, l2, l1, loads, firsts, reach, bumps, faults, announced, reused>>

eventVars == <<changes, records, rows, batch, stream, taken, online, mishaps, applied, lost>>

photoVars == <<mount, draft, kept, picked, files, queue, flights, timers, used, crossed>>

formVars == <<values, shown, generation, known, pending, save, completions, completing, failed, launch,
              saving, drafts, stored, rank, requests, sent, slips, confirmed, told, unsaved>>

Pages == INSTANCE CataloguePages

Events == INSTANCE CatalogueEvents

Pictures == INSTANCE PhotoQueue

Form == INSTANCE SetupPage WITH committed <- stored, faults <- slips, MaxFaults <- MaxSlips

StorefrontInit ==
  /\ part \in {"setup", "pages", "events", "photos", "form"}
  /\ Init /\ Pages!Init /\ Events!Init /\ Pictures!Init /\ Form!Init
  /\ part # "pages" => counter = 0
  /\ part # "form" => rank = 0

StorefrontNext ==
  /\ UNCHANGED part
  /\ IF part = "setup" THEN Next ELSE UNCHANGED vars
  /\ IF part = "pages" THEN Pages!Next ELSE UNCHANGED pageVars
  /\ IF part = "events" THEN Events!Next ELSE UNCHANGED eventVars
  /\ IF part = "photos" THEN Pictures!Next ELSE UNCHANGED photoVars
  /\ IF part = "form" THEN Form!Next ELSE UNCHANGED formVars

StorefrontSpec ==
  /\ StorefrontInit /\ [][StorefrontNext]_<<part, vars, pageVars, eventVars, photoVars, formVars>>
  /\ Pages!Fairness /\ Events!Fairness

(* The types of all five parts.                                            *)
StorefrontTypeOK == TypeOK /\ Pages!TypeOK /\ Events!TypeOK /\ Pictures!TypeOK /\ Form!TypeOK

(* CataloguePages: what has been announced is what is served.              *)
AnnouncedIsServed == Pages!AnnouncedIsServed

(* CataloguePages: pages catch up with the database in the end.            *)
PagesCatchUp == Pages!PagesCatchUp

(* CatalogueEvents: a recorded change is on its way until it is settled.   *)
RecordedIsKept == Events!RecordedIsKept

(* CatalogueEvents: a recorded change is settled in the end.               *)
RecordedIsSettled == Events!RecordedIsSettled

(* SetupPage: what is submitted for review is what has been confirmed.     *)
ConfirmedIsSubmitted == Form!ConfirmedIsSubmitted

(* PhotoQueue: the asset of a photo was made of the file it shows.         *)
AssetIsItsFile == Pictures!AssetIsItsFile

(* PhotoQueue: what waits has an attempt queued or under way.              *)
WaitingIsOnItsWay == Pictures!WaitingIsOnItsWay
=============================================================================
