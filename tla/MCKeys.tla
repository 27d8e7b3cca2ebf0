------------------------------- MODULE MCKeys -------------------------------
(* What is done once though it is asked for again: refunds, the entry of a *)
(* financial operation, uploads of product images, codes texted to a guest *)
(* at the checkout, and the account made of the guest's number; and the    *)
(* credentials of an account, and the refreshes of a browser's tabs.  A    *)
(* behaviour is one of these, the others standing still.                   *)
EXTENDS MCRefunds, Account

CONSTANTS o1, o2, o3, u1, u2, e1, e2, f1, f2, f3, s1, s2, s3, noKey, a1, a2, t1, t2

CONSTANTS Operations, Uploads, Bodies, FileBodies, OperationMayFail, RedisMayFail, LeaseMayEnd,
          Editors, MaxTries, MaxEdits, MaxAttempts, MaxCodes,
          Tabs, WebLocks, MaxInbox

ASSUME PhoneBounds == MaxAttempts \in Nat \ {0} /\ MaxCodes \in Nat

ASSUME KeyNames == {"nobody", "none"} \cap (Operations \cup Uploads) = {}

VARIABLES
  part,
  moneyRow, operations, operated, moneyEntry, writes,
  row, uploads, executed, entry, persists,
  original, files, assets, image, edits, edited, sweep, late, doubted,
  flows, codes, phone, cookie, starting, signing, accounts, sends,
  webLocks, alive, jar, envelope, tab, op, inbox, exit, harm

Money == INSTANCE Idempotency WITH Requests <- Operations, Hash <- Bodies, row <- moneyRow,
  requests <- operations, executed <- operated, entry <- moneyEntry

Upload == INSTANCE UploadEngine WITH Requests <- Uploads, Hash <- FileBodies, requests <- uploads

(* In part "codes" one browser asks for codes twice at once and has one    *)
(* try for each; in part "number" two browsers of one number sign up.      *)
Phone(Browsers, Texts, TextKeys, Tries) == INSTANCE PhoneSignup WITH
  Flows <- Browsers, Sends <- Texts, SendKeys <- TextKeys, NoKey <- noKey, MaxAttempts <- Tries

Browser == INSTANCE TabSessions

moneyVars == <<moneyRow, operations, operated, moneyEntry, writes>>

uploadVars == <<row, uploads, executed, entry, persists, original, files, assets, image, edits, edited,
                sweep, late, doubted>>

phoneVars == <<flows, codes, phone, cookie, starting, signing, accounts, sends>>

tabVars == <<webLocks, alive, jar, envelope, tab, op, inbox, exit, harm>>

KeysInit ==
  /\ part \in {"refunds", "money", "uploads", "codes", "number", "account", "tabs"}
  /\ Init /\ Money!Init /\ Upload!Init /\ AccountInit /\ Browser!Init
  /\ IF part = "codes" THEN Phone({f3}, {s1, s2}, {k1}, 1)!Init
                       ELSE Phone({f1, f2}, {s3}, {}, MaxAttempts)!Init
  /\ part # "refunds" => \A r \in Requests : Key(r) = k1 /\ Amount(r) = Paid

KeysNext ==
  /\ UNCHANGED part
  /\ IF part = "refunds" THEN Next ELSE UNCHANGED vars
  /\ IF part = "money" THEN Money!Next ELSE UNCHANGED moneyVars
  /\ IF part = "uploads" THEN Upload!Next ELSE UNCHANGED uploadVars
  /\ CASE part = "codes" -> Phone({f3}, {s1, s2}, {k1}, 1)!Next
       [] part = "number" -> Phone({f1, f2}, {s3}, {}, MaxAttempts)!Next
       [] OTHER -> UNCHANGED phoneVars
  /\ IF part = "account" THEN AccountNext ELSE UNCHANGED accountVars
  /\ IF part = "tabs" THEN Browser!Next ELSE UNCHANGED tabVars

KeysSpec ==
  KeysInit /\ [][KeysNext]_<<part, vars, moneyVars, uploadVars, phoneVars, accountVars, tabVars>>
-----------------------------------------------------------------------------
(* Two operations with one body and one with another.                      *)
TwoBodies == [o \in {o1, o2, o3} |-> IF o = o3 THEN "other" ELSE "body"]

OneBody == [u \in {u1, u2} |-> "body"]

Alike(p, a, b) == IF p[u1] = u1 THEN a :> a @@ b :> b ELSE a :> b @@ b :> a

(* Uploads, browsers, requests and calls change places together, and so do *)
(* editors, sessions and tabs, for a behaviour is about one of them.       *)
KeysSymmetry ==
  {p @@ Alike(p, f1, f2) @@ Alike(p, s1, s2) @@ Alike(p, a1, a2)
     @@ q @@ (IF q[e1] = e1 THEN t1 :> t1 @@ t2 :> t2 ELSE t1 :> t2 @@ t2 :> t1) :
     p \in Permutations({u1, u2}), q \in Permutations({e1, e2})}

(* The types of all parts; those that stand still are as they began.       *)
KeysTypeOK ==
  /\ part = "refunds" => TypeOK
  /\ part = "money" => Money!TypeOK
  /\ part = "uploads" => Upload!TypeOK
  /\ part = "codes" => Phone({f3}, {s1, s2}, {k1}, 1)!TypeOK
  /\ part = "number" => Phone({f1, f2}, {s3}, {}, MaxAttempts)!TypeOK
  /\ part = "account" => AccountTypeOK
  /\ part = "tabs" => Browser!TypeOK

(* IdempotencyRows and Idempotency: a key is answered again only with what *)
(* was executed under it, whichever of Redis and the table decides, and a  *)
(* completed entry never mixes the hash of one request with the response   *)
(* of another.                                                             *)
ReplaysAreTrue ==
  Money!ReplayIsExecuted /\ Money!EntryAnswersItsHash /\ Upload!ReplayIsExecuted

(* UploadIdempotency: an upload only ends its own reservation.             *)
EntryIsItsOwners == Upload!EntryIsItsOwners

(* UploadEngine: what may be seen or used is stored.                       *)
OfferedIsStored == Upload!OfferedIsStored

(* Refunds: what is booked was paid back, and so was what a replay says.   *)
RefundsArePaidBack == BookedIsPaidBack /\ ReplayIsPaidBack

(* PhoneSignup: however often a request for a code is repeated under its   *)
(* key, and however its repetitions cross, one code at most is made; the   *)
(* number has one account at most, and a flow is used up by an account and *)
(* nothing else, after it has proved the number.                           *)
NumberIsProvenOnce ==
  IF part = "codes"
  THEN /\ Phone({f3}, {s1, s2}, {k1}, 1)!OneCodePerKey
       /\ Phone({f3}, {s1, s2}, {k1}, 1)!SignupIsProven
  ELSE Phone({f1, f2}, {s3}, {}, MaxAttempts)!SignupIsProven

(* TabSessions: the session of a browser stays with its tabs.              *)
TabsKeepSession == Browser!TabsKeepSession
=============================================================================
