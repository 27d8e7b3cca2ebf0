---------------------------- MODULE PhoneSignup -----------------------------
(***************************************************************************)
(* A guest at the checkout makes an account of a phone number              *)
(* (auth.service.ts: startCheckoutOnboarding, sendPhoneOtp, verifyPhoneOtp,*)
(* phoneSignup).  A flow is the row of one browser; here all flows are of  *)
(* one number.  A code is texted by a service outside the system between   *)
(* two statements, and the browser proves with a cookie that it typed one  *)
(* back.  Whether a flow, a code, a proof, a cooldown or a block has run   *)
(* out is left to chance wherever the code asks for it.  Rate limits and   *)
(* the address that the flow carries are left out.                         *)
(***************************************************************************)
EXTENDS Integers, FiniteSets, Sequences

CONSTANTS
  Flows,
  Sends,         \* requests for a code that may be under way at once
  SendKeys,      \* idempotency keys of such requests
  NoKey,
  MaxAttempts,   \* PHONE_OTP_MAX_ATTEMPTS
  MaxCodes       \* bound: the codes that are made

VARIABLES
  flows,      \* checkout_onboarding_flows
  codes,      \* phone_otp_verifications, the oldest first
  phone,      \* codes that have reached the telephone
  cookie,     \* the proof in each browser, 0 when there is none
  starting,   \* flows whose start has found no account of the number
  signing,    \* flows locked by a signup that has found none
  accounts,   \* flows that have made an account of the number
  sends

phoneVars == <<flows, codes, phone, cookie, starting, signing, accounts, sends>>

NoFlow == [status |-> "ABSENT", proof |-> 0, consumed |-> FALSE]

IdleSend == [at |-> "idle", flow |-> NoKey, key |-> NoKey, code |-> 0]

Init ==
  /\ flows = [f \in Flows |-> NoFlow]
  /\ codes = << >> /\ phone = {}
  /\ cookie = [f \in Flows |-> 0]
  /\ starting = {} /\ signing = {} /\ accounts = {}
  /\ sends = [s \in Sends |-> IdleSend]

-----------------------------------------------------------------------------
(* startCheckoutOnboarding reads whether the number has an account, and    *)
(* writes the flow afterwards.                                             *)
StartChecked(f) ==
  /\ f \notin starting /\ accounts = {}
  /\ starting' = starting \cup {f}
  /\ UNCHANGED <<flows, codes, phone, cookie, signing, accounts, sends>>

(* A flow that still lives is answered with; one that has run out lives    *)
(* again.                                                                  *)
StartWritten(f) ==
  /\ f \in starting
  /\ starting' = starting \ {f}
  /\ \/ flows[f].status # "ABSENT" /\ UNCHANGED flows
     \/ f \notin signing /\ flows' = [flows EXCEPT ![f].status = "ADDRESS_COLLECTED"]
  /\ UNCHANGED <<codes, phone, cookie, signing, accounts, sends>>

Usable(f) == flows[f].status # "ABSENT" /\ ~flows[f].consumed

-----------------------------------------------------------------------------
SetSend(s, send) == sends' = [sends EXCEPT ![s] = send]

SendOnly == UNCHANGED <<flows, codes, phone, cookie, starting, signing, accounts>>

(* requireMutableCheckoutFlow.                                             *)
BeginSend(s) ==
  /\ sends[s].at = "idle"
  /\ \E f \in Flows, k \in SendKeys \cup {NoKey} :
       /\ Usable(f)
       /\ SetSend(s, [IdleSend EXCEPT !.at = IF k = NoKey THEN "latest" ELSE "key", !.flow = f, !.key = k])
  /\ SendOnly

Keyed(send) == send.key # NoKey /\ \E i \in DOMAIN codes : codes[i].flow = send.flow /\ codes[i].key = send.key

(* A key that has a code is answered with it, or refused when it failed.   *)
FindKeyed(s) ==
  /\ sends[s].at = "key"
  /\ SetSend(s, IF Keyed(sends[s]) THEN IdleSend ELSE [sends[s] EXCEPT !.at = "latest"])
  /\ SendOnly

Live(f) == {i \in DOMAIN codes : codes[i].flow = f /\ codes[i].status \in {"PENDING", "BLOCKED"}}

Newest(is) == {i \in is : \A j \in is : j <= i}

(* While the newest code cools down or is blocked there is no new one.     *)
FindLatest(s) ==
  /\ sends[s].at = "latest"
  /\ \/ Live(sends[s].flow) # {} /\ SetSend(s, IdleSend)
     \/ SetSend(s, [sends[s] EXCEPT !.at = "create"])
  /\ SendOnly

(* Mutant: flow and key are not unique.                                    *)
CreateCode_NoIndex(s) ==
  /\ sends[s].at = "create" /\ Len(codes) < MaxCodes
  /\ codes' = Append(codes, [flow |-> sends[s].flow, key |-> sends[s].key,
                             status |-> "PENDING", attempts |-> 0])
  /\ SetSend(s, [sends[s] EXCEPT !.at = "text", !.code = Len(codes) + 1])
  /\ UNCHANGED <<flows, phone, cookie, starting, signing, accounts>>

(* The unique index on flow and key decides between two requests that have *)
(* both found nothing; the second answers with the first one's code.       *)
CreateCode(s) ==
  /\ sends[s].at = "create"
  /\ IF Keyed(sends[s])
     THEN SetSend(s, IdleSend) /\ UNCHANGED codes
     ELSE /\ Len(codes) < MaxCodes
          /\ codes' = Append(codes, [flow |-> sends[s].flow, key |-> sends[s].key,
                                     status |-> "PENDING", attempts |-> 0])
          /\ SetSend(s, [sends[s] EXCEPT !.at = "text", !.code = Len(codes) + 1])
  /\ UNCHANGED <<flows, phone, cookie, starting, signing, accounts>>

(* The service may say that it failed and deliver nevertheless.            *)
Text(s) ==
  /\ sends[s].at = "text"
  /\ phone' \in {phone, phone \cup {sends[s].code}}
  /\ \E at \in {"sent", "failed"} : SetSend(s, [sends[s] EXCEPT !.at = at])
  /\ UNCHANGED <<flows, codes, cookie, starting, signing, accounts>>

(* By now the code may have been typed back: the flow is set back all the  *)
(* same.                                                                   *)
RecordSent(s) ==
  LET f == sends[s].flow
  IN /\ sends[s].at = "sent" /\ f \notin signing
     /\ \/ flows' = [flows EXCEPT ![f].status = "OTP_SENT"] /\ SetSend(s, IdleSend)
        \/ SetSend(s, [sends[s] EXCEPT !.at = "failed"]) /\ UNCHANGED flows
     /\ UNCHANGED <<codes, phone, cookie, starting, signing, accounts>>

(* The code is marked as failed, whatever has become of it.                *)
RecordFailed(s) ==
  /\ sends[s].at = "failed"
  /\ codes' \in {codes, [codes EXCEPT ![sends[s].code].status = "FAILED"]}
  /\ SetSend(s, IdleSend)
  /\ UNCHANGED <<flows, phone, cookie, starting, signing, accounts>>

StopSend(s) ==
  /\ sends[s].at # "idle"
  /\ SetSend(s, IdleSend)
  /\ SendOnly

-----------------------------------------------------------------------------
(* A wrong code: the last one allowed blocks.                              *)
Guess(i) ==
  LET attempts == codes[i].attempts + 1
  IN /\ codes' = [codes EXCEPT ![i].attempts = attempts,
                                ![i].status = IF attempts >= MaxAttempts THEN "BLOCKED" ELSE "PENDING"]
     /\ UNCHANGED <<flows, cookie>>

(* The right code: the proof of the flow is this code's; the browser may   *)
(* miss the answer with the cookie.                                        *)
Prove(f, i) ==
  /\ codes' = [codes EXCEPT ![i].attempts = @ + 1, ![i].status = "VERIFIED"]
  /\ flows' = [flows EXCEPT ![f].proof = i, ![f].status = "PHONE_VERIFIED"]
  /\ cookie' \in {cookie, [cookie EXCEPT ![f] = i]}

(* A code found expired.  A blocked one has expired when its block ends    *)
(* (300 seconds against 900).                                              *)
Expired(i) ==
  /\ codes' = [codes EXCEPT ![i].attempts = @ + 1, ![i].status = "EXPIRED"]
  /\ UNCHANGED <<flows, cookie>>

(* verifyPhoneOtp, under the locks of the flow and the code.  The request  *)
(* names a code or means the newest; what is typed has been texted or is   *)
(* wrong (0).                                                              *)
Verify(f) ==
  /\ f \notin signing /\ Usable(f)
  /\ \E asked \in {Live(f)} \cup {{i} : i \in Live(f)}, typed \in phone \cup {0} :
       \E i \in Newest(asked) :
         \/ Expired(i)
         \/ codes[i].status = "PENDING" /\ typed = i /\ Prove(f, i)
         \/ codes[i].status = "PENDING" /\ typed # i /\ Guess(i)
  /\ UNCHANGED <<phone, starting, signing, accounts, sends>>

-----------------------------------------------------------------------------
(* assertFlowReadyForSignup.                                               *)
Ready(f) ==
  /\ Usable(f) /\ flows[f].status = "PHONE_VERIFIED"
  /\ cookie[f] # 0 /\ cookie[f] = flows[f].proof

(* phoneSignup up to the creation of the user: the flow is locked, and the *)
(* number has no account yet.                                              *)
BeginSignup(f) ==
  /\ f \notin signing /\ Ready(f) /\ accounts = {}
  /\ signing' = signing \cup {f}
  /\ UNCHANGED <<flows, codes, phone, cookie, starting, accounts, sends>>

(* Mutant: the number of a user is not unique.                             *)
NumberTaken_Never == FALSE

(* users_active_phone_unique_idx.                                          *)
NumberTaken == accounts # {}

(* The user is created and the flow closed together; the answer may not    *)
(* come, and the cookie then stays.                                        *)
CommitSignup(f) ==
  /\ f \in signing
  /\ signing' = signing \ {f}
  /\ IF NumberTaken
     THEN UNCHANGED <<flows, codes, cookie, accounts>>
     ELSE /\ accounts' = accounts \cup {f}
          /\ codes' = [i \in DOMAIN codes |->
                         IF codes[i].flow = f /\ codes[i].status = "VERIFIED"
                         THEN [codes[i] EXCEPT !.status = "CONSUMED"] ELSE codes[i]]
          /\ flows' = [flows EXCEPT ![f].status = "COMPLETED", ![f].consumed = TRUE]
          /\ cookie' \in {cookie, [cookie EXCEPT ![f] = 0]}
  /\ UNCHANGED <<phone, starting, sends>>

(* A statement fails, or the process stops.                                *)
AbortSignup(f) ==
  /\ f \in signing
  /\ signing' = signing \ {f}
  /\ UNCHANGED <<flows, codes, phone, cookie, starting, accounts, sends>>

-----------------------------------------------------------------------------
Next ==
  \/ \E f \in Flows :
       \/ StartChecked(f) \/ StartWritten(f) \/ Verify(f)
       \/ BeginSignup(f) \/ CommitSignup(f) \/ AbortSignup(f)
  \/ \E s \in Sends :
       \/ BeginSend(s) \/ FindKeyed(s) \/ FindLatest(s) \/ CreateCode(s)
       \/ Text(s) \/ RecordSent(s) \/ RecordFailed(s) \/ StopSend(s)

Spec == Init /\ [][Next]_phoneVars

-----------------------------------------------------------------------------
Code == [flow : Flows, key : SendKeys \cup {NoKey},
         status : {"PENDING", "BLOCKED", "EXPIRED", "FAILED", "VERIFIED", "CONSUMED"},
         attempts : 0..(MaxAttempts + 1)]

(* Every variable has its type, and no code is tried more often than the   *)
(* attempts allowed and the one that finds it expired.                     *)
TypeOK ==
  /\ flows \in [Flows -> [status : {"ABSENT", "ADDRESS_COLLECTED", "OTP_SENT", "PHONE_VERIFIED", "COMPLETED"},
                          proof : 0..MaxCodes, consumed : BOOLEAN]]
  /\ codes \in Seq(Code)
  /\ phone \subseteq DOMAIN codes
  /\ cookie \in [Flows -> 0..MaxCodes]
  /\ starting \subseteq Flows /\ signing \subseteq Flows /\ accounts \subseteq Flows
  /\ DOMAIN sends = Sends

(* However often a request for a code is repeated under its key, and how-  *)
(* ever its repetitions cross, one code at most is made and texted for it. *)
OneCodePerKey ==
  \A i, j \in DOMAIN codes :
    codes[i].key # NoKey /\ codes[i].flow = codes[j].flow /\ codes[i].key = codes[j].key => i = j

(* The number has one account at most, though two browsers may sign up     *)
(* with it at once; a flow is used up by an account and by nothing else,   *)
(* and that flow has proved the number with a code that was texted.        *)
SignupIsProven ==
  /\ Cardinality(accounts) <= 1
  /\ \A f \in Flows : flows[f].consumed <=> f \in accounts
  /\ \A f \in accounts : flows[f].proof \in phone /\ codes[flows[f].proof].flow = f
=============================================================================
