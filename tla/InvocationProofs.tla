-------------------------- MODULE InvocationProofs --------------------------
(***************************************************************************)
(* Invocation's safety, proved for every set of commands, servers, objects *)
(* and guest statuses.                                                     *)
(***************************************************************************)
EXTENDS Invocation, TLAPS

----------------------------------------------------------------------------
(* The inductive invariant *)

\* A command that is under way has found its server.
Resolved ==
  \/ pc \notin {"start", "input", "done"}
  \/ wire # "unsent"
  \/ agreed # {}
  => srv \in Server

\* Consent comes after the reads, is for the operation as it stands, is only
\* there where it may be, and stands behind every request that is not a read.
Asked ==
  /\ pc \in {"start", "input", "reads", "prompt"} => agreed = {}
  /\ pc = "prompt" => /\ NotRead(cmd.op) /\ ~flags.readOnly /\ ~flags.dryRun
                      /\ ~flags.yes /\ flags.terminal
  /\ (pc \in {"call", "awaiting"} \/ wire # "unsent") /\ NotRead(cmd.op) => agreed = {Intended}
  /\ agreed # {} => /\ agreed = {Intended}
                    /\ ~flags.readOnly /\ ~flags.dryRun
                    /\ flags.yes \/ flags.terminal
                    /\ Catastrophic(cmd.op) /\ ~flags.yes => srv = meant

\* The request leaves once, and has no effect and no answer before it is served.
Sent ==
  /\ pc \in {"start", "input", "reads", "prompt", "call"} => wire = "unsent"
  /\ wire # "served" => executed = <<>> /\ answer = "none"
  /\ wire = "served" => answer \in Answer

\* What KiwiVM did is what was intended, and "ok" means that it did it: where it
\* ignores something, it leaves it out of its answer.
Applied ==
  /\ executed # <<>> => executed = <<Intended>> /\ ~Looks(cmd.op)
  /\ answer = "ok" /\ ~Looks(cmd.op) => executed = <<Intended>>

\* The exit code, once there is one, tells the outcome.
Told ==
  /\ pc # "done" => exit = -1
  /\ exit = ExitOK /\ ~Looks(cmd.op) /\ ~flags.dryRun =>
       /\ executed = <<Intended>> \/ failure = "ignored" \/ (cmd.raw /\ answer = "ignored")
       /\ wire = "served"
  /\ exit = ExitRefused /\ ~cmd.status => wire = "unsent"
  /\ ExitAuthIffRejected

IInv == TypeOK /\ Resolved /\ Asked /\ Sent /\ Applied /\ Told

----------------------------------------------------------------------------
(* Lemmas *)

\* An operation of the registry that changes something is classified as such.
LEMMA Classified == ASSUME NEW op \in Endpoint, ~Looks(op) PROVE NotRead(op)
  BY DEF Endpoint, ReadOps, WriteOps, DestructiveOps, Looks, NotRead

\* The exit codes of the two API errors that exec mistakes for a guest's status.
LEMMA WrappedCodes == Wrapped(CodeAuthFailure) = 101 /\ Wrapped(CodeLocked) = 152
  BY DEF Wrapped, CodeAuthFailure, CodeLocked

\* What an exit code says about the answer it was made from.
LEMMA CodesTell ==
  ASSUME NEW got \in Answer, NEW code \in Codes(got)
  PROVE  /\ code \in 0..255
         /\ code = ExitOK => got \in {"ok", "ignored"}
         /\ ~cmd.status => code # ExitRefused /\ (code = ExitAuth <=> got = "auth")
<1>1. CASE got \in {"ok", "ignored"}
  BY <1>1 DEF Codes, ExitOK, ExitError, ExitRefused, ExitAuth
<1>2. CASE got \notin {"ok", "ignored"} /\ ~cmd.status
  BY <1>2 DEF Codes, ExitOK, ExitError, ExitRefused, ExitAuth
<1>3. CASE got \notin {"ok", "ignored"} /\ cmd.status
  <2>1. code = 1 \/ code \in GuestStatus \/ code = 101 \/ code = 152
    BY <1>3, WrappedCodes DEF Codes, ExitError
  <2>2. GuestStatus \subseteq 1..255
    BY InvocationAssumption
  <2>3. code \in 1..255
    BY <2>1, <2>2, 1 \in 1..255, 101 \in 1..255, 152 \in 1..255
  <2>4. code \in 0..255 /\ code # ExitOK
    BY <2>3 DEF ExitOK
  <2> QED BY <1>3, <2>4
<1> QED BY <1>1, <1>2, <1>3

LEMMA CodesInRange == {ExitOK, ExitError, ExitConfig, ExitRefused, ExitAuth} \subseteq -1..255
  BY DEF ExitOK, ExitError, ExitConfig, ExitRefused, ExitAuth

\* A command's operation is in the registry.
LEMMA Registered == ASSUME TypeOK PROVE cmd.op \in Endpoint
  BY InvocationAssumption DEF TypeOK

\* Once the server is known, so is a request.
LEMMA IntendedIsRequest ==
  ASSUME TypeOK, srv \in Server PROVE Intended \in Request
  BY Registered DEF TypeOK, Intended, Request

----------------------------------------------------------------------------
(* The invariant holds *)

LEMMA InitIInv == Init => IInv
<1> SUFFICES ASSUME Init PROVE IInv
  OBVIOUS
<1>1. executed \in Seq(Request)
  BY DEF Init
<1>2. exit \in -1..255 /\ step \in Nat /\ object \in Target
  BY DEF Init, Target
<1>3. piped \in BOOLEAN
  BY InvocationAssumption DEF Init
<1>4. TypeOK
  BY <1>1, <1>2, <1>3 DEF Init, TypeOK
<1> QED BY <1>4 DEF Init, IInv, Resolved, Asked, Sent, Applied, Told, ExitAuthIffRejected,
                    ExitOK, ExitRefused


\* Before the reads: every refusal, and the way in.
LEMMA StartKeeps == ASSUME IInv, Start PROVE IInv'
<1> USE DEF given, times, sent, Goto, Stop
<1>1. TypeOK'
  <2>1. (pc \in {"start", "input", "reads", "confirm", "prompt", "call", "awaiting", "done"})'
    BY DEF Start, ClientForOp, IInv, TypeOK
  <2>2. (failure \in Answer \cup {"none", "timeout"})'
    BY DEF Start, ClientForOp, IInv, TypeOK, Answer
  <2>3. exit' \in {exit, ExitOK, ExitError, ExitConfig, ExitRefused, ExitAuth}
    BY DEF Start, ClientForOp
  <2>4. exit \in -1..255
    BY DEF IInv, TypeOK
  <2>5. (exit \in -1..255)'
    BY <2>3, <2>4, CodesInRange
  <2> QED BY <2>1, <2>2, <2>5 DEF Start, ClientForOp, IInv, TypeOK
<1>2. Resolved'
  BY DEF Start, ClientForOp, IInv, Resolved, TypeOK
<1>3. Asked'
  BY DEF Start, ClientForOp, IInv, Asked, Sent, Intended, Interactive
<1>4. Sent'
  BY DEF Start, ClientForOp, IInv, Sent
<1>5. Applied'
  BY DEF Start, ClientForOp, IInv, Applied, Sent, Intended
<1>6. Told'
  BY DEF Start, ClientForOp, IInv, Told, Applied, Sent, Asked, Intended, ExitAuthIffRejected, ExitOK, ExitError, ExitConfig, ExitRefused, ExitAuth
<1> QED BY <1>1, <1>2, <1>3, <1>4, <1>5, <1>6 DEF IInv

\* The script comes before all of this.
LEMMA ReadScriptKeeps == ASSUME IInv, ReadScript PROVE IInv'
<1> USE DEF given, times, sent, Goto, Stop
<1>1. TypeOK'
  <2>1. (pc \in {"start", "input", "reads", "confirm", "prompt", "call", "awaiting", "done"})'
    BY DEF ReadScript, ClientForOp, IInv, TypeOK
  <2>2. (failure \in Answer \cup {"none", "timeout"})'
    BY DEF ReadScript, ClientForOp, IInv, TypeOK, Answer
  <2>3. exit' \in {exit, ExitOK, ExitError, ExitConfig, ExitRefused, ExitAuth}
    BY DEF ReadScript, ClientForOp
  <2>4. exit \in -1..255
    BY DEF IInv, TypeOK
  <2>5. (exit \in -1..255)'
    BY <2>3, <2>4, CodesInRange
  <2> QED BY <2>1, <2>2, <2>5 DEF ReadScript, ClientForOp, IInv, TypeOK
<1>2. Resolved'
  BY DEF ReadScript, ClientForOp, IInv, Resolved, TypeOK
<1>3. Asked'
  BY DEF ReadScript, ClientForOp, IInv, Asked, Sent, Intended, Interactive
<1>4. Sent'
  BY DEF ReadScript, ClientForOp, IInv, Sent
<1>5. Applied'
  BY DEF ReadScript, ClientForOp, IInv, Applied, Sent, Intended
<1>6. Told'
  BY DEF ReadScript, ClientForOp, IInv, Told, Applied, Sent, Asked, Intended, ExitAuthIffRejected, ExitOK, ExitError, ExitConfig, ExitRefused, ExitAuth
<1> QED BY <1>1, <1>2, <1>3, <1>4, <1>5, <1>6 DEF IInv

\* Only here does the object change, and nothing depends on it yet.
LEMMA ReadKeeps == ASSUME IInv, Read PROVE IInv'
<1> USE DEF given, times, sent, Goto, Stop
<1>1. TypeOK'
  <2>1. (pc \in {"start", "input", "reads", "confirm", "prompt", "call", "awaiting", "done"})'
    BY DEF Read, IInv, TypeOK
  <2>2. (failure \in Answer \cup {"none", "timeout"})'
    BY DEF Read, IInv, TypeOK, Answer
  <2>3. exit' \in {exit, ExitOK, ExitError, ExitConfig, ExitRefused, ExitAuth}
    BY DEF Read
  <2>4. exit \in -1..255
    BY DEF IInv, TypeOK
  <2>5. (exit \in -1..255)'
    BY <2>3, <2>4, CodesInRange
  <2> QED BY <2>1, <2>2, <2>5 DEF Read, IInv, TypeOK, Target, Answer
<1>2. Resolved'
  BY DEF Read, IInv, Resolved, TypeOK, Target
<1>3. Asked'
  BY DEF Read, IInv, Asked, Sent, Intended, Interactive, Target
<1>4. Sent'
  BY DEF Read, IInv, Sent, Target
<1>5. Applied'
  BY DEF Read, IInv, Applied, Sent, Intended, Target
<1>6. Told'
  BY DEF Read, IInv, Told, Applied, Sent, Asked, Intended, ExitAuthIffRejected, ExitOK, ExitError, ExitConfig, ExitRefused, ExitAuth
<1> QED BY <1>1, <1>2, <1>3, <1>4, <1>5, <1>6 DEF IInv

\* Consent given by --yes is consent to the operation as it stands.
LEMMA ConfirmKeeps == ASSUME IInv, Confirm PROVE IInv'
<1> USE DEF given, times, sent, Goto, Stop
<1>1. TypeOK'
  <2>1. (pc \in {"start", "input", "reads", "confirm", "prompt", "call", "awaiting", "done"})'
    BY DEF Confirm, IInv, TypeOK
  <2>2. (failure \in Answer \cup {"none", "timeout"})'
    BY DEF Confirm, IInv, TypeOK, Answer
  <2>3. exit' \in {exit, ExitOK, ExitError, ExitConfig, ExitRefused, ExitAuth}
    BY DEF Confirm
  <2>4. exit \in -1..255
    BY DEF IInv, TypeOK
  <2>5. (exit \in -1..255)'
    BY <2>3, <2>4, CodesInRange
  <2> QED BY <2>1, <2>2, <2>5, IntendedIsRequest DEF Confirm, IInv, TypeOK, Resolved
<1>2. Resolved'
  BY DEF Confirm, IInv, Resolved, TypeOK
<1>3. Asked'
  BY DEF Confirm, IInv, Asked, Sent, Intended, Interactive
<1>4. Sent'
  BY DEF Confirm, IInv, Sent
<1>5. Applied'
  BY DEF Confirm, IInv, Applied, Sent, Intended
<1>6. Told'
  BY DEF Confirm, IInv, Told, Applied, Sent, Asked, Intended, ExitAuthIffRejected, ExitOK, ExitError, ExitConfig, ExitRefused, ExitAuth
<1> QED BY <1>1, <1>2, <1>3, <1>4, <1>5, <1>6 DEF IInv

\* Consent given at the prompt: where a name was asked for, it is this server's.
LEMMA ReplyKeeps == ASSUME IInv, Reply PROVE IInv'
<1> USE DEF given, times, sent, Goto, Stop
<1>1. TypeOK'
  <2>1. (pc \in {"start", "input", "reads", "confirm", "prompt", "call", "awaiting", "done"})'
    BY DEF Reply, IInv, TypeOK
  <2>2. (failure \in Answer \cup {"none", "timeout"})'
    BY DEF Reply, IInv, TypeOK, Answer
  <2>3. exit' \in {exit, ExitOK, ExitError, ExitConfig, ExitRefused, ExitAuth}
    BY DEF Reply
  <2>4. exit \in -1..255
    BY DEF IInv, TypeOK
  <2>5. (exit \in -1..255)'
    BY <2>3, <2>4, CodesInRange
  <2>6. agreed' \in {agreed, {Intended}}
    BY DEF Reply
  <2>7. Intended \in Request
    BY IntendedIsRequest DEF Reply, IInv, Resolved
  <2> QED BY <2>1, <2>2, <2>5, <2>6, <2>7 DEF Reply, IInv, TypeOK
<1>2. Resolved'
  BY DEF Reply, IInv, Resolved
<1>3. Asked'
  <2>1. CASE agreed' = {Intended} /\ pc' = "call"
    <3>1. Catastrophic(cmd.op) => srv = meant
      <4> SUFFICES ASSUME Catastrophic(cmd.op) PROVE srv = meant
        OBVIOUS
      <4>1. srv \in Server /\ agreed = {}
        BY DEF Reply, IInv, Resolved, Asked
      <4>2. PICK line \in Typed : Consents(line)
        BY <2>1, <4>1 DEF Reply
      <4>3. line = srv /\ line \in {meant, NoServer}
        BY <4>2 DEF Typed, Consents
      <4> QED BY <4>1, <4>3, InvocationAssumption
    <3> QED BY <2>1, <3>1 DEF Reply, IInv, Asked, Intended
  <2>2. CASE UNCHANGED agreed /\ pc' = "done"
    BY <2>2 DEF Reply, IInv, Asked, Sent, Intended
  <2> QED BY <2>1, <2>2 DEF Reply
<1>4. Sent'
  BY DEF Reply, IInv, Sent
<1>5. Applied'
  BY DEF Reply, IInv, Applied, Sent, Intended
<1>6. Told'
  BY DEF Reply, IInv, Told, Sent, Intended, ExitAuthIffRejected, ExitOK, ExitError,
         ExitRefused, ExitAuth
<1> QED BY <1>1, <1>2, <1>3, <1>4, <1>5, <1>6 DEF IInv

\* The client lets the one request go, or refuses and sends nothing.
LEMMA CallKeeps == ASSUME IInv, Call PROVE IInv'
<1> USE DEF given, times, sent, Goto, Stop
<1>1. TypeOK'
  <2>1. (pc \in {"start", "input", "reads", "confirm", "prompt", "call", "awaiting", "done"})'
    BY DEF Call, IInv, TypeOK
  <2>2. (failure \in Answer \cup {"none", "timeout"})'
    BY DEF Call, IInv, TypeOK, Answer
  <2>3. exit' \in {exit, ExitOK, ExitError, ExitConfig, ExitRefused, ExitAuth}
    BY DEF Call
  <2>4. exit \in -1..255
    BY DEF IInv, TypeOK
  <2>5. (exit \in -1..255)'
    BY <2>3, <2>4, CodesInRange
  <2> QED BY <2>1, <2>2, <2>5 DEF Call, IInv, TypeOK
<1>2. Resolved'
  BY DEF Call, IInv, Resolved, TypeOK
<1>3. Asked'
  BY DEF Call, IInv, Asked, Sent, Intended, Interactive
<1>4. Sent'
  BY DEF Call, IInv, Sent
<1>5. Applied'
  BY DEF Call, IInv, Applied, Sent, Intended
<1>6. Told'
  BY DEF Call, IInv, Told, Applied, Sent, Asked, Intended, ExitAuthIffRejected, ExitOK, ExitError, ExitConfig, ExitRefused, ExitAuth
<1> QED BY <1>1, <1>2, <1>3, <1>4, <1>5, <1>6 DEF IInv

\* The answer decides the exit code; what was done was done before.
LEMMA ReceiveKeeps == ASSUME IInv, Receive PROVE IInv'
<1> USE DEF given, times, sent, Goto, Stop
<1>1. answer \in Answer /\ wire = "served" /\ pc = "awaiting"
  BY DEF Receive, IInv, Sent
<1>2. PICK code \in Codes(answer) : Stop(code, Report(answer))
  BY DEF Receive
<1>3. /\ code \in 0..255
      /\ code = ExitOK => answer \in {"ok", "ignored"}
      /\ ~cmd.status => code # ExitRefused /\ (code = ExitAuth <=> answer = "auth")
  BY <1>1, <1>2, CodesTell
<1>4. /\ pc' = "done" /\ exit' = code
      /\ failure' = Report(answer)
      /\ UNCHANGED <<given, step, object, agreed, times, sent>>
  BY <1>2 DEF Receive
<1>5. TypeOK'
  <2>1. exit' \in -1..255
    BY <1>3, <1>4
  <2>2. failure' \in Answer \cup {"none", "timeout"}
    BY <1>1, <1>4 DEF Report
  <2> QED BY <1>4, <2>1, <2>2 DEF Receive, IInv, TypeOK
<1>6. Resolved'
  BY <1>1, <1>4 DEF IInv, Resolved
<1>7. Asked'
  BY <1>1, <1>4 DEF IInv, Asked, Intended
<1>8. Sent'
  BY <1>1, <1>4 DEF IInv, Sent
<1>9. Applied'
  BY <1>4 DEF IInv, Applied, Intended
<1>10. Told'
  <2>1. code = ExitOK /\ ~Looks(cmd.op) =>
          executed = <<Intended>> \/ failure' = "ignored" \/ (cmd.raw /\ answer = "ignored")
    BY <1>3, <1>4 DEF IInv, Applied, Report
  <2>2. ~cmd.status => code # ExitRefused /\ (code = ExitAuth <=> failure' = "auth")
    BY <1>3, <1>4 DEF Report
  <2> QED BY <1>1, <1>4, <2>1, <2>2 DEF Told, Intended, ExitAuthIffRejected
<1> QED BY <1>5, <1>6, <1>7, <1>8, <1>9, <1>10 DEF IInv

\* KiwiVM does what the request says, once, and only with consent behind it.
LEMMA ServeKeeps == ASSUME IInv, Serve PROVE IInv'
<1> USE DEF given, times
<1>1. /\ wire = "flying" /\ wire' = "served" /\ executed = <<>> /\ answer = "none"
      /\ answer' \in Answer
      /\ UNCHANGED <<given, piped, pc, step, object, agreed, times, failure, exit>>
  BY DEF Serve, IInv, Sent, Answer
<1>2. srv \in Server
  BY <1>1 DEF IInv, Resolved
<1>3. \/ executed' = <<Intended>> /\ ~Looks(cmd.op)
      \/ executed' = <<>> /\ (Looks(cmd.op) \/ answer' # "ok")
  BY <1>1 DEF Serve
<1>4. TypeOK'
  <2>1. Intended \in Request
    BY <1>2, IntendedIsRequest DEF IInv
  <2>2. <<Intended>> \in Seq(Request) /\ <<>> \in Seq(Request)
    BY <2>1
  <2>3. executed' \in Seq(Request)
    BY <1>3, <2>2
  <2> QED BY <1>1, <2>3 DEF IInv, TypeOK
<1>5. Resolved'
  BY <1>1, <1>2 DEF Resolved
<1>6. Asked'
  BY <1>1 DEF IInv, Asked, Intended
<1>7. Sent'
  BY <1>1 DEF IInv, Sent
<1>8. Applied'
  BY <1>1, <1>3 DEF Applied, Intended
<1>9. Told'
  BY <1>1 DEF IInv, Told, Intended, ExitAuthIffRejected
<1> QED BY <1>4, <1>5, <1>6, <1>7, <1>8, <1>9 DEF IInv

\* The client stops waiting.
LEMMA GiveUpKeeps == ASSUME IInv, GiveUp PROVE IInv'
<1> USE DEF given, times, sent, Goto, Stop
<1>1. TypeOK'
  <2>1. (pc \in {"start", "input", "reads", "confirm", "prompt", "call", "awaiting", "done"})'
    BY DEF GiveUp, IInv, TypeOK
  <2>2. (failure \in Answer \cup {"none", "timeout"})'
    BY DEF GiveUp, IInv, TypeOK, Answer
  <2>3. exit' \in {exit, ExitOK, ExitError, ExitConfig, ExitRefused, ExitAuth}
    BY DEF GiveUp
  <2>4. exit \in -1..255
    BY DEF IInv, TypeOK
  <2>5. (exit \in -1..255)'
    BY <2>3, <2>4, CodesInRange
  <2> QED BY <2>1, <2>2, <2>5 DEF GiveUp, IInv, TypeOK
<1>2. Resolved'
  BY DEF GiveUp, IInv, Resolved, TypeOK
<1>3. Asked'
  BY DEF GiveUp, IInv, Asked, Sent, Intended, Interactive
<1>4. Sent'
  BY DEF GiveUp, IInv, Sent
<1>5. Applied'
  BY DEF GiveUp, IInv, Applied, Sent, Intended
<1>6. Told'
  BY DEF GiveUp, IInv, Told, Applied, Sent, Asked, Intended, ExitAuthIffRejected, ExitOK, ExitError, ExitConfig, ExitRefused, ExitAuth
<1> QED BY <1>1, <1>2, <1>3, <1>4, <1>5, <1>6 DEF IInv

\* The deadline changes nothing else.
LEMMA ExpireKeeps == ASSUME IInv, Expire PROVE IInv'
<1> USE DEF given, times, sent, Goto, Stop
<1>1. TypeOK'
  <2>1. (pc \in {"start", "input", "reads", "confirm", "prompt", "call", "awaiting", "done"})'
    BY DEF Expire, IInv, TypeOK
  <2>2. (failure \in Answer \cup {"none", "timeout"})'
    BY DEF Expire, IInv, TypeOK, Answer
  <2>3. exit' \in {exit, ExitOK, ExitError, ExitConfig, ExitRefused, ExitAuth}
    BY DEF Expire
  <2>4. exit \in -1..255
    BY DEF IInv, TypeOK
  <2>5. (exit \in -1..255)'
    BY <2>3, <2>4, CodesInRange
  <2> QED BY <2>1, <2>2, <2>5 DEF Expire, IInv, TypeOK
<1>2. Resolved'
  BY DEF Expire, IInv, Resolved, TypeOK
<1>3. Asked'
  BY DEF Expire, IInv, Asked, Sent, Intended, Interactive
<1>4. Sent'
  BY DEF Expire, IInv, Sent
<1>5. Applied'
  BY DEF Expire, IInv, Applied, Sent, Intended
<1>6. Told'
  BY DEF Expire, IInv, Told, Applied, Sent, Asked, Intended, ExitAuthIffRejected, ExitOK, ExitError, ExitConfig, ExitRefused, ExitAuth
<1> QED BY <1>1, <1>2, <1>3, <1>4, <1>5, <1>6 DEF IInv

\* Nor does the signal.
LEMMA InterruptKeeps == ASSUME IInv, Interrupt PROVE IInv'
<1> USE DEF given, times, sent, Goto, Stop
<1>1. TypeOK'
  <2>1. (pc \in {"start", "input", "reads", "confirm", "prompt", "call", "awaiting", "done"})'
    BY DEF Interrupt, IInv, TypeOK
  <2>2. (failure \in Answer \cup {"none", "timeout"})'
    BY DEF Interrupt, IInv, TypeOK, Answer
  <2>3. exit' \in {exit, ExitOK, ExitError, ExitConfig, ExitRefused, ExitAuth}
    BY DEF Interrupt
  <2>4. exit \in -1..255
    BY DEF IInv, TypeOK
  <2>5. (exit \in -1..255)'
    BY <2>3, <2>4, CodesInRange
  <2> QED BY <2>1, <2>2, <2>5 DEF Interrupt, IInv, TypeOK
<1>2. Resolved'
  BY DEF Interrupt, IInv, Resolved, TypeOK
<1>3. Asked'
  BY DEF Interrupt, IInv, Asked, Sent, Intended, Interactive
<1>4. Sent'
  BY DEF Interrupt, IInv, Sent
<1>5. Applied'
  BY DEF Interrupt, IInv, Applied, Sent, Intended
<1>6. Told'
  BY DEF Interrupt, IInv, Told, Applied, Sent, Asked, Intended, ExitAuthIffRejected, ExitOK, ExitError, ExitConfig, ExitRefused, ExitAuth
<1> QED BY <1>1, <1>2, <1>3, <1>4, <1>5, <1>6 DEF IInv

\* Nor does the end of the script.
LEMMA EndOfInputKeeps == ASSUME IInv, EndOfInput PROVE IInv'
<1> USE DEF given, times, sent, Goto, Stop
<1>1. TypeOK'
  <2>1. (pc \in {"start", "input", "reads", "confirm", "prompt", "call", "awaiting", "done"})'
    BY DEF EndOfInput, IInv, TypeOK
  <2>2. (failure \in Answer \cup {"none", "timeout"})'
    BY DEF EndOfInput, IInv, TypeOK, Answer
  <2>3. exit' \in {exit, ExitOK, ExitError, ExitConfig, ExitRefused, ExitAuth}
    BY DEF EndOfInput
  <2>4. exit \in -1..255
    BY DEF IInv, TypeOK
  <2>5. (exit \in -1..255)'
    BY <2>3, <2>4, CodesInRange
  <2> QED BY <2>1, <2>2, <2>5 DEF EndOfInput, IInv, TypeOK
<1>2. Resolved'
  BY DEF EndOfInput, IInv, Resolved, TypeOK
<1>3. Asked'
  BY DEF EndOfInput, IInv, Asked, Sent, Intended, Interactive
<1>4. Sent'
  BY DEF EndOfInput, IInv, Sent
<1>5. Applied'
  BY DEF EndOfInput, IInv, Applied, Sent, Intended
<1>6. Told'
  BY DEF EndOfInput, IInv, Told, Applied, Sent, Asked, Intended, ExitAuthIffRejected, ExitOK, ExitError, ExitConfig, ExitRefused, ExitAuth
<1> QED BY <1>1, <1>2, <1>3, <1>4, <1>5, <1>6 DEF IInv

LEMMA StepIInv == IInv /\ [Next]_vars => IInv'
<1> SUFFICES ASSUME IInv, [Next]_vars PROVE IInv'
  OBVIOUS
<1>1. CASE Start      BY <1>1, StartKeeps
<1>2. CASE Read       BY <1>2, ReadKeeps
<1>3. CASE Confirm    BY <1>3, ConfirmKeeps
<1>4. CASE Reply      BY <1>4, ReplyKeeps
<1>5. CASE Call       BY <1>5, CallKeeps
<1>6. CASE Receive    BY <1>6, ReceiveKeeps
<1>7. CASE GiveUp     BY <1>7, GiveUpKeeps
<1>8. CASE Serve      BY <1>8, ServeKeeps
<1>9. CASE Expire     BY <1>9, ExpireKeeps
<1>10. CASE Interrupt BY <1>10, InterruptKeeps
<1>11. CASE ReadScript BY <1>11, ReadScriptKeeps
<1>12. CASE EndOfInput BY <1>12, EndOfInputKeeps
<1>13. CASE UNCHANGED vars
  BY <1>13 DEF vars, given, times, sent, IInv, TypeOK, Resolved, Asked, Sent, Applied, Told,
               Intended, ExitAuthIffRejected
<1> QED BY <1>1, <1>2, <1>3, <1>4, <1>5, <1>6, <1>7, <1>8, <1>9, <1>10, <1>11, <1>12, <1>13
       DEF Next, Ended

\* The invariant is inductive, so it holds in every state of every behaviour.
THEOREM Invariance == Spec => []IInv
<1>1. Init => IInv
  BY InitIInv
<1>2. IInv /\ [Next]_vars => IInv'
  BY StepIInv
<1> QED BY <1>1, <1>2, PTL DEF Spec

----------------------------------------------------------------------------
(* What follows from it *)

\* Every variable stays in its range.
THEOREM TypeCorrect == Spec => []TypeOK
<1>1. IInv => TypeOK
  BY DEF IInv
<1> QED BY <1>1, Invariance, PTL

\* What changed something was consented to.
LEMMA DoneWithConsent ==
  ASSUME IInv, executed # <<>>
  PROVE  executed = <<Intended>> /\ agreed = {Intended} /\ wire = "served"
<1>1. executed = <<Intended>> /\ ~Looks(cmd.op) /\ wire = "served"
  BY DEF IInv, Applied, Sent, TypeOK
<1>2. NotRead(cmd.op)
  BY <1>1, Classified, Registered DEF IInv
<1> QED BY <1>1, <1>2 DEF IInv, Asked

\* confirm.go, askForName: without --yes, an operation that erases a whole VPS
\* is never performed on a server other than the one the person had in mind.
THEOREM WrongBoxIsCaught == Spec => []WrongBoxCaught
<1>1. IInv => WrongBoxCaught
  <2> SUFFICES ASSUME IInv, Catastrophic(cmd.op), ~flags.yes, executed # <<>> PROVE srv = meant
    BY DEF WrongBoxCaught
  <2>1. agreed # {}
    BY DoneWithConsent
  <2> QED BY <2>1 DEF IInv, Asked
<1> QED BY <1>1, Invariance, PTL

\* app.go, ExitOK: exit code 0 means that the operation was performed, or that
\* the result says KiwiVM ignored it.
THEOREM ZeroMeansApplied == Spec => []ExitZeroMeansApplied
<1>1. IInv => ExitZeroMeansApplied
  BY DEF IInv, Told, ExitZeroMeansApplied
<1> QED BY <1>1, Invariance, PTL

\* app.go, ExitRefused: after a refusal nothing was sent, so nothing happens.
THEOREM RefusalSendsNothing == Spec => []RefusedMeansUnsent
<1>1. IInv => RefusedMeansUnsent
  BY DEF IInv, Told, Sent, RefusedMeansUnsent
<1> QED BY <1>1, Invariance, PTL

\* app.go, ExitAuth and Explain: exit code 4 for rejected credentials, and for
\* nothing else.
THEOREM AuthCodeIsExact == Spec => []ExitAuthIffRejected
<1>1. IInv => ExitAuthIffRejected
  BY DEF IInv, Told
<1> QED BY <1>1, Invariance, PTL

\* main.go and App.Context: once the context is over, the operation is not sent.
THEOREM LateConsentSendsNothing == Spec => NothingSentLate
<1>1. IInv /\ [Next]_vars => [(expired \/ interrupted) => (wire = "unsent" => wire' = "unsent")]_vars
  <2> SUFFICES ASSUME IInv, [Next]_vars, expired \/ interrupted, wire = "unsent"
               PROVE  wire' = "unsent"
    OBVIOUS
  <2>1. CASE Call
    BY <2>1 DEF Call, Over
  <2>2. CASE wire' = wire
    BY <2>2
  <2>3. ~Serve
    BY DEF Serve
  <2> QED BY <2>1, <2>2, <2>3 DEF Next, vars, sent, Start, ReadScript, Read, Confirm, Reply,
                                  Receive, GiveUp, EndOfInput, Expire, Interrupt, Ended
<1> QED BY <1>1, Invariance, PTL DEF Spec, NothingSentLate

----------------------------------------------------------------------------
(* Every command implements Consented *)

LEMMA InitConsent == Init => Consent!Init
  BY DEF Init, Consent!Init

LEMMA StepConsent == IInv /\ IInv' /\ [Next]_vars => [Consent!Next]_(Consent!vars)
<1> SUFFICES ASSUME IInv, IInv', [Next]_vars PROVE [Consent!Next]_(Consent!vars)
  OBVIOUS
<1>1. CASE UNCHANGED <<flags, agreed, executed>>
  BY <1>1 DEF Consent!vars
<1>2. ASSUME UNCHANGED <<given, object, executed>>, pc \in {"reads", "prompt"},
             agreed' = {Intended}, pc' = "call"
      PROVE  Consent!Next
  <2>1. agreed = {} /\ executed = <<>>
    BY <1>2 DEF IInv, Asked, Sent
  <2>2. ~flags.readOnly /\ ~flags.dryRun /\ (flags.yes \/ flags.terminal)
    BY <1>2 DEF IInv, Asked, given
  <2>3. Intended \in Request
    BY <1>2, IntendedIsRequest DEF IInv, Resolved
  <2>4. Consent!Agree(Intended)
    BY <1>2, <2>1, <2>2 DEF Consent!Agree, given
  <2> QED BY <2>3, <2>4 DEF Consent!Next
<1>3. CASE Serve
  <2>1. CASE executed' = executed
    BY <1>1, <1>3, <2>1 DEF Serve, given
  <2>2. CASE executed' # executed
    <3>1. executed = <<>> /\ executed' = <<Intended>> /\ ~Looks(cmd.op)
      BY <1>3, <2>2 DEF Serve, IInv, Sent
    <3>2. NotRead(cmd.op)
      BY <3>1, Classified, Registered DEF IInv
    <3>3. agreed = {Intended} /\ Intended \in Request
      BY <1>3, <3>2, IntendedIsRequest DEF Serve, IInv, Asked, Resolved
    <3>4. Consent!Act(Intended)
      BY <1>3, <3>1, <3>3 DEF Serve, given, Consent!Act
    <3> QED BY <3>3, <3>4 DEF Consent!Next
  <2> QED BY <2>1, <2>2
<1>4. CASE Confirm
  <2>1. CASE UNCHANGED agreed
    BY <1>1, <1>4, <2>1 DEF Confirm, given, sent
  <2>2. CASE agreed' = {Intended} /\ pc' = "call"
    BY <1>2, <1>4, <2>2 DEF Confirm, sent
  <2> QED BY <1>4, <2>1, <2>2 DEF Confirm, Goto
<1>5. CASE Reply
  <2>1. CASE UNCHANGED agreed
    BY <1>1, <1>5, <2>1 DEF Reply, given, sent
  <2>2. CASE agreed' = {Intended} /\ pc' = "call"
    BY <1>2, <1>5, <2>2 DEF Reply, sent
  <2> QED BY <1>5, <2>1, <2>2 DEF Reply, Goto
<1>6. CASE \/ Start \/ ReadScript \/ Read \/ Call \/ Receive \/ GiveUp \/ Expire \/ Interrupt
           \/ EndOfInput \/ UNCHANGED vars
  BY <1>1, <1>6 DEF Start, ReadScript, Read, Call, Receive, GiveUp, Expire, Interrupt, EndOfInput,
                    vars, given, sent
<1> QED BY <1>3, <1>4, <1>5, <1>6 DEF Next, Ended

\* Confirm and the gates: for every command, nothing changes on a VPS without
\* consent, and what changes is what was consented to, once.
THEOREM EveryCommandIsConsented == Spec => ConsentedSpec
<1>1. Init => Consent!Init
  BY InitConsent
<1>2. IInv /\ IInv' /\ [Next]_vars => [Consent!Next]_(Consent!vars)
  BY StepConsent
<1> QED BY <1>1, <1>2, Invariance, PTL DEF Spec, ConsentedSpec, Consent!Spec

=============================================================================
