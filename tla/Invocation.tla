----------------------------- MODULE Invocation -----------------------------
(***************************************************************************)
(* One run of a bwg command that talks to KiwiVM: which server it acts on, *)
(* the reads that fill its consent card, the consent, the one request that *)
(* performs the operation, and the exit code.  Around it: a person who may *)
(* have meant another server, a network that loses requests and answers,   *)
(* a deadline, and Ctrl-C.                                                 *)
(***************************************************************************)
EXTENDS Commands, Integers

CONSTANTS
  Server,       \* the names of the configured servers
  NoServer,     \* Config.Resolve found no server, or several
  Object,       \* what KiwiVM's lists may resolve a reference to
  AsTyped,      \* an object taken from the command line as it stands
  NoObject,     \* the operation takes no object
  Commands,     \* the commands that may be run
  GuestStatus   \* the exit statuses other than 0 of a command in the guest

ASSUME InvocationAssumption ==
  /\ NoServer \notin Server
  /\ \A c \in Commands :
       /\ c.op \in Endpoint
       /\ \A i \in 1..Len(c.reads) : c.reads[i].ep \in ReadOps
       /\ c.object \in BOOLEAN /\ c.gate \in BOOLEAN
       /\ c.status \in BOOLEAN /\ c.stdin \in BOOLEAN /\ c.raw \in BOOLEAN
  /\ GuestStatus \subseteq 1..255

VARIABLES
  cmd,          \* the command
  flags,        \* the global flags, and whether stdin and stderr are a terminal
  srv,          \* the server it resolved to
  meant,        \* the server the person has in mind
  piped,        \* somebody still holds open the pipe that is to bring the script
  pc,           \* where the command stands
  step,         \* the next of its reads
  object,       \* the object of the operation, as far as it is known
  agreed,       \* what was consented to: nothing, or one request
  expired,      \* the command's deadline has passed
  interrupted,  \* Ctrl-C or SIGTERM arrived
  wire,         \* the operation's request: "unsent", "flying" or "served"
  answer,       \* what KiwiVM answered to it
  failure,      \* what went wrong, as the command reports it
  executed,     \* the requests by which KiwiVM has changed something, in order
  exit          \* the exit code, -1 until the process ends

given == <<cmd, flags, srv, meant>>
times == <<expired, interrupted>>
sent  == <<wire, answer, executed>>
vars  == <<given, piped, pc, step, object, agreed, times, sent, failure, exit>>

ExitOK      == 0
ExitError   == 1
ExitConfig  == 2
ExitRefused == 3
ExitAuth    == 4

\* KiwiVM's codes for rejected credentials and for a locked VPS.
CodeAuthFailure == 700005
CodeLocked      == 788888

\* os.Exit keeps the low eight bits.
Wrapped(code) == code % 256

Flags   == [readOnly : BOOLEAN, dryRun : BOOLEAN, yes : BOOLEAN, terminal : BOOLEAN]
Target  == Object \cup {AsTyped, NoObject}
Request == [op : Endpoint, server : Server, object : Target]

\* "failed": a guest command ran and its status was not 0.  "broken": a 5xx
\* from KiwiVM or a proxy before it.  "garbled": a body that is not JSON.
\* "limited": 429.  "refused": any other error code in the envelope.
\* "ignored": no error, but something that was asked for is not in the answer,
\* neither as submitted nor as updated (notification preferences).
Answer == {"ok", "ignored", "failed", "auth", "refused", "limited", "broken", "garbled"}

TypeOK ==
  /\ cmd \in Commands
  /\ flags \in Flags
  /\ srv \in Server \cup {NoServer}
  /\ meant \in Server
  /\ piped \in BOOLEAN
  /\ pc \in {"start", "input", "reads", "confirm", "prompt", "call", "awaiting", "done"}
  /\ step \in Nat
  /\ object \in Target
  /\ agreed \in SUBSET Request
  /\ expired \in BOOLEAN
  /\ interrupted \in BOOLEAN
  /\ wire \in {"unsent", "flying", "served"}
  /\ answer \in Answer \cup {"none"}
  /\ failure \in Answer \cup {"none", "timeout"}
  /\ executed \in Seq(Request)
  /\ exit \in -1..255

Init ==
  /\ cmd \in Commands
  /\ flags \in Flags
  /\ srv \in Server \cup {NoServer}
  /\ meant \in Server
  /\ piped \in {FALSE, cmd.stdin}
  /\ pc = "start"
  /\ step = 1
  /\ object = IF cmd.object THEN AsTyped ELSE NoObject
  /\ agreed = {}
  /\ expired = FALSE
  /\ interrupted = FALSE
  /\ wire = "unsent"
  /\ answer = "none"
  /\ failure = "none"
  /\ executed = <<>>
  /\ exit = -1

\* Read-only mode forbids the operation.
Forbidden(op) == flags.readOnly /\ NotRead(op)

\* The context an exchange runs under is over.
\* (Mutant: the signal is not wired to the context.)
OverAtDeadlineOnly(ctx) == ctx = "app" /\ expired

Over(ctx) == interrupted \/ (ctx = "app" /\ expired)

\* What the command is about to do, as the card puts it.
Intended == [op |-> cmd.op, server |-> srv, object |-> object]

Goto(place) == pc' = place /\ UNCHANGED <<failure, exit>>

Stop(code, why) == pc' = "done" /\ exit' = code /\ failure' = why

----------------------------------------------------------------------------
(* The command *)

\* ClientForOp and Server: read-only mode refuses; or no one server is found; or
\* the work begins, and with it the deadline.
\* (Mutant: the error of Server is dropped.)
ClientForOpUnresolved ==
  \/ cmd.gate /\ Forbidden(cmd.op) /\ Stop(ExitRefused, "none")
  \/ ~(cmd.gate /\ Forbidden(cmd.op)) /\ Goto("reads")

ClientForOp ==
  \/ cmd.gate /\ Forbidden(cmd.op) /\ Stop(ExitRefused, "none")
  \/ ~(cmd.gate /\ Forbidden(cmd.op)) /\ srv = NoServer /\ Stop(ExitConfig, "none")
  \/ ~(cmd.gate /\ Forbidden(cmd.op)) /\ srv # NoServer /\ Goto("reads")

\* The flags and arguments are wrong, or the config cannot be loaded, or a script
\* is missing where somebody sits at the terminal; or the command goes on.
Start ==
  /\ pc = "start"
  /\ \/ Stop(ExitError, "none")
     \/ ~cmd.stdin /\ ClientForOp
     \/ cmd.stdin /\ ~flags.terminal /\ Goto("input")
  /\ UNCHANGED <<given, piped, step, object, agreed, times, sent>>

\* readScript: all of stdin, for which it waits under no context.  An empty
\* script is an error.
ReadScript ==
  /\ pc = "input"
  /\ ~piped
  /\ \/ Stop(ExitError, "none")
     \/ ClientForOp
  /\ UNCHANGED <<given, piped, step, object, agreed, times, sent>>

\* One read before the card: it answers, and may resolve the reference or
\* show that the operation cannot work; or it fails, which a best-effort read
\* survives.  Explain gives rejected credentials their own code.
Read ==
  /\ pc = "reads"
  /\ step \in 1..Len(cmd.reads)
  /\ LET read == cmd.reads[step] IN
       \/ /\ ~Over(read.ctx)
          /\ Goto("reads")
          /\ step' = step + 1
          /\ IF read.picks THEN object' \in Object ELSE UNCHANGED object
       \/ /\ ~Over(read.ctx)
          /\ read.picks \/ read.refuses
          /\ Stop(ExitError, "none")
          /\ UNCHANGED <<step, object>>
       \/ /\ ~read.must
          /\ Goto("reads")
          /\ step' = step + 1
          /\ UNCHANGED object
       \/ /\ read.must
          /\ \/ Stop(ExitAuth, "auth") /\ ~Over(read.ctx)
             \/ \E why \in Answer \cup {"timeout"} :
                  /\ why \notin {"ok", "ignored", "auth", "failed"}
                  /\ Over(read.ctx) => why = "timeout"
                  /\ Stop(ExitError, why)
          /\ UNCHANGED <<step, object>>
  /\ UNCHANGED <<given, piped, agreed, times, sent>>

\* output.Interactive: somebody can answer.
Interactive == flags.terminal

\* Confirm, up to the question it may ask.  A dry run prints its card, which
\* fails only if --jq does.
Confirm ==
  /\ pc = "reads"
  /\ step > Len(cmd.reads)
  /\ \/ ~NotRead(cmd.op) /\ Goto("call") /\ UNCHANGED agreed
     \/ /\ NotRead(cmd.op)
        /\ \/ flags.readOnly /\ Stop(ExitRefused, "none") /\ UNCHANGED agreed
           \/ /\ ~flags.readOnly /\ flags.dryRun
              /\ \E code \in {ExitOK, ExitError} : Stop(code, "none")
              /\ UNCHANGED agreed
           \/ /\ ~flags.readOnly /\ ~flags.dryRun /\ flags.yes
              /\ Goto("call")
              /\ agreed' = {Intended}
           \/ /\ ~flags.readOnly /\ ~flags.dryRun /\ ~flags.yes /\ ~Interactive
              /\ Stop(ExitRefused, "none")
              /\ UNCHANGED agreed
           \/ /\ ~flags.readOnly /\ ~flags.dryRun /\ ~flags.yes /\ Interactive
              /\ Goto("prompt")
              /\ UNCHANGED agreed
  /\ UNCHANGED <<given, piped, step, object, times, sent>>

\* What a person may type at the prompt: the name of the server they have in
\* mind, or something else, where a name is asked for; else yes or no.
Typed == IF Catastrophic(cmd.op) THEN {meant, NoServer} ELSE {"yes", "no"}

\* (Mutant: any configured server's name will do.)
ConsentsToAnyName(line) ==
  IF Catastrophic(cmd.op) THEN line \in Server ELSE line = "yes"

Consents(line) == line = (IF Catastrophic(cmd.op) THEN srv ELSE "yes")

\* askYesNo and askForName: a line, or the end of the input.
Reply ==
  /\ pc = "prompt"
  /\ \/ \E line \in Typed :
          \/ Consents(line) /\ Goto("call") /\ agreed' = {Intended}
          \/ ~Consents(line) /\ Stop(ExitRefused, "none") /\ UNCHANGED agreed
     \/ Stop(ExitError, "none") /\ UNCHANGED agreed
  /\ UNCHANGED <<given, piped, step, object, times, sent>>

\* The client: its own gate, an argument it rejects, a context that is over, or
\* the request goes out.
Call ==
  /\ pc = "call"
  /\ \/ Forbidden(cmd.op) /\ Stop(ExitRefused, "none") /\ UNCHANGED wire
     \/ ~Forbidden(cmd.op) /\ Stop(ExitError, "none") /\ UNCHANGED wire
     \/ ~Forbidden(cmd.op) /\ Over("app") /\ Stop(ExitError, "timeout") /\ UNCHANGED wire
     \/ ~Forbidden(cmd.op) /\ ~Over("app") /\ Goto("awaiting") /\ wire' = "flying"
  /\ UNCHANGED <<given, piped, step, object, agreed, times, answer, executed>>

\* The exit codes an answer may lead to.  Only exec reads the envelope's error
\* as the guest's exit status, whatever it is; for every other command it is a
\* failure.  Emit fails when --jq does.
\* (Mutant: rejected credentials are an error like any other.)
CodesBlind(got) ==
  {ExitError} \cup (IF got \in {"ok", "ignored"} THEN {ExitOK} ELSE {})

Codes(got) ==
  IF got \in {"ok", "ignored"} THEN {ExitOK, ExitError}
  ELSE IF ~cmd.status THEN IF got = "auth" THEN {ExitAuth} ELSE {ExitError}
  ELSE {ExitError} \cup {code \in GuestStatus : got = "failed"}
                   \cup {Wrapped(CodeAuthFailure) : x \in {got} \cap {"auth"}}
                   \cup {Wrapped(CodeLocked) : x \in {got} \cap {"refused"}}

\* What the result says went wrong: notify set lists what KiwiVM ignored, a raw
\* call passes on whatever it said.
\* (Mutant: the answer is not compared with what was sent.)
ReportUncompared(got) == IF got \in {"ok", "ignored"} THEN "none" ELSE got

Report(got) == IF got = "ok" \/ (got = "ignored" /\ cmd.raw) THEN "none" ELSE got

\* The answer arrives; the command renders it and ends.
Receive ==
  /\ pc = "awaiting"
  /\ wire = "served"
  /\ \E code \in Codes(answer) : Stop(code, Report(answer))
  /\ UNCHANGED <<given, piped, step, object, agreed, times, sent>>

\* The client stops waiting: its own timeout, its context, or a connection
\* that broke.  The request stays where it is.
\* (Mutants: a request given up counts as a refusal; the client has no timeout
\* of its own.)
GiveUpRefused ==
  /\ pc = "awaiting"
  /\ Stop(ExitRefused, "timeout")
  /\ UNCHANGED <<given, piped, step, object, agreed, times, sent>>

GiveUpIfOver ==
  /\ pc = "awaiting"
  /\ Over("app")
  /\ Stop(ExitError, "timeout")
  /\ UNCHANGED <<given, piped, step, object, agreed, times, sent>>

GiveUp ==
  /\ pc = "awaiting"
  /\ Stop(ExitError, "timeout")
  /\ UNCHANGED <<given, piped, step, object, agreed, times, sent>>

----------------------------------------------------------------------------
(* KiwiVM, the clock and the person *)

\* KiwiVM serves the request, whether or not anyone still waits: it does what
\* it was asked and says so, or something between it and bwg spoils the
\* answer; or it does nothing.  Notification preferences that it does not know,
\* all of them or some, it only leaves out of its answer.
Serve ==
  /\ wire = "flying"
  /\ wire' = "served"
  /\ \/ /\ executed' = IF Looks(cmd.op) THEN executed ELSE Append(executed, Intended)
        /\ \/ answer' \in {"ok", "broken", "garbled"}
           \/ cmd.op = "basicShell/exec" /\ answer' = "failed"
           \/ cmd.op = "kiwivm/setNotificationPreferences" /\ answer' = "ignored"
     \/ /\ UNCHANGED executed
        /\ \/ answer' \in {"auth", "refused", "limited", "broken", "garbled"}
           \/ cmd.op = "kiwivm/setNotificationPreferences" /\ answer' = "ignored"
  /\ UNCHANGED <<given, piped, pc, step, object, agreed, times, failure, exit>>

\* The deadline of the command's context, which began before its first read.
Expire ==
  /\ pc \notin {"start", "input", "done"}
  /\ expired' = TRUE
  /\ UNCHANGED <<given, piped, pc, step, object, agreed, interrupted, sent, failure, exit>>

\* A signal only ends the context: a read of the terminal, or of a script, goes
\* on waiting.
Interrupt ==
  /\ pc # "done"
  /\ interrupted' = TRUE
  /\ UNCHANGED <<given, piped, pc, step, object, agreed, expired, sent, failure, exit>>

\* Whoever writes the script to the pipe is done with it.
EndOfInput ==
  /\ piped
  /\ piped' = FALSE
  /\ UNCHANGED <<given, pc, step, object, agreed, times, sent, failure, exit>>

Ended == pc = "done" /\ UNCHANGED vars

Next ==
  \/ Start \/ ReadScript \/ Read \/ Confirm \/ Reply \/ Call \/ Receive \/ GiveUp
  \/ Serve \/ Expire \/ Interrupt \/ EndOfInput
  \/ Ended

\* Every HTTP exchange ends, because the client always has a timeout of its
\* own; nobody has to answer a prompt or to close a pipe, and KiwiVM owes
\* nothing.
Spec ==
  /\ Init
  /\ [][Next]_vars
  /\ WF_vars(Start) /\ WF_vars(ReadScript) /\ WF_vars(Read) /\ WF_vars(Confirm) /\ WF_vars(Call)
  /\ WF_vars(GiveUp \/ Receive)

----------------------------------------------------------------------------
(* Properties *)

\* Confirm and the two read-only gates together: every command implements
\* Consented.  KiwiVM changes nothing under --read-only or --dry-run or, where
\* nobody can be asked, without --yes; it changes only the operation, server
\* and object on the card, once.
Consent == INSTANCE Consented WITH
  permitted <- /\ ~flags.readOnly
               /\ ~flags.dryRun
               /\ flags.yes \/ flags.terminal

ConsentedSpec == Consent!Spec

\* confirm.go: typing the name "is the only check that catches the wrong-server
\* mistake".  Someone asked about an operation that erases a whole VPS never
\* loses a VPS other than the one they had in mind.
WrongBoxCaught ==
  Catastrophic(cmd.op) /\ ~flags.yes /\ executed # <<>> => srv = meant

\* "ExitOK means the command did what it was asked": unless it was a dry run,
\* an operation that changes something was performed, on that server and object,
\* or the result says that KiwiVM ignored it: notify set lists what did not take,
\* a raw call prints the answer in which it is missing.
ExitZeroMeansApplied ==
  exit = ExitOK /\ ~Looks(cmd.op) /\ ~flags.dryRun =>
    executed = <<Intended>> \/ failure = "ignored" \/ (cmd.raw /\ answer = "ignored")

\* ExitRefused: "the request was understood and nothing happened", and nothing
\* can happen any more.  exec is apart, its codes are the guest's.
RefusedMeansUnsent ==
  exit = ExitRefused /\ ~cmd.status => wire = "unsent" /\ executed = <<>>

\* "ExitAuth means KiwiVM rejected the credentials", and no other failure does;
\* exec is apart again.
ExitAuthIffRejected ==
  exit # -1 /\ ~cmd.status => (exit = ExitAuth <=> failure = "auth")

\* Consent given after Ctrl-C, or after the deadline, comes too late: the
\* operation is never sent.
NothingSentLate ==
  [][expired \/ interrupted => (wire = "unsent" => wire' = "unsent")]_vars

\* "A script never hangs on a question nobody can answer": where there is no
\* terminal every command ends, even if KiwiVM never answers; only a script it is
\* to read from stdin must have come to its end.
ScriptsEnd == ~flags.terminal /\ <>~piped => <>(pc = "done")

----------------------------------------------------------------------------
(* What the documents say and the code does not do *)

\* README: exit 4 is "KiwiVM rejected the credentials".
RejectedExitsAuth ==
  exit # -1 /\ failure = "auth" => exit = ExitAuth

=============================================================================
