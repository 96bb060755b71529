--------------------------------- MODULE Cli ---------------------------------
(***************************************************************************)
(* The commands of the command line tool (packages/cli), each the sequence *)
(* of its steps: who is calling, what is missing, what is asked, what the  *)
(* admin server is asked and told, and how the process ends when a step    *)
(* fails.  Deploying functions and watching logs are one step each, and    *)
(* what is printed is left out.                                            *)
(*                                                                         *)
(* o are the options: tty (not --non-interactive), out, full (everything   *)
(* the command would ask for is given), force (--force, --remote-backup),  *)
(* api (--api-key), and one (the account has one org or environment).      *)
(***************************************************************************)
EXTENDS Naturals, Sequences

VARIABLE cli  \* the process

Options == [tty : BOOLEAN, out : {"fancy", "json", "none"}, full : BOOLEAN,
            force : BOOLEAN, api : BOOLEAN, one : BOOLEAN]

\* How the process ends: with a code, or killed by an error nobody caught.
\* "on": the error is told and the command goes on.
Step(do, when, bad) == [do |-> do, when |-> when, bad |-> bad]

Auth == Step("auth", TRUE, "1")
\* login in the background: events and migrate do not wait for the answer
AuthLater == Step("auth later", TRUE, "1")
Refuse(when, code) == Step("refuse", when, code)
\* what the server or the files say may be refused as well
MayRefuse(code) == Step("may refuse", TRUE, code)
Ask(when) == Step("ask", when, "crash")
Sure(when, code) == Step("sure", when, code)
Read(bad) == Step("read", TRUE, bad)
Write(bad) == Step("write", TRUE, bad)
WriteIf(when, bad) == Step("write", when, bad)
Wait(when) == Step("wait", when, "1")
-----------------------------------------------------------------------------
(***************************************************************************)
(* Services.                                                               *)
(***************************************************************************)
\* The service by name or template, or it is asked for.
FindService(o) == <<Read("1"), MayRefuse("1"), Ask(~o.full)>>

ServicesAddAsks(o) ==
    <<Auth, Refuse(o.out = "none" \/ (~o.tty /\ ~o.full), "1"),
      Read("1"), Ask(~o.full), MayRefuse("1")>>
ServicesAdd(o) == ServicesAddAsks(o) \o <<Write("1"), Wait(o.force)>>
ServicesLs == <<Auth, Read("1")>>
ServicesRemove(o) ==
    <<Auth, Refuse(o.out = "none" \/ (~o.tty /\ ~(o.force /\ o.full)), "1")>>
        \o FindService(o) \o <<Sure(~o.force, "1"), Write("1")>>
ServicesScale(o) ==
    <<Auth, Refuse(o.out = "none" \/ (~o.tty /\ ~o.full), "1")>>
        \o FindService(o) \o <<Ask(~o.full), Write("1")>>
ServicesRestart(o) ==
    <<Auth, Refuse(o.out = "none" \/ (~o.tty /\ ~o.full), "1")>>
        \o FindService(o) \o <<Write("1")>>
\* Every instance is ready: also when there is none yet.
ServicesWait == <<Auth, Wait(TRUE)>>

(***************************************************************************)
(* Environments.                                                           *)
(***************************************************************************)
EnvsLs == <<Auth, Read("on")>>
EnvsAddAsks(o) ==
    <<Refuse(~o.tty /\ ~o.full, "1"),
      IF o.full THEN Step("read", FALSE, "1") ELSE Read("1"),
      Ask(~o.full /\ ~o.one), Ask(~o.full), Ask(~o.full /\ o.tty)>>
EnvsAdd(o) ==
    <<Auth>> \o EnvsAddAsks(o) \o <<MayRefuse("1"), Write("1"), Wait(TRUE)>>
\* All options and nobody at the terminal: removed at once.  Otherwise with
\* one environment nothing happens, and an error still ends with code 0.
EnvsRemove(o) ==
    IF o.full /\ ~o.tty THEN <<Auth, Write("crash")>>
    ELSE <<Auth, Read("0"), Ask(~o.one), Sure(~o.one, "0"), WriteIf(~o.one, "0")>>

(***************************************************************************)
(* Secrets, functions, events, schema, machines.                           *)
(***************************************************************************)
SecretsOrg(o) ==
    <<Auth, IF o.full THEN Step("read", FALSE, "1") ELSE Read("1"), Ask(~o.full /\ ~o.one)>>
SecretsLs(o) == SecretsOrg(o) \o <<Read("1")>>
SecretsDelete(o) == SecretsOrg(o) \o <<Write("1")>>
SecretsSet(o) == SecretsOrg(o) \o <<Refuse(~o.full, "1"), Read("1"), Write("1")>>
FunctionsDelete(o) == <<Refuse(~o.full, "1"), Auth, Write("1")>>
\* The bundler's error is its result.
FunctionsSet(o) == <<Refuse(~o.full, "1"), Auth, Read("1"), Write("1")>>
\* Whatever goes wrong here is told and the code is 0.
Events(o) == <<Refuse(~o.full, "0"), AuthLater, Read("0"), Write("on")>>
Schema(o) == <<Refuse(~o.full, "1"), AuthLater, Read("1"), Auth, Write("1")>>
RestartMachine(o) ==
    <<Refuse(~o.full, "1"), Auth, Read("crash"), MayRefuse("1"),
      Sure(o.force, "0"), Write("crash")>>
Migrate(o) == <<Refuse(~o.full, "0"), AuthLater, Write("on")>>
DeployCommand(o) ==
    <<Auth, Read("1"), MayRefuse("1"), Read("1"), Ask(~o.full), Write("1"), Write("on")>>

(***************************************************************************)
(* Backups.                                                                *)
(***************************************************************************)
BackupMake == <<Auth, Write("1")>>
BackupList == <<Auth, Read("crash")>>
\* A name is needed without a terminal and refused with one.
BackupDownload(o) ==
    IF o.tty THEN <<Auth, Refuse(o.full, "1"), Read("crash"), Ask(TRUE), Read("1"), Write("1")>>
    ELSE <<Auth, Refuse(~o.full, "1"), Read("1"), Write("1")>>
\* These ask whoever is there, and do nothing unless the output is fancy.
BackupDelete(o) ==
    <<Auth, Refuse(~o.full, "0"), Read("crash"), Sure(o.out = "fancy", "1"),
      WriteIf(o.out = "fancy", "1")>>
BackupDeleteAll(o) ==
    <<Auth, Read("crash"), Sure(o.out = "fancy", "1"), WriteIf(o.out = "fancy", "crash")>>

(***************************************************************************)
(* API keys, templates, logs, applications, sessions.                      *)
(***************************************************************************)
ApiKeysLs == <<Auth, Read("1")>>
ApiKeysAdd(o) == <<Auth, Ask(~o.full), Write("1")>>
ApiKeysRemove(o) == <<Auth, Read("1"), Ask(~o.full), Write("1")>>
ApiKeysDownload(o) ==
    <<Auth, Refuse(~o.full /\ ~o.tty, "1"), Read("1"), Ask(~o.full), Read("1"), Write("1")>>
TemplatesLs == <<Read("1")>>
TemplatesInstall(o) == <<Read("1"), Ask(~o.full), MayRefuse("1"), Write("1")>>
Log(o) ==
    <<Auth, Refuse(o.out = "none" \/ (~o.tty /\ ~o.full), "1"), Read("1"),
      Ask(~o.full), Refuse(o.out # "fancy", "1"), Wait(TRUE)>>
BuildApp == <<Read("crash"), Write("crash")>>
Login(o) == <<Refuse(~o.tty, "1"), Read("1"), Write("1")>>
Logout == <<MayRefuse("1"), Write("1")>>

Program(c, o) ==
    CASE c = "services add" -> ServicesAdd(o)   [] c = "services ls" -> ServicesLs
      [] c = "services remove" -> ServicesRemove(o) [] c = "services scale" -> ServicesScale(o)
      [] c = "services restart" -> ServicesRestart(o) [] c = "services wait" -> ServicesWait
      [] c = "envs ls" -> EnvsLs                [] c = "envs add" -> EnvsAdd(o)
      [] c = "envs remove" -> EnvsRemove(o)     [] c = "secrets ls" -> SecretsLs(o)
      [] c = "secrets delete" -> SecretsDelete(o) [] c = "secrets set" -> SecretsSet(o)
      [] c = "functions delete" -> FunctionsDelete(o) [] c = "functions set" -> FunctionsSet(o)
      [] c = "events" -> Events(o)              [] c = "schema" -> Schema(o)
      [] c = "restart" -> RestartMachine(o)     [] c = "migrate" -> Migrate(o)
      [] c = "deploy" -> DeployCommand(o)       [] c = "backup make" -> BackupMake
      [] c = "backup list" -> BackupList        [] c = "backup download" -> BackupDownload(o)
      [] c = "backup delete" -> BackupDelete(o) [] c = "backup delete-all" -> BackupDeleteAll(o)
      [] c = "api-keys ls" -> ApiKeysLs         [] c = "api-keys add" -> ApiKeysAdd(o)
      [] c = "api-keys remove" -> ApiKeysRemove(o)
      [] c = "api-keys download" -> ApiKeysDownload(o)
      [] c = "templates ls" -> TemplatesLs      [] c = "templates install" -> TemplatesInstall(o)
      [] c = "log" -> Log(o)                    [] c = "build-app" -> BuildApp
      [] c = "login" -> Login(o)                [] c = "logout" -> Logout

Commands == {"services add", "services ls", "services remove", "services scale",
    "services restart", "services wait", "envs ls", "envs add", "envs remove",
    "secrets ls", "secrets delete", "secrets set", "functions delete", "functions set",
    "events", "schema", "restart", "migrate", "deploy", "backup make", "backup list",
    "backup download", "backup delete", "backup delete-all", "api-keys ls", "api-keys add",
    "api-keys remove", "api-keys download", "templates ls", "templates install", "log",
    "build-app", "login", "logout"}

\* The commands that remove something of the account.
Removing == {"services remove", "envs remove", "secrets delete", "functions delete",
             "backup delete", "backup delete-all", "api-keys remove", "restart"}
\* What these tell of an error they do not put into the exit code.
Lenient == {"envs ls", "envs remove", "events", "migrate", "deploy",
            "backup delete"}
-----------------------------------------------------------------------------
Idle == [cmd |-> "none", o |-> <<>>, left |-> <<>>, exit |-> "idle", valid |-> FALSE,
         failed |-> FALSE, sure |-> FALSE, gaveUp |-> FALSE, did |-> FALSE]

Init == cli = Idle

\* The command is started with its options.
Begin(c, o) ==
    /\ cli.exit = "idle"
    /\ cli' = [cli EXCEPT !.cmd = c, !.o = o, !.exit = "running", !.left = Program(c, o)]

AtStep == cli.exit = "running" /\ cli.left # <<>>
At(do) == AtStep /\ Head(cli.left).when /\ Head(cli.left).do = do
Go(c) == cli' = [c EXCEPT !.left = Tail(@)]
End(c, code) == cli' = [c EXCEPT !.exit = code, !.left = <<>>]
\* A step that failed: told, and the end of the process unless it is "on".
FailAndGo(code) == Go([cli EXCEPT !.failed = TRUE])  \* a mutant: told, nothing else
Fail(code) ==
    LET c == [cli EXCEPT !.failed = TRUE] IN IF code = "on" THEN Go(c) ELSE End(c, code)

\* The key, the saved token or a login by mail.  An API key that is refused
\* ends the command, a refused token does not: the next call fails.
KeyOk == cli.o.api /\ Go([cli EXCEPT !.valid = TRUE])
KeyRefused == cli.o.api /\ Fail("1")
Saved(good) == ~cli.o.api /\ Go([cli EXCEPT !.valid = good])
LoginOk == ~cli.o.api /\ cli.o.tty /\ Go([cli EXCEPT !.valid = TRUE])
LoginFails == ~cli.o.api /\ Fail("1")
NoEmail == ~cli.o.api /\ End([cli EXCEPT !.gaveUp = TRUE], "0")
CheckAuth ==
    /\ At("auth") \/ At("auth later")
    /\ KeyOk \/ KeyRefused \/ (\E good \in BOOLEAN : Saved(good))
       \/ LoginOk \/ LoginFails \/ NoEmail

\* What the options make unnecessary is left out.
PassOver == AtStep /\ ~Head(cli.left).when /\ Go(cli)

Refused == (At("refuse") \/ At("may refuse")) /\ Fail(Head(cli.left).bad)
NotRefused == At("may refuse") /\ Go(cli)

\* The prompt, or no terminal to ask on.
Answered == At("ask") /\ Go(cli)
NobodyThere == At("ask") /\ ~cli.o.tty /\ Fail("crash")

SaysYes == At("sure") /\ Go([cli EXCEPT !.sure = TRUE])
\* a mutant: the answer is not looked at
SaysNoIgnored == At("sure") /\ Go(cli)
SaysNo == At("sure") /\ End([cli EXCEPT !.gaveUp = TRUE], Head(cli.left).bad)

\* A call of the admin server, which wants to know who is calling, a build,
\* or a file.
Anonymous == {"templates ls", "templates install", "build-app", "login", "logout"}
Allowed == cli.valid \/ cli.cmd \in Anonymous
ReadOk == At("read") /\ Allowed /\ Go(cli)
WriteOk == At("write") /\ Allowed /\ Go([cli EXCEPT !.did = TRUE])
CallFails == (At("read") \/ At("write")) /\ Fail(Head(cli.left).bad)

\* Waiting for instances, or for logs until the user interrupts.
WaitOver == At("wait") /\ Allowed /\ Go(cli)
WaitFails == At("wait") /\ Fail(Head(cli.left).bad)

Finished == cli.exit = "running" /\ cli.left = <<>> /\ End(cli, "0")

Next ==
    \/ \E c \in Commands, o \in Options : Begin(c, o)
    \/ PassOver \/ CheckAuth \/ Refused \/ NotRefused \/ Answered \/ NobodyThere
    \/ SaysYes \/ SaysNo \/ ReadOk \/ WriteOk \/ CallFails
    \/ WaitOver \/ WaitFails \/ Finished

Spec == Init /\ [][Next]_cli
-----------------------------------------------------------------------------
(***************************************************************************)
(* Properties.                                                             *)
(***************************************************************************)
\* What is removed without a question: a secret, a function and an API key; a
\* service with --force; an environment for a script that gives every option;
\* and nothing of the database is lost when a restart is to keep it.
AtOnce(c) ==
    \/ c.cmd \in {"secrets delete", "functions delete", "api-keys remove"}
    \/ c.cmd = "services remove" /\ c.o.force
    \/ c.cmd = "envs remove" /\ c.o.full /\ ~c.o.tty
    \/ c.cmd = "restart" /\ ~c.o.force

\* Of the commands that remove something, exactly those that do it at once
\* have removed it although nobody has said that he is sure.
SureFirst == (cli.did /\ cli.cmd \in Removing) => (cli.sure <=> ~AtOnce(cli))

\* Code 0 means that no step failed, unless the user gave up: a script may go
\* by it, except for the commands that are lenient (an environment or a backup
\* is not removed, an event handler not deployed, and the code is 0).
SuccessIsTrue ==
    (cli.exit = "0" /\ ~cli.gaveUp /\ cli.cmd \notin Lenient) => ~cli.failed
=============================================================================
