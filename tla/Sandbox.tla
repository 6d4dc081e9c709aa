------------------------------ MODULE Sandbox ------------------------------
(***************************************************************************)
(* One normalisation: the launcher scripts/media_sandbox.py, the container *)
(* it starts, which runs scripts/media_validator.py, and the Docker daemon *)
(* between them.  The launcher follows the container through docker logs   *)
(* and docker inspect, which look at two different moments.  The container *)
(* is trusted with nothing: it may misbehave (honest = FALSE), be killed   *)
(* at any time, and each docker command may fail or run into the deadline. *)
(***************************************************************************)
EXTENDS Formats

CONSTANTS
    Samples,    \* inputs within LIMITS, per category
    Products,   \* what may be left in /output, per category
    Bounded,    \* the files the check of the output is examined on
    None,
    MaxFaults   \* bound on failing docker commands

ASSUME SandboxAssumption ==
    /\ MaxFaults \in Nat
    /\ DOMAIN Samples = {"image", "audio"} /\ DOMAIN Products = {"image", "audio"}
    /\ DOMAIN Bounded = {"image", "audio"}
    /\ \A c \in {"image", "audio"} :
          /\ Products[c] \subseteq Output(c) /\ Bounded[c] \subseteq Output(c)
          /\ None \notin Products[c] \cup [ok : BOOLEAN, of : Products[c] \cup {None}]

VARIABLES
    category, input,
    honest,     \* the decoder does what media_validator.py says
    container,  \* absent, creating, running, exited
    printed,    \* its log: nothing, a rejection or a report of a file
    file,       \* what it has in /output
    step,       \* the launcher's next command
    late,       \* the launcher's ten seconds are over
    outcome,    \* what normalize_isolated returns or raises
    faults      \* failed commands so far

decoder == <<printed, file>>
vars == <<category, input, honest, container, printed, file, step, late, outcome, faults>>

Files == Products[category]

Rejection == [ok |-> FALSE, of |-> None]
Report(f) == [ok |-> TRUE, of |-> f]

Steps == {"run", "logs", "inspect", "again", "exec", "remove", "done"}

SandboxTypeOK ==
    /\ category \in {"image", "audio"} /\ input \in Samples[category]
    /\ honest \in BOOLEAN
    /\ container \in {"absent", "creating", "running", "exited"}
    /\ printed \in {None, Rejection} \cup {Report(f) : f \in Files \cup {None}}
    /\ file \in Files \cup {None}
    /\ step \in Steps
    /\ late \in BOOLEAN
    /\ outcome \in {"none", "ready", "rejected", "exited", "failed", "unclean"}
    /\ faults \in 0..MaxFaults

Init ==
    /\ category \in {"image", "audio"} /\ input \in Samples[category]
    /\ honest \in BOOLEAN
    /\ container = "absent"
    /\ printed = None
    /\ file = None
    /\ step = "run"
    /\ late = FALSE
    /\ outcome = "none"
    /\ faults = 0

-----------------------------------------------------------------------------
(* The container *)

Decoder == UNCHANGED <<category, input, honest, step, late, outcome, faults>>

\* normalize: hash, inspection, FFprobe, FFmpeg, for audio the samples written
\* anew, all of which leave f, and its own check of it.  A rejection is printed
\* first and the process exits then.
Decode(f) ==
    /\ container = "running" /\ printed = None
    /\ Static(input)
    /\ file' = f
    /\ printed' = IF ValidOutput(category, f) THEN Report(f) ELSE Rejection
    /\ UNCHANGED container
    /\ Decoder

\* The input is refused, FFmpeg fails or takes longer than nine seconds.
Reject ==
    /\ container = "running" /\ printed = None
    /\ printed' = Rejection
    /\ UNCHANGED <<container, file>>
    /\ Decoder

\* It reports, unchecked, the file it has or another one.
Misbehave(f) ==
    /\ ~honest
    /\ container = "running" /\ printed = None
    /\ file' = f
    /\ printed' \in {Report(f), Report(None)}
    /\ UNCHANGED container
    /\ Decoder

\* After a rejection, or when it is killed.  A report is followed by --hold.
Exit ==
    /\ container = "running"
    /\ container' = "exited"
    /\ UNCHANGED decoder
    /\ Decoder

\* The daemon carries out a docker run whose client has gone.
Appear ==
    /\ container = "creating"
    /\ container' = "running"
    /\ UNCHANGED decoder
    /\ Decoder

-----------------------------------------------------------------------------
(* The launcher *)

Launcher == UNCHANGED <<category, input, honest, decoder, late>>

\* Mutant: the deadline is not looked at between two commands.
CommandAnytime(s) == step = s

Command(s) == step = s /\ ~late

Goto(s) == step' = s /\ UNCHANGED <<outcome, faults, container>>

Leave(verdict) ==
    /\ outcome' = verdict
    /\ step' = "remove"
    /\ UNCHANGED <<faults, container>>

Run ==
    /\ Command("run")
    /\ container' = "running"
    /\ step' = "logs"
    /\ UNCHANGED <<outcome, faults>>
    /\ Launcher

Read == IF printed.ok THEN Goto("exec") ELSE Leave("rejected")

Logs ==
    /\ Command("logs")
    /\ IF printed = None THEN Goto("inspect") ELSE Read
    /\ Launcher

\* Mutant: a container that has stopped is not asked for its log again.
InspectLast ==
    /\ Command("inspect")
    /\ IF container = "running" THEN Goto("logs") ELSE Leave("exited")
    /\ Launcher

Inspect ==
    /\ Command("inspect")
    /\ IF container = "running" THEN Goto("logs") ELSE Goto("again")
    /\ Launcher

\* The decoder may have printed its rejection between logs and inspect.
LogsAgain ==
    /\ Command("again")
    /\ IF printed = None THEN Leave("exited") ELSE Read
    /\ Launcher

\* --read-output prints a file within LIMITS, and docker() takes no more.
Fetched == container = "running" /\ file # None /\ file.size \in 1..Limits[category]

\* Mutant: the report is believed.
ExecTrusting ==
    /\ Command("exec")
    /\ IF Fetched /\ ValidOutput(category, file) THEN Leave("ready") ELSE Leave("failed")
    /\ Launcher

\* The output is read from the container, checked here, and compared with the
\* report.
Exec ==
    /\ Command("exec")
    /\ IF Fetched /\ ValidOutput(category, file) /\ printed = Report(file)
       THEN Leave("ready") ELSE Leave("failed")
    /\ Launcher

\* A command fails, or the deadline passes before or during it; a docker run
\* may have had its effect, or have it later.
CommandFails ==
    /\ step \notin {"remove", "done"}
    /\ late \/ faults < MaxFaults
    /\ faults' = IF late THEN faults ELSE faults + 1
    /\ outcome' = "failed"
    /\ step' = "remove"
    /\ container' \in IF step = "run" THEN {"absent", "creating", "running"} ELSE {container}
    /\ Launcher

\* docker rm --force, whatever has happened; its failure is the outcome.
RemoveContainer ==
    /\ step = "remove"
    /\ step' = "done"
    /\ \/ /\ container' = IF container = "creating" THEN container ELSE "absent"
          /\ UNCHANGED <<outcome, faults>>
       \/ /\ faults < MaxFaults
          /\ faults' = faults + 1
          /\ outcome' = "unclean"
          /\ UNCHANGED container
    /\ Launcher

Deadline ==
    /\ ~late /\ step # "done"
    /\ late' = TRUE
    /\ UNCHANGED <<category, input, honest, container, decoder, step, outcome, faults>>

Launch == Run \/ Logs \/ Inspect \/ LogsAgain \/ Exec \/ CommandFails \/ RemoveContainer

Next ==
    \/ \E f \in Files : Decode(f) \/ Misbehave(f)
    \/ Reject
    \/ Exit
    \/ Appear
    \/ Launch
    \/ Deadline

Spec == Init /\ [][Next]_vars

\* The launcher goes on and time passes; of the container nothing is assumed.
FairSpec == Spec /\ WF_vars(Launch) /\ WF_vars(Deadline)

-----------------------------------------------------------------------------

\* What validate_output accepts is exactly the canonical files within LIMITS:
\* step by step it finds what a description of the whole file says, down to the
\* size and the length the RIFF header states (media_validator.py:31-104).  It
\* is about the check alone, so it is examined where a launcher starts.
CheckIsExact ==
    step = "run" => \A c \in DOMAIN Bounded : \A f \in Bounded[c] :
                         ValidOutput(c, f) <=> WellFormed(c, f)

\* A result is a canonical file within LIMITS, the one that was reported,
\* whatever ran in the container, and no container is left behind
\* (media_sandbox.py:63-78).
ResultIsSound ==
    step = "done" /\ outcome = "ready" =>
        /\ WellFormed(category, file)
        /\ printed = Report(file)
        /\ container = "absent"

\* A decoder that has said something is never taken for one that died silently,
\* although its log and its state are read one after the other
\* (media_sandbox.py:50-62; "the decoder can publish its rejection between logs
\* and inspect").
VerdictNotLost ==
    /\ outcome = "exited" => printed = None
    /\ outcome = "rejected" => printed = Rejection

\* The launcher ends, also with a container that never says anything
\* (media_sandbox.py:29-34, 50-62).
LauncherEnds == <>(step = "done")
=============================================================================
