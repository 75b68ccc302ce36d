------------------------------ MODULE SpawnTask ------------------------------
(***************************************************************************)
(* Asynchronous processes (io/procops.c): a task of the event loop with a  *)
(* process and the pipes of its stdout and stderr, which are read each for *)
(* itself ("spawn") or merged ("merge").  A pipe is read only as long as   *)
(* there are permits; a negative number permits without limit.  The task   *)
(* stays active until the process has exited and its pipes are closed.     *)
(* Writing to the process is left out.                                     *)
(***************************************************************************)
EXTENDS AsyncTask

VARIABLES
    pipe,           \* task -> channel -> the libuv pipe
    reading,        \* task -> channel -> reading_stdout, reading_stderr
    permit,         \* task -> permit_merge (0), permit_stdout, permit_stderr
    using           \* task -> what still needs the active work

spawnVars == <<pipe, reading, permit, using>>

Spawns(t) == kind[t] \in {"spawn", "merge"}

SpawnInit ==
    /\ pipe = [t \in Tasks |-> [c \in Channels |-> "none"]]
    /\ reading = [t \in Tasks |-> [c \in Channels |-> FALSE]]
    /\ permit = [t \in Tasks |-> [c \in 0 .. 2 |-> 0]]
    /\ using = [t \in Tasks |-> 0]

(* The sets of channels that may have a pipe: both when they are merged,   *)
(* otherwise those with a callback for their bytes.  A pseudo terminal has *)
(* stdout only, or nothing when making it fails.                           *)
PipeChoices(t) == IF kind[t] = "merge" THEN {Channels} ELSE SUBSET Channels

(* The process counts, and every pipe.                                     *)
UseCount(piped) == 1 + Cardinality(piped)

(* spawn_setup.  When the process does not start, the pipes exist but are  *)
(* never opened.                                                           *)
spawn_setup(t) ==
    /\ \E piped \in PipeChoices(t) :
         LET Made(s) == [c \in Channels |-> IF c \in piped THEN s ELSE "none"] IN
         /\ using' = [using EXCEPT ![t] = UseCount(piped)]
         /\ \/ /\ add_active_work(t) /\ HandleTo(t, "started")
               /\ pipe' = [pipe EXCEPT ![t] = Made("idle")]
            \/ /\ add_and_remove(t) /\ HandleTo(t, "closed")
               /\ pipe' = [pipe EXCEPT ![t] = Made("unopened")]
    /\ UNCHANGED <<reading, permit, notified, late, panic>>

-----------------------------------------------------------------------------
NewPermit(old, n) == IF n < 0 THEN -1 ELSE IF old < 0 THEN n ELSE old + n

(* uv_read_start and uv_read_stop; a closed pipe stays closed.             *)
uv_read_start(s) == IF s = "idle" THEN "reading" ELSE s
uv_read_stop(s) == IF s = "reading" THEN "idle" ELSE s

(* The pipes that channel c of a permit is about, and the one whose        *)
(* reading flag is looked at.                                              *)
PipesOf(c) == IF c = 0 THEN Channels ELSE {c}
FlagOf(c) == IF c = 0 THEN 1 ELSE c

(* Does the process have channel c, or is the permit ignored?              *)
HasChannel(t, c) == (c = 0) = (kind[t] = "merge") /\ \A p \in PipesOf(c) : pipe[t][p] # "none"

spawn_permit(t, c, n) ==
    LET now == NewPermit(permit[t][c], n)
        starts == ~reading[t][FlagOf(c)] /\ now # 0
        stops  == reading[t][FlagOf(c)] /\ now = 0
    IN
    IF work_idx[t] < 0 \/ ~HasChannel(t, c)
    THEN UNCHANGED <<permit, reading, pipe>>
    ELSE /\ permit' = [permit EXCEPT ![t][c] = now]
         /\ reading' = [reading EXCEPT ![t] =
              [p \in Channels |-> IF p \in PipesOf(c) /\ (starts \/ stops) THEN starts ELSE @[p]]]
         /\ pipe' = [pipe EXCEPT ![t] =
              [p \in Channels |-> IF p \notin PipesOf(c) THEN @[p]
                                  ELSE IF starts THEN uv_read_start(@[p])
                                  ELSE IF stops THEN uv_read_stop(@[p]) ELSE @[p]]]

-----------------------------------------------------------------------------
(* --si->using == 0 removes the active work.                               *)
Release(t) ==
    /\ using' = [using EXCEPT ![t] = @ - 1]
    /\ IF using[t] = 1 THEN remove_active_work(t) ELSE KeepActive

(* async_spawn_on_exit.                                                    *)
async_spawn_on_exit(t) ==
    /\ Spawns(t) /\ handle[t] = "started"
    /\ Lookup(t) /\ Release(t)
    /\ HandleTo(t, "closed")
    /\ UNCHANGED <<kind, state, notify, notified, cancelled, late, pipe, reading,
                   permit>>

PermitOf(t, c) == IF kind[t] = "merge" THEN 0 ELSE c

(* Mutant: the last permit does not stop the reading.                      *)
RunsOutNever(n) == FALSE
RunsOut(n) == n = 1

(* async_read with data.                                                   *)
async_read(t, c) ==
    LET n == permit[t][PermitOf(t, c)] IN
    /\ pipe[t][c] = "reading"
    /\ Lookup(t)
    /\ permit' = [permit EXCEPT ![t][PermitOf(t, c)] = IF n > 0 THEN n - 1 ELSE n]
    /\ IF RunsOut(n)
       THEN /\ pipe' = [pipe EXCEPT ![t][c] = uv_read_stop(@)]
            /\ reading' = [reading EXCEPT ![t][c] = FALSE]
       ELSE UNCHANGED <<pipe, reading>>
    /\ KeepActive /\ UNCHANGED <<kind, state, handle, notify, notified, cancelled, late,
                                 using>>

(* async_read at the end of the stream or with an error.                   *)
async_read_end(t, c) ==
    /\ pipe[t][c] = "reading"
    /\ Lookup(t) /\ Release(t)
    /\ pipe' = [pipe EXCEPT ![t][c] = "closed"]
    /\ UNCHANGED <<kind, state, handle, notify, notified, cancelled, late, reading, permit>>
=============================================================================
