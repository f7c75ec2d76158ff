--------------------------- MODULE SessionLibrary ---------------------------
(***************************************************************************)
(* The two stores behind a saved SSH session: sessions.json                *)
(* (kernel/session_store.rs, from write_library on) and the credential     *)
(* store (security/credential_store.rs), with the commands that change     *)
(* both (commands.rs, plugins/ssh/application.rs, plugins/ssh/commands.rs).*)
(*                                                                         *)
(* A save writes the library, then the credential, and puts the library    *)
(* back when the credential cannot be written; a delete likewise.  Library *)
(* commands hold SESSIONS_FILE_MUTEX from the read of the file to the end; *)
(* the commit of a connection does not, and load_sessions lets it go       *)
(* between its read and its write.  In the native keyring a credential is  *)
(* a secret and an entry of an index; in the vault it is one map, read and *)
(* written back as a whole.  An entry is its authentication method, its    *)
(* name and whether secrets of an old version are still in it.             *)
(***************************************************************************)
EXTENDS Naturals, FiniteSets

CONSTANTS Session,      \* session ids
          Command,      \* commands of a run, each issued at most once (bound of the model)
          MaxFaults,    \* failing writes, and crashes (bound of the model)
          None          \* no entry

VARIABLES backend,      \* "native" or "vault"
          unlocked,     \* the vault's key is in memory
          file,         \* sessions.json: [Session -> entry or None]
          secret,       \* [Session -> "none", "password" or "key"]
          index,        \* the index of the native keyring
          lock,         \* holder of SESSIONS_FILE_MUTEX, or None
          cmd,          \* [Command -> progress of the command]
          faults

slvars == <<backend, unlocked, file, secret, index, lock, cmd, faults>>

Auth == {"password", "key"}
Entry == [auth : Auth, name : {1, 2}, plain : BOOLEAN]

Quiet == [op |-> "none", pc |-> "idle", s |-> None, auth |-> "none", fresh |-> FALSE,
          old |-> None, was |-> "none", map |-> None, ix |-> {},
          from |-> None, had |-> "none", raced |-> FALSE, broken |-> FALSE]

Init ==
    /\ backend \in {"native", "vault"} /\ unlocked = FALSE
    /\ \E plain \in BOOLEAN : \E s \in Session :
          /\ file = [x \in Session |-> IF x = s THEN [auth |-> "password", name |-> 1, plain |-> plain] ELSE None]
          /\ secret = [x \in Session |-> IF x = s THEN "password" ELSE "none"]
          /\ index = {s}
    /\ lock = None /\ faults = 0
    /\ cmd = [c \in Command |-> Quiet]

Ended == [Quiet EXCEPT !.pc = "ended"]
Busy(c) == cmd[c].pc \notin {"idle", "ended"}

Fails == faults < MaxFaults /\ faults' = faults + 1
Works == UNCHANGED faults

(* The next state of command c is k; a command whose session another       *)
(* command changed meanwhile has been raced.                               *)
Becomes(c, k) ==
    cmd' = [d \in Command |->
        IF d = c THEN k
        ELSE IF Busy(d) /\ (file'[cmd[d].s] # file[cmd[d].s] \/ secret'[cmd[d].s] # secret[cmd[d].s])
             THEN [cmd[d] EXCEPT !.raced = TRUE] ELSE cmd[d]]

Goes(c, pc) == Becomes(c, [cmd[c] EXCEPT !.pc = pc])

(* The answer of a command; what it had read no longer matters.            *)
Answer(c, pc, broken) == [cmd[c] EXCEPT !.pc = pc, !.broken = @ \/ broken,
                                        !.old = None, !.was = "none", !.map = None, !.ix = {}]

Begin(c, s, op, auth, fresh, pc) ==
    /\ cmd[c].pc = "idle"
    /\ cmd' = [cmd EXCEPT ![c] = [Quiet EXCEPT !.op = op, !.pc = pc, !.s = s, !.auth = auth, !.fresh = fresh,
                                               !.from = file[s], !.had = secret[s]]]

------------------------------------------------------------------------------
(* Commands *)

(* prepare_session_params: a new secret is only kept for the commit; with  *)
(* none, the stored one must exist and fit.  This is before any lock.      *)
Fits(s, auth) == secret[s] = auth /\ (backend = "vault" => unlocked)

SaveSession(c, s, auth, fresh) ==
    /\ fresh \/ Fits(s, auth)
    /\ Begin(c, s, "save", auth, fresh, "write")
    /\ UNCHANGED <<backend, unlocked, file, secret, index, lock, faults>>

(* connect_session of SSH: the credential is committed once the connection *)
(* stands, without the library's lock.                                     *)
ConnectSession(c, s, auth) ==
    /\ Begin(c, s, "connect", auth, TRUE, "commit")
    /\ UNCHANGED <<backend, unlocked, file, secret, index, lock, faults>>

DeleteSession(c, s) ==
    /\ Begin(c, s, "delete", "none", FALSE, "write")
    /\ UNCHANGED <<backend, unlocked, file, secret, index, lock, faults>>

(* rename_session: its second step, the running session, does not fail.    *)
RenameSession(c, s) ==
    /\ cmd[c].pc = "idle" /\ lock = None /\ file[s] # None
    /\ file' = [file EXCEPT ![s].name = 3 - @] /\ UNCHANGED secret
    /\ Becomes(c, Ended)
    /\ UNCHANGED <<backend, unlocked, index, lock, faults>>

(* load_sessions reads, and if sanitize_saved_session found secrets in an  *)
(* entry, writes the cleaned entries back in a step of its own.            *)
LoadSessions(c, s) ==
    /\ lock = None /\ \E x \in Session : file[x] # None /\ file[x].plain
    /\ cmd[c].pc = "idle"
    /\ cmd' = [cmd EXCEPT ![c] = [Quiet EXCEPT !.op = "load", !.pc = "replace", !.s = s, !.from = file[s], !.had = secret[s],
           !.old = [x \in Session |-> IF file[x] = None THEN None ELSE [file[x] EXCEPT !.plain = FALSE]]]]
    /\ UNCHANGED <<backend, unlocked, file, secret, index, lock, faults>>

ReplaceSaved(c) ==
    /\ cmd[c].pc = "replace" /\ lock = None
    /\ \/ Works /\ file' = cmd[c].old
       \/ Fails /\ UNCHANGED file
    /\ UNCHANGED secret
    /\ Becomes(c, Ended)
    /\ UNCHANGED <<backend, unlocked, index, lock>>

UnlockVault == backend = "vault" /\ ~unlocked /\ unlocked' = TRUE
               /\ UNCHANGED <<backend, file, secret, index, lock, cmd, faults>>
LockVault == unlocked /\ unlocked' = FALSE /\ UNCHANGED <<backend, file, secret, index, lock, cmd, faults>>

------------------------------------------------------------------------------
(* save_config_to_disk_transactional, delete_config_from_disk_transactional *)

(* The library with the change applied.                                    *)
Changed(c) ==
    [file EXCEPT ![cmd[c].s] = IF cmd[c].op = "delete" THEN None
                               ELSE [auth |-> cmd[c].auth, name |-> 1, plain |-> FALSE]]

(* The second step is the credential: for a save with a new secret, for a  *)
(* delete of a session that was there.                                     *)
NeedsCommit(c) == IF cmd[c].op = "delete" THEN file[cmd[c].s] # None ELSE cmd[c].fresh

WriteLibrary(c) ==
    /\ cmd[c].pc = "write" /\ lock = None
    /\ UNCHANGED secret
    /\ \/ /\ Works /\ file' = Changed(c)
          /\ Becomes(c, IF NeedsCommit(c) THEN [cmd[c] EXCEPT !.old = file, !.pc = "commit"] ELSE Answer(c, "ok", FALSE))
          /\ lock' = IF NeedsCommit(c) THEN c ELSE None
       \/ Fails /\ UNCHANGED <<file, lock>> /\ Becomes(c, Answer(c, "err", FALSE))
    /\ UNCHANGED <<backend, unlocked, index>>

(* The commit's result: on an error the library is put back.               *)
Committed(c) == Becomes(c, Answer(c, "ok", FALSE)) /\ lock' = (IF lock = c THEN None ELSE lock)
CommitFailed(c, broken) ==
    /\ Becomes(c, IF lock = c THEN [cmd[c] EXCEPT !.broken = @ \/ broken, !.pc = "rollback"] ELSE Answer(c, "err", broken))
    /\ UNCHANGED lock

RollBack_Forgotten(c) ==
    /\ cmd[c].pc = "rollback"
    /\ UNCHANGED <<file, secret>> /\ Works /\ Becomes(c, Answer(c, "err", FALSE))
    /\ lock' = None
    /\ UNCHANGED <<backend, unlocked, index>>
RollBack(c) ==
    /\ cmd[c].pc = "rollback"
    /\ UNCHANGED secret
    /\ \/ Works /\ file' = cmd[c].old /\ Becomes(c, Answer(c, "err", FALSE))
       \/ Fails /\ UNCHANGED file /\ Becomes(c, Answer(c, "err", TRUE))
    /\ lock' = None
    /\ UNCHANGED <<backend, unlocked, index>>

------------------------------------------------------------------------------
(* store_credential and delete_credential *)

NewSecret(c) == IF cmd[c].op = "delete" THEN "none" ELSE cmd[c].auth
NewIndex(c) == IF cmd[c].op = "delete" THEN cmd[c].ix \ {cmd[c].s} ELSE cmd[c].ix \cup {cmd[c].s}

(* native_get and read_index; with_map_mut's read, which needs the key.    *)
ReadCredentials(c) ==
    /\ cmd[c].pc = "commit"
    /\ UNCHANGED <<file, secret>>
    /\ \/ /\ backend = "native" /\ Works /\ UNCHANGED lock
          /\ Becomes(c, [cmd[c] EXCEPT !.pc = "secret", !.was = secret[cmd[c].s], !.ix = index])
       \/ /\ backend = "vault" /\ unlocked /\ Works /\ UNCHANGED lock
          /\ Becomes(c, [cmd[c] EXCEPT !.pc = "vault", !.map = secret])
       \/ (IF backend = "vault" /\ ~unlocked THEN Works ELSE Fails) /\ CommitFailed(c, FALSE)
    /\ UNCHANGED <<backend, unlocked, index>>

(* write_map: the whole map is encrypted and replaced.                     *)
WriteVault(c) ==
    /\ cmd[c].pc = "vault" /\ UNCHANGED file
    /\ \/ Works /\ secret' = [cmd[c].map EXCEPT ![cmd[c].s] = NewSecret(c)] /\ Committed(c)
       \/ Fails /\ UNCHANGED secret /\ CommitFailed(c, FALSE)
    /\ UNCHANGED <<backend, unlocked, index>>

(* native_store, delete_credential: the secret, then the index if that     *)
(* changes.                                                                *)
WriteSecret(c) ==
    /\ cmd[c].pc = "secret" /\ UNCHANGED file
    /\ \/ /\ Works /\ secret' = [secret EXCEPT ![cmd[c].s] = NewSecret(c)]
          /\ IF NewIndex(c) = cmd[c].ix THEN Committed(c) ELSE Goes(c, "index") /\ UNCHANGED lock
       \/ Fails /\ UNCHANGED secret /\ CommitFailed(c, FALSE)
    /\ UNCHANGED <<backend, unlocked, index>>

WriteIndex(c) ==
    /\ cmd[c].pc = "index" /\ UNCHANGED <<file, secret>>
    /\ \/ Works /\ index' = NewIndex(c) /\ Committed(c)
       \/ Fails /\ UNCHANGED <<index, lock>> /\ Goes(c, "restore")
    /\ UNCHANGED <<backend, unlocked>>

(* restore_native_state: both are tried whatever becomes of the other.     *)
RestoreSecret(c) ==
    /\ cmd[c].pc = "restore" /\ UNCHANGED file
    /\ \/ Works /\ secret' = [secret EXCEPT ![cmd[c].s] = cmd[c].was] /\ Goes(c, "reindex")
       \/ Fails /\ UNCHANGED secret /\ Becomes(c, [cmd[c] EXCEPT !.pc = "reindex", !.broken = TRUE])
    /\ UNCHANGED <<backend, unlocked, index, lock>>

RestoreIndex(c) ==
    /\ cmd[c].pc = "reindex" /\ UNCHANGED <<file, secret>>
    /\ \/ Works /\ index' = cmd[c].ix /\ CommitFailed(c, FALSE)
       \/ Fails /\ UNCHANGED index /\ CommitFailed(c, TRUE)
    /\ UNCHANGED <<backend, unlocked>>

(* The answer has been given.                                              *)
Return(c) ==
    /\ cmd[c].pc \in {"ok", "err"}
    /\ cmd' = [cmd EXCEPT ![c] = Ended]
    /\ UNCHANGED <<backend, unlocked, file, secret, index, lock, faults>>

(* The program ends in the middle of anything.  Both stores are written    *)
(* atomically (atomic_write).                                              *)
Crash ==
    /\ Fails /\ unlocked' = FALSE /\ lock' = None
    /\ cmd' = [c \in Command |-> IF Busy(c) THEN Ended ELSE cmd[c]]
    /\ UNCHANGED <<backend, file, secret, index>>

------------------------------------------------------------------------------
Runs(c) == WriteLibrary(c) \/ RollBack(c) \/ ReadCredentials(c) \/ WriteVault(c) \/ WriteSecret(c)
           \/ WriteIndex(c) \/ RestoreSecret(c) \/ RestoreIndex(c) \/ Return(c) \/ ReplaceSaved(c)

Progress == \E c \in Command : Runs(c)

Next ==
    \/ UnlockVault \/ LockVault \/ Crash
    \/ \E c \in Command :
          \/ Runs(c)
          \/ \E s \in Session :
                \/ DeleteSession(c, s) \/ RenameSession(c, s) \/ LoadSessions(c, s)
                \/ \E a \in Auth : ConnectSession(c, s, a) \/ \E fresh \in BOOLEAN : SaveSession(c, s, a, fresh)

------------------------------------------------------------------------------
(* Properties *)

(* All or nothing over two stores.  While a save runs, the credential is   *)
(* never ahead of the library, so a crash anywhere leaves at most a new    *)
(* entry with the old secret; a command that reports an error has left     *)
(* entry and secret as they were; a save or delete that reports success    *)
(* has changed both.  Not claimed where a step of the rollback itself      *)
(* failed, or another command changed the same session meanwhile.          *)
AllOrNothing ==
    \A c \in Command : LET k == cmd[c] IN
        (k.op \in {"save", "delete", "connect"} /\ ~k.raced /\ ~k.broken) =>
            /\ k.op = "save" /\ secret[k.s] # k.had => file[k.s] # None /\ file[k.s].auth = secret[k.s]
            /\ k.pc = "err" => file[k.s] = k.from /\ secret[k.s] = k.had
            /\ k.pc = "ok" /\ k.op = "save" => file[k.s] # None /\ file[k.s].auth = k.auth /\ secret[k.s] = k.auth
            /\ k.pc = "ok" /\ k.op = "delete" => file[k.s] = None /\ (k.from # None => secret[k.s] = "none")

(* Every command answers, whichever step fails and whoever holds the       *)
(* library's lock.                                                         *)
Awaited(c) == Busy(c)
Reached(c) == ~Busy(c)
=============================================================================
