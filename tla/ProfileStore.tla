---------------------------- MODULE ProfileStore ----------------------------
(***************************************************************************)
(* Profiles and their secrets: the controller (crates/core/src/app.rs) on  *)
(* the SQLite database (crates/config/src/db.rs) and the encrypted vault   *)
(* (crates/secrets), driven by the desktop's commands and by the command   *)
(* line, which are two processes on the same files.                        *)
(*                                                                         *)
(* A command is a sequence of operations.  One on the database is a step:  *)
(* it is a statement under the lock of the connection.  One on the vault   *)
(* is a load, and for a change the open, write and rename of persist.      *)
(* The desktop runs its plain commands on one thread ("gui"); the async    *)
(* fetch_zones runs beside it ("bg").  A process may be killed anywhere.   *)
(***************************************************************************)
EXTENDS Naturals, Sequences, FiniteSets

CONSTANTS
    Ids,         \* profile ids
    Refs,        \* secret references; Uuid::new_v4 never repeats one
    Hosts,       \* server addresses
    Actors,      \* a subset of {"gui", "bg", "cli"}
    MaxCommands, \* bound: commands that are run
    MaxCrashes   \* bound: times a process is killed

ASSUME StoreAssumption ==
    /\ IsFiniteSet(Ids) /\ IsFiniteSet(Refs)
    /\ Ids # {} /\ Hosts # {}
    /\ Actors \subseteq {"gui", "bg", "cli"}
    /\ "none" \notin Refs \cup Hosts
    /\ MaxCommands \in Nat /\ MaxCrashes \in Nat

None == "none"

\* A row of profiles, and no row
Row(h, p, l, z) == [live |-> TRUE, host |-> h, pw |-> p, link |-> l, zones |-> z]
NoRow == [live |-> FALSE, host |-> None, pw |-> None, link |-> None, zones |-> FALSE]

VARIABLES
    db,       \* profiles
    meta, settings,  \* the rows of meta and of app_settings
    vault,    \* secrets.bin: is it there, can it be decrypted, its entries
    tmp,      \* secrets.tmp
    ready,    \* the processes that have come through bootstrap
    prog,     \* the operations an actor has still to do
    id,       \* the profile of its command
    read,     \* the row it read
    mem,      \* the ConnectionConfig it works on
    vp,       \* the point it has reached in the vault
    buf,      \* the entries it is about to persist
    fd,       \* what its open file is by now: secrets.tmp or secrets.bin
    used,     \* the references given out
    commands, crashes,
    overlap,  \* two actors were changing the vault at the same time
    raced     \* a row was written that had changed since it was read

dbVars == <<db, meta, settings>>
files == <<vault, tmp>>
local == <<id, read, mem>>
vaultVars == <<vp, buf, fd>>
history == <<commands, crashes, overlap, raced>>
vars == <<db, meta, settings, vault, tmp, ready, prog, id, read, mem, vp, buf, fd, used,
          commands, crashes, overlap, raced>>

NoFile == [st |-> None, has |-> {}]
File(entries) == [st |-> "whole", has |-> entries]

SomeId == CHOOSE i \in Ids : TRUE

Init ==
    /\ db = [i \in Ids |-> NoRow]
    /\ meta = FALSE /\ settings = FALSE
    /\ vault = NoFile /\ tmp = NoFile
    /\ ready = {}
    /\ prog = [a \in Actors |-> <<>>]
    /\ id = [a \in Actors |-> SomeId]
    /\ read = [a \in Actors |-> NoRow]
    /\ mem = [a \in Actors |-> NoRow]
    /\ vp = [a \in Actors |-> "idle"]
    /\ buf = [a \in Actors |-> {}]
    /\ fd = [a \in Actors |-> None]
    /\ used = {}
    /\ commands = 0 /\ crashes = 0
    /\ overlap = FALSE /\ raced = FALSE

\* The actors of a's process
Process(a) == IF a = "cli" THEN {"cli"} ELSE Actors \ {"cli"}

-----------------------------------------------------------------------------
(* The commands.                                                           *)

\* AppController::bootstrap: migrate, then the vault file if it is not there
Bootstrap == <<"version", "meta", "settings", "vault">>

AddSsh == <<"build", "put_pw", "save">>
AddSs == <<"build", "put_pw", "save">>
AddVless == <<"build", "save">>
ImportText == <<"build", "put_pw", "save">>
ImportSmartLink == <<"build", "put_link", "save_link">>
UpdateProfile == <<"get", "edit", "save">>
UpdatePassword == UpdateProfile \o <<"get", "set_pw", "save">>

\* Mutant of DeleteProfile: the secret goes first.
DeleteSecretFirst == <<"get", "drop_link", "delete">>

DeleteProfile == <<"get", "delete", "drop_link">>

\* Mutant of DuplicateProfile: the references are copied.
DuplicateRefs == <<"get", "copy", "save">>

\* duplicate_profile: part of the controller, with no front end yet
DuplicateProfile == <<"get", "copy", "clone_pw", "clone_link", "save">>
FetchZones == <<"get", "read_link", "await", "save">>
SetSelectedZone == <<"get", "save">>
Connect == <<"get", "read_settings">>

Commands(a) ==
    CASE a = "bg" -> {FetchZones, Connect}
      [] a = "gui" -> {AddSsh, AddVless, ImportSmartLink, UpdateProfile, UpdatePassword,
                       DeleteProfile, DuplicateProfile, SetSelectedZone, ImportText}
      [] a = "cli" -> {AddSs, AddVless, ImportSmartLink, DeleteProfile, FetchZones, SetSelectedZone}

At(a, op) == prog[a] # <<>> /\ Head(prog[a]) = op /\ vp[a] = "idle"

\* The operations ops are left, on profile i with row r read and m in memory;
\* at the end of a command its locals are dropped.
Continue(a, ops, i, r, m) ==
    /\ prog' = [prog EXCEPT ![a] = ops]
    /\ id' = [id EXCEPT ![a] = IF ops = <<>> THEN SomeId ELSE i]
    /\ read' = [read EXCEPT ![a] = IF ops = <<>> THEN NoRow ELSE r]
    /\ mem' = [mem EXCEPT ![a] = IF ops = <<>> THEN NoRow ELSE m]

AdvanceWith(a, m) == Continue(a, Tail(prog[a]), id[a], read[a], m)
Advance(a) == AdvanceWith(a, mem[a])
Abort(a) == Continue(a, <<>>, SomeId, NoRow, NoRow)

\* A process starts ...
Start(a) ==
    /\ a # "bg"
    /\ a \notin ready
    /\ prog[a] = <<>>
    /\ prog' = [prog EXCEPT ![a] = Bootstrap]
    /\ UNCHANGED <<dbVars, files, ready, local, vaultVars, used, history>>

\* ... and runs commands, each on one profile.
Begin(a, c, i) ==
    /\ a \in ready
    /\ prog[a] = <<>>
    /\ commands < MaxCommands
    /\ c \in Commands(a)
    /\ Continue(a, c, i, NoRow, NoRow)
    /\ commands' = commands + 1
    /\ UNCHANGED <<dbVars, files, ready, vaultVars, used, crashes, overlap, raced>>

-----------------------------------------------------------------------------
(* The database.                                                           *)

\* migrate: a database without a schema_version gets it, and then, in a
\* statement of its own, the default settings.  A process that finds the
\* version inserts nothing; one that lost the race for it fails.
MigrateVersion(a) ==
    /\ At(a, "version")
    /\ Continue(a, IF meta THEN <<"vault">> ELSE Tail(prog[a]), SomeId, NoRow, NoRow)
    /\ UNCHANGED <<dbVars, files, ready, vaultVars, used, history>>

MigrateMeta(a) ==
    /\ At(a, "meta")
    /\ meta' = TRUE
    /\ IF meta THEN Abort(a) ELSE Advance(a)
    /\ UNCHANGED <<db, settings, files, ready, vaultVars, used, history>>

\* Mutant of MigrateSettings: the row is taken to be there.
MigrateNoSettings(a) ==
    /\ At(a, "settings")
    /\ Advance(a)
    /\ UNCHANGED <<dbVars, files, ready, vaultVars, used, history>>

MigrateSettings(a) ==
    /\ At(a, "settings")
    /\ settings' = TRUE
    /\ Advance(a)
    /\ UNCHANGED <<db, meta, files, ready, vaultVars, used, history>>

\* get_profile: NotFound ends the command
GetProfile(a) ==
    /\ At(a, "get")
    /\ LET row == db[id[a]] IN
       IF row.live THEN Continue(a, Tail(prog[a]), id[a], row, row) ELSE Abort(a)
    /\ UNCHANGED <<dbVars, files, ready, vaultVars, used, history>>

\* get_settings
GetSettings(a) ==
    /\ At(a, "read_settings")
    /\ IF settings THEN Advance(a) ELSE Abort(a)
    /\ UNCHANGED <<dbVars, files, ready, vaultVars, used, history>>

\* Uuid::new_v4: an id that no row has and no command works on
NewId(a, i) == ~db[i].live /\ \A b \in Actors \ {a} : prog[b] = <<>> \/ id[b] # i

\* A new ConnectionConfig, for some host; an option that cannot be parsed ends
\* the command.
Build(a) ==
    /\ At(a, "build")
    /\ \/ NewId(a, id[a]) /\ AdvanceWith(a, Row(CHOOSE h \in Hosts : TRUE, None, None, FALSE))
       \/ Abort(a)
    /\ UNCHANGED <<dbVars, files, ready, vaultVars, used, history>>

\* The edited fields; another address drops the zones.
Edit(a) ==
    /\ At(a, "edit")
    /\ \/ \E h \in Hosts :
            AdvanceWith(a, [mem[a] EXCEPT !.host = h, !.zones = @ /\ mem[a].host = h])
       \/ Abort(a)
    /\ UNCHANGED <<dbVars, files, ready, vaultVars, used, history>>

\* duplicate_profile goes on with an id of its own.
Copy(a) ==
    /\ At(a, "copy")
    /\ \E i \in Ids : NewId(a, i) /\ Continue(a, Tail(prog[a]), i, NoRow, mem[a])
    /\ UNCHANGED <<dbVars, files, ready, vaultVars, used, history>>

\* The network answers: the zones are those of the reply.  Or it does not.
Await(a) ==
    /\ At(a, "await")
    /\ AdvanceWith(a, [mem[a] EXCEPT !.zones = TRUE]) \/ Abort(a)
    /\ UNCHANGED <<dbVars, files, ready, vaultVars, used, history>>

\* save_profile and upsert_profile: the whole row is written, or the profile
\* is not valid.  import_smart_link alone takes its secret back then.
Upsert(a) ==
    /\ At(a, "save") \/ At(a, "save_link")
    /\ \/ /\ db' = [db EXCEPT ![id[a]] = mem[a]]
          /\ raced' = (raced \/ db[id[a]] # read[a])
          /\ Advance(a)
       \/ /\ Continue(a, IF At(a, "save_link") THEN <<"drop_link">> ELSE <<>>, id[a], read[a], mem[a])
          /\ UNCHANGED <<db, raced>>
    /\ UNCHANGED <<meta, settings, files, ready, vaultVars, used, commands, crashes, overlap>>

\* DELETE; the command ends with NotFound when there is no row, and without
\* touching the vault when the profile has no Smart Config link.
DeleteRow(a) ==
    /\ At(a, "delete")
    /\ db' = [db EXCEPT ![id[a]] = NoRow]
    /\ IF db[id[a]].live /\ mem[a].link # None THEN Advance(a) ELSE Abort(a)
    /\ UNCHANGED <<meta, settings, files, ready, vaultVars, used, history>>

-----------------------------------------------------------------------------
(* The vault.                                                              *)

Fresh == CHOOSE r \in Refs : r \notin used

\* get_secret: the link of a profile, which only a Smart Config has
GetSecret(a) ==
    /\ At(a, "read_link")
    /\ IF mem[a].link # None /\ vault.st = "whole" /\ mem[a].link \in vault.has
       THEN Advance(a) ELSE Abort(a)
    /\ UNCHANGED <<dbVars, files, ready, vaultVars, used, history>>

\* What each operation leaves in the vault and in the profile.  clone_pw and
\* clone_link are skipped when there is nothing to clone.
NewPw(a) == At(a, "put_pw") \/ (At(a, "set_pw") /\ mem[a].pw = None) \/ At(a, "clone_pw")
NewLink(a) == At(a, "put_link") \/ At(a, "clone_link")
Source(a) == IF At(a, "clone_pw") THEN mem[a].pw ELSE mem[a].link
Cloning(a) == At(a, "clone_pw") \/ At(a, "clone_link")

Skip(a) ==
    /\ Cloning(a)
    /\ Source(a) = None
    /\ Advance(a)
    /\ UNCHANGED <<dbVars, files, ready, vaultVars, used, history>>

Changes(a) == prog[a] # <<>> /\ Head(prog[a]) \in
    {"put_pw", "set_pw", "put_link", "clone_pw", "clone_link", "drop_link"}

\* load, and the change in memory
Load(a) ==
    /\ Changes(a) /\ vp[a] = "idle"
    /\ Cloning(a) => Source(a) # None
    /\ NewPw(a) \/ NewLink(a) => Refs \ used # {}
    /\ IF vault.st = "whole" /\ (Cloning(a) => Source(a) \in vault.has)
       THEN /\ vp' = [vp EXCEPT ![a] = "loaded"]
            /\ used' = IF NewPw(a) \/ NewLink(a) THEN used \cup {Fresh} ELSE used
            /\ mem' = [mem EXCEPT ![a].pw = IF NewPw(a) THEN Fresh ELSE @,
                                  ![a].link = IF NewLink(a) THEN Fresh ELSE @]
            /\ buf' = [buf EXCEPT ![a] =
                         IF At(a, "drop_link") THEN vault.has \ {mem[a].link}
                         ELSE vault.has \cup {IF NewPw(a) \/ NewLink(a) THEN Fresh ELSE mem[a].pw}]
            /\ overlap' = (overlap \/ \E b \in Actors \ {a} : vp[b] # "idle")
            /\ UNCHANGED <<prog, id, read>>
       ELSE Abort(a) /\ UNCHANGED <<vp, used, buf, overlap>>
    /\ UNCHANGED <<dbVars, files, ready, fd, commands, crashes, raced>>

\* EncryptedFileStore::open: an empty vault if there is none
OpenVault(a) ==
    /\ At(a, "vault")
    /\ \/ /\ vault.st # None
          /\ ready' = ready \cup Process(a)
          /\ Advance(a)
          /\ UNCHANGED <<vp, buf, overlap>>
       \/ /\ vault.st = None
          /\ vp' = [vp EXCEPT ![a] = "loaded"]
          /\ buf' = [buf EXCEPT ![a] = {}]
          /\ overlap' = (overlap \/ \E b \in Actors \ {a} : vp[b] # "idle")
          /\ UNCHANGED <<ready, prog, local>>
    /\ UNCHANGED <<dbVars, files, fd, used, commands, crashes, raced>>

\* Mutant of OpenTmp: the vault itself is truncated and written.
OpenInPlace(a) ==
    /\ vp[a] = "loaded"
    /\ vp' = [vp EXCEPT ![a] = "opened"]
    /\ fd' = [fd EXCEPT ![a] = "bin"]
    /\ vault' = [st |-> "partial", has |-> {}]
    /\ tmp' = File({})
    /\ UNCHANGED <<dbVars, ready, prog, local, buf, used, history>>

\* persist: secrets.tmp is created or truncated ...
OpenTmp(a) ==
    /\ vp[a] = "loaded"
    /\ vp' = [vp EXCEPT ![a] = "opened"]
    /\ fd' = [fd EXCEPT ![a] = "tmp"]
    /\ tmp' = [st |-> "partial", has |-> {}]
    /\ UNCHANGED <<dbVars, vault, ready, prog, local, buf, used, history>>

\* ... written, wherever the file is by now: over what another one wrote the
\* result may be neither ...
Written(old, entries) ==
    IF old.st = "whole" THEN {File(entries), [st |-> "partial", has |-> {}]} ELSE {File(entries)}

WriteTmp(a) ==
    /\ vp[a] = "opened"
    /\ vp' = [vp EXCEPT ![a] = "written"]
    /\ \/ fd[a] = "tmp" /\ tmp' \in Written(tmp, buf[a]) /\ UNCHANGED vault
       \/ fd[a] = "bin" /\ vault' \in Written(vault, buf[a]) /\ UNCHANGED tmp
       \/ fd[a] = None /\ UNCHANGED files
    /\ UNCHANGED <<dbVars, ready, prog, local, buf, fd, used, history>>

\* ... and renamed over the vault.  Another actor's open secrets.tmp becomes
\* secrets.bin with it; without a secrets.tmp the rename fails.
Rename(a) ==
    /\ vp[a] = "written"
    /\ vp' = [vp EXCEPT ![a] = "idle"]
    /\ buf' = [buf EXCEPT ![a] = {}]
    /\ IF tmp.st = None
       THEN Abort(a) /\ fd' = [fd EXCEPT ![a] = None] /\ UNCHANGED <<files, ready>>
       ELSE /\ vault' = tmp /\ tmp' = NoFile
            /\ fd' = [b \in Actors |-> IF b # a /\ fd[b] = "tmp" THEN "bin" ELSE None]
            /\ ready' = IF Head(prog[a]) = "vault" THEN ready \cup Process(a) ELSE ready
            /\ Advance(a)
    /\ UNCHANGED <<dbVars, used, history>>

\* A process is killed: its files are closed as they are.
Crash(a) ==
    LET Kill(f, z) == [b \in Actors |-> IF b \in Process(a) THEN z ELSE f[b]] IN
    /\ a # "bg"
    /\ crashes < MaxCrashes
    /\ crashes' = crashes + 1
    /\ ready' = ready \ Process(a)
    /\ prog' = Kill(prog, <<>>) /\ id' = Kill(id, SomeId)
    /\ read' = Kill(read, NoRow) /\ mem' = Kill(mem, NoRow)
    /\ vp' = Kill(vp, "idle") /\ buf' = Kill(buf, {}) /\ fd' = Kill(fd, None)
    /\ UNCHANGED <<dbVars, files, used, commands, overlap, raced>>

Step(a) ==
    \/ MigrateVersion(a) \/ MigrateMeta(a) \/ MigrateSettings(a) \/ GetProfile(a) \/ GetSettings(a)
    \/ Build(a) \/ Edit(a) \/ Copy(a) \/ Await(a) \/ Upsert(a) \/ DeleteRow(a)
    \/ GetSecret(a) \/ Skip(a) \/ Load(a) \/ OpenVault(a) \/ OpenTmp(a) \/ WriteTmp(a) \/ Rename(a)

Next ==
    \E a \in Actors :
      \/ Start(a) \/ Step(a) \/ Crash(a)
      \/ \E c \in Commands(a), i \in Ids : Begin(a, c, i)

Spec == Init /\ [][Next]_vars

-----------------------------------------------------------------------------
(* Properties.                                                             *)

RefsOf(row) == {row.pw, row.link} \ {None}

\* Killed at any point of persist, a process leaves a vault that can be read:
\* the one before the change or the one after it.  Only two actors that change
\* the vault at the same time can spoil it, through the one secrets.tmp.
VaultIsWhole == ~overlap => vault.st # "partial"

\* Every reference in the database leads to a secret, wherever a process was
\* killed: the secret is stored before the row that names it and deleted
\* after it.  Only overlapping changes of the vault, which lose an entry, and
\* a row written back after its profile was deleted break it.
RefsResolve ==
    ~overlap /\ ~raced => \A i \in Ids : RefsOf(db[i]) \subseteq vault.has

\* app.rs:84: "Do not copy secret refs blindly onto a new profile without
\* cloning vault entries."  No two profiles name the same secret, whatever is
\* written back late, so deleting one leaves the other's.
SecretsAreNotShared ==
    \A i, j \in Ids : i # j => RefsOf(db[i]) \cap RefsOf(db[j]) = {}

\* What a process that has started finds: a vault, a schema and, unless some
\* process was killed or is still at it, the settings that connect reads.
StartedIsComplete ==
    ready # {} => /\ vault.st # None
                  /\ meta
                  /\ settings \/ crashes > 0 \/ \E a \in Actors \ ready : prog[a] # <<>>
=============================================================================
