------------------------------ MODULE Settings ------------------------------
(***************************************************************************)
(* The settings, the channels with their sealed credentials and the keys   *)
(* of callers as the database keeps them, the copies of them the gateway   *)
(* works with, and the handlers of administrators that change both.        *)
(*                                                                         *)
(* A handler writes rows, reads them back and stores what it read in       *)
(* memory: each is a step, no lock spans two of them, and any statement    *)
(* can fail, which ends the handler with what it has done so far.  A       *)
(* credential is sealed under the master key that is in memory when it is  *)
(* written and opened with the one in memory when it is read.              *)
(***************************************************************************)
EXTENDS Integers, Sequences, SequencesExt, FiniteSets

CONSTANTS
  Editors,       (* handlers of administrators that run at once             *)
  SettingValues, (* what a setting may be set to; 0 is its default          *)
  ChannelNames, Secrets, MasterKeys, CallerKeys,
  Cases          (* what is edited: one is chosen                           *)

\* A row of the table settings may be missing, or hold text that is no value
\* of the setting (written by hand, or by another version).
Unset      == -1
Unreadable == -2
Plain      == <<>>
NoKey      == "none"

\* How a setting is read: get_or_default; get, whose error is the caller's;
\* and, at every use, a reader that falls back and keeps no copy.
Lenient      == {"routing"}
Strict       == {"pricing", "webhook"}
Uncached     == {"retention", "retest"}
SettingNames == Lenient \cup Strict \cup Uncached
Copied       == Lenient \cup Strict

\* A credential: the secret, and the keys it is sealed under, innermost first.
\* copies: the rows of that name.
Credential == [secret : Secrets, seals : Seq(MasterKeys)]
NoRow      == [copies |-> 0]
RowOf(credential, copies) == [copies |-> copies, credential |-> credential]

\* A document to import: the secret of each channel, the keys, the settings.
Document == [channels : UNION {[C -> Secrets] : C \in SUBSET ChannelNames},
             keys : SUBSET CallerKeys,
             settings : [{"routing", "retention", "pricing"} -> SettingValues]]
\* ops: what administrators do, at most edits times; document: what they
\* import; broken: settings whose row is unreadable; explicit: REFRACT_MASTER_KEY;
\* channels, callers: what there is at first.
Case == [ops : SUBSET {"set", "notify", "import", "key", "edit"}, edits : Nat,
         document : Document, broken : SUBSET SettingNames,
         explicit : MasterKeys \cup {NoKey}, channels : SUBSET ChannelNames,
         callers : SUBSET CallerKeys]

ASSUME SettingsAssumption ==
  /\ Cases \subseteq Case /\ Cardinality(Secrets) > 0
  /\ SettingValues \subseteq Nat /\ NoKey \notin MasterKeys

VARIABLES
  given,       (* the case                                                  *)
  settingRows, keyRow,   (* table settings; its row master_key              *)
  vault,       (* table channels: the row of each name                      *)
  callerRows,  (* table api_keys                                            *)
  copy,        (* the settings in memory                                    *)
  masterKey, opened,     (* in memory: the key, the snapshot of the channels *)
  up,          (* the last start came through                               *)
  editors, edits,
  entered,     (* history: the secret last entered for each channel         *)
  rotated      (* history: a master key was replaced or taken away          *)

settingsVars == <<given, settingRows, keyRow, vault, callerRows, copy, masterKey, opened,
                  up, editors, edits, entered, rotated>>
rowVars    == <<settingRows, keyRow, vault, callerRows, entered>>
memoryVars == <<copy, masterKey, opened, rotated>>

\* got, listed, form: a value, the rows and the credential read.
NoEdit == [todo |-> <<>>, op |-> "none", writes |-> <<>>, reload |-> <<>>, got |-> 0,
           listed |-> {}, name |-> "none", secret |-> "none", form |-> <<>>,
           newKey |-> NoKey, crossed |-> FALSE, result |-> "none"]

-----------------------------------------------------------------------------
(***************************************************************************)
(* Reading and sealing                                                     *)
(***************************************************************************)

\* Mutant: an unreadable row is an error to every reader.
UnderstoodOrError(name, row) == IF row = Unset THEN 0 ELSE row

\* What a reader makes of a row: Unreadable stands for its error.
Understood(name, row) ==
  CASE row = Unset -> 0
    [] row = Unreadable -> IF name \in Strict THEN Unreadable ELSE 0
    [] OTHER -> row

\* Mutant: every write seals.
SealAgain(credential, key) ==
  IF key = NoKey THEN credential ELSE [credential EXCEPT !.seals = Append(@, key)]

\* seal: what is sealed already stays as it is.
Seal(credential, key) ==
  IF key # NoKey /\ credential.seals = Plain
    THEN [credential EXCEPT !.seals = <<key>>] ELSE credential

\* open: a credential the key does not open is passed through as it is stored.
Open(credential, key) ==
  IF credential.seals # Plain /\ Last(credential.seals) = key
    THEN [credential EXCEPT !.seals = Front(@)] ELSE credential

OpenAll(key) ==
  [n \in ChannelNames |->
     IF vault[n] = NoRow THEN NoRow
     ELSE RowOf(Open(vault[n].credential, key), vault[n].copies)]

\* Mutant: the key the settings hold.
RepoKeyOfRow == keyRow

\* channel_repo: the key in memory when the repository is asked for
RepoKey == masterKey

Fresh(secret) == [secret |-> secret, seals |-> Plain]

-----------------------------------------------------------------------------
(***************************************************************************)
(* Starting                                                                *)
(***************************************************************************)

KeyAtStart == IF given.explicit # NoKey THEN given.explicit ELSE keyRow

\* bootstrap_with_master_key: an error of a strict reader ends the start.
Load ==
  /\ up' = (\A n \in Copied : Understood(n, settingRows[n]) # Unreadable)
  /\ copy' = [n \in Copied |-> Understood(n, settingRows[n])]
  /\ masterKey' = KeyAtStart
  /\ opened' = OpenAll(KeyAtStart)
  /\ rotated' = (rotated \/ masterKey \notin {NoKey, KeyAtStart})
  /\ editors' = [e \in Editors |-> NoEdit]

SettingsInit ==
  /\ given \in Cases
  /\ settingRows = [n \in SettingNames |-> IF n \in given.broken THEN Unreadable ELSE Unset]
  /\ keyRow = NoKey
  /\ entered = [n \in ChannelNames |-> CHOOSE s \in Secrets : TRUE]
  /\ vault = [n \in ChannelNames |->
                IF n \in given.channels THEN RowOf(Fresh(entered[n]), 1) ELSE NoRow]
  /\ callerRows = given.callers
  /\ up = (given.broken \cap Strict = {})
  /\ copy = [n \in Copied |-> 0]
  /\ masterKey = given.explicit
  /\ opened = OpenAll(masterKey)
  /\ editors = [e \in Editors |-> NoEdit]
  /\ edits = 0
  /\ rotated = FALSE

SettingsRestart == Load /\ UNCHANGED <<given, edits>> /\ UNCHANGED rowVars

-----------------------------------------------------------------------------
(***************************************************************************)
(* The requests of administrators                                          *)
(***************************************************************************)
Busy(e) == editors[e].todo # <<>>

\* Two handlers in flight at once have crossed.
Begins(e, op, task) ==
  /\ up /\ ~Busy(e) /\ op \in given.ops /\ edits < given.edits
  /\ edits' = edits + 1
  /\ editors' = [f \in Editors |->
       IF f = e THEN [task EXCEPT !.op = op, !.crossed = \E g \in Editors \ {e} : Busy(g)]
       ELSE IF Busy(f) THEN [editors[f] EXCEPT !.crossed = TRUE] ELSE editors[f]]
  /\ UNCHANGED <<given, up>> /\ UNCHANGED rowVars /\ UNCHANGED memoryVars

\* set_policy, set_pricing and the other setters of one setting
SetSetting(e) ==
  \E n \in {"routing", "pricing"}, v \in SettingValues :
    Begins(e, "set", [NoEdit EXCEPT !.todo = <<"write", "read", "store">>,
                                    !.writes = [m \in {n} |-> v], !.reload = <<n>>])

\* set_retention: read from the database wherever it is used
SetRetention(e) ==
  \E v \in SettingValues :
    Begins(e, "set", [NoEdit EXCEPT !.todo = <<"write">>,
                                    !.writes = [m \in {"retention"} |-> v]])

\* set_notify: without an address the row of the webhook goes
SetNotify(e) ==
  \E v \in SettingValues \cup {Unset} :
    Begins(e, "notify",
      [NoEdit EXCEPT !.todo = <<"write", "read", "store">>, !.reload = <<"webhook">>,
                     !.writes = [m \in {"webhook", "retest"} |-> v]])

SetMasterKey(e) ==
  \E k \in MasterKeys \cup {NoKey} :
    Begins(e, "key", [NoEdit EXCEPT !.todo = <<"write_key", "read_key", "store_key",
                                               "list", "publish">>, !.newKey = k])

\* The form of a channel shows its credential masked; saving brings the mask
\* back or a new secret.
EditChannel(e) ==
  \E n \in ChannelNames, s \in Secrets \cup {"none"} :
    Begins(e, "edit", [NoEdit EXCEPT !.todo = <<"form", "find", "save", "list", "publish">>,
                                     !.name = n, !.secret = s])

ImportWrites == given.document.settings

\* Both end in the reload of the channels and of two settings.
ReplaceSteps == <<"replace", "keys", "write", "list", "publish", "read", "store", "read", "store">>
MergeSteps   == <<"names", "create", "restore", "write", "list", "publish", "read", "store", "read", "store">>

ReplaceByImport(e) ==
  Begins(e, "import", [NoEdit EXCEPT !.todo = ReplaceSteps, !.name = "replace",
                                     !.writes = ImportWrites, !.reload = <<"routing", "pricing">>])

MergeByImport(e) ==
  Begins(e, "import", [NoEdit EXCEPT !.todo = MergeSteps, !.name = "merge",
                                     !.writes = ImportWrites, !.reload = <<"routing", "pricing">>])

-----------------------------------------------------------------------------
(***************************************************************************)
(* The steps of a handler                                                  *)
(***************************************************************************)
Does(e, what) == Busy(e) /\ Head(editors[e].todo) = what

Continues(e, task) ==
  /\ editors' = [editors EXCEPT ![e] =
       IF Len(editors[e].todo) > 1 THEN [task EXCEPT !.todo = Tail(@)]
       ELSE [NoEdit EXCEPT !.result = "ok"]]
  /\ UNCHANGED <<given, up, edits>>

\* A step of a loop that goes round again.
Repeats(e, task) == editors' = [editors EXCEPT ![e] = task] /\ UNCHANGED <<given, up, edits>>

GivesUp(e) ==
  /\ editors' = [editors EXCEPT ![e] = [NoEdit EXCEPT !.result = "error"]]
  /\ UNCHANGED <<given, up, edits>> /\ UNCHANGED rowVars /\ UNCHANGED memoryVars

\* Mutant: a statement of its own for every row.
WriteRowByRow(e) ==
  /\ Does(e, "write")
  /\ LET w == editors[e].writes
         n == CHOOSE m \in DOMAIN w : TRUE
         left == [m \in DOMAIN w \ {n} |-> w[m]]
     IN /\ settingRows' = [settingRows EXCEPT ![n] = w[n]]
        /\ Continues(e, IF left = <<>> THEN editors[e]
                        ELSE [editors[e] EXCEPT !.writes = left, !.todo = <<"write">> \o @])
  /\ UNCHANGED <<keyRow, vault, callerRows, entered>> /\ UNCHANGED memoryVars

\* apply: one transaction
WriteRows(e) ==
  /\ Does(e, "write")
  /\ LET w == editors[e].writes IN
     settingRows' = [n \in SettingNames |-> IF n \in DOMAIN w THEN w[n] ELSE settingRows[n]]
  /\ Continues(e, editors[e])
  /\ UNCHANGED <<keyRow, vault, callerRows, entered>> /\ UNCHANGED memoryVars

\* reload_policy, reload_pricing, reload_webhook ...: the row is read, and
\* what was read is stored once the await is over.
ReadRow(e) ==
  /\ Does(e, "read")
  /\ LET n == Head(editors[e].reload)
         v == Understood(n, settingRows[n])
     IN IF v = Unreadable THEN GivesUp(e)
        ELSE /\ Continues(e, [editors[e] EXCEPT !.got = v])
             /\ UNCHANGED rowVars /\ UNCHANGED memoryVars

\* Mutant: the reload stops at the first setting.
StoreFirstRow(e) ==
  /\ Does(e, "store")
  /\ copy' = [copy EXCEPT !["routing"] = editors[e].got]
  /\ Continues(e, [editors[e] EXCEPT !.reload = Tail(@)])
  /\ UNCHANGED <<masterKey, opened, rotated>> /\ UNCHANGED rowVars

StoreRow(e) ==
  /\ Does(e, "store")
  /\ copy' = [copy EXCEPT ![Head(editors[e].reload)] = editors[e].got]
  /\ Continues(e, [editors[e] EXCEPT !.reload = Tail(@)])
  /\ UNCHANGED <<masterKey, opened, rotated>> /\ UNCHANGED rowVars

WriteKey(e) ==
  /\ Does(e, "write_key")
  /\ keyRow' = editors[e].newKey
  /\ Continues(e, editors[e])
  /\ UNCHANGED <<settingRows, vault, callerRows, entered>> /\ UNCHANGED memoryVars

ReadKey(e) ==
  /\ Does(e, "read_key")
  /\ Continues(e, [editors[e] EXCEPT !.newKey = keyRow])
  /\ UNCHANGED rowVars /\ UNCHANGED memoryVars

\* reload_master_key: the row counts, even where the process was given a key.
StoreKey(e) ==
  /\ Does(e, "store_key")
  /\ masterKey' = editors[e].newKey
  /\ rotated' = (rotated \/ masterKey \notin {NoKey, editors[e].newKey})
  /\ Continues(e, editors[e])
  /\ UNCHANGED <<copy, opened>> /\ UNCHANGED rowVars

\* Mutant: the reload opens the credentials with the key of the process.
ListWithKeyAtStart(e) ==
  /\ Does(e, "list")
  /\ Continues(e, [editors[e] EXCEPT !.listed = {<<n, OpenAll(given.explicit)[n]>> : n \in ChannelNames}])
  /\ UNCHANGED rowVars /\ UNCHANGED memoryVars

\* reload_channels
ListChannels(e) ==
  /\ Does(e, "list")
  /\ Continues(e, [editors[e] EXCEPT !.listed = {<<n, OpenAll(RepoKey)[n]>> : n \in ChannelNames}])
  /\ UNCHANGED rowVars /\ UNCHANGED memoryVars

PublishChannels(e) ==
  /\ Does(e, "publish")
  /\ opened' = [n \in ChannelNames |-> (CHOOSE pair \in editors[e].listed : pair[1] = n)[2]]
  /\ Continues(e, [editors[e] EXCEPT !.listed = {}])
  /\ UNCHANGED <<copy, masterKey, rotated>> /\ UNCHANGED rowVars

ReadForm(e) ==
  /\ Does(e, "form")
  /\ IF vault[editors[e].name] = NoRow THEN GivesUp(e)
     ELSE /\ Continues(e, [editors[e] EXCEPT
                 !.form = <<Open(vault[editors[e].name].credential, RepoKey)>>])
          /\ UNCHANGED rowVars /\ UNCHANGED memoryVars

\* restore_unchanged_credentials, reject_masked_credentials: a mask is one of
\* the credential as it reads now, or it is refused.
FindChannel(e) ==
  /\ Does(e, "find")
  /\ LET row  == vault[editors[e].name]
         read == Open(row.credential, RepoKey)
     IN IF row = NoRow \/ (editors[e].secret = "none" /\ editors[e].form # <<read>>)
          THEN GivesUp(e)
          ELSE /\ Continues(e, [editors[e] EXCEPT !.form =
                      IF editors[e].secret = "none" THEN <<read>>
                      ELSE <<Fresh(editors[e].secret)>>])
               /\ UNCHANGED rowVars /\ UNCHANGED memoryVars

\* A save that keeps the mask writes back the credential it found: beside
\* another editor that may be the older one.
SaveChannel(e) ==
  /\ Does(e, "save")
  /\ LET n == editors[e].name
         c == editors[e].form[1]
     IN IF vault[n] = NoRow THEN GivesUp(e)
        ELSE /\ vault' = [vault EXCEPT ![n].credential = Seal(c, RepoKey)]
             /\ entered' = IF editors[e].secret # "none" \/ editors[e].crossed
                             THEN [entered EXCEPT ![n] = c.secret] ELSE entered
             /\ Continues(e, editors[e])
             /\ UNCHANGED <<settingRows, keyRow, callerRows>> /\ UNCHANGED memoryVars

Wanted == given.document.channels

\* Mutant: the old channels stay beside the imported ones.
ReplaceNothing(e) ==
  /\ Does(e, "replace")
  /\ vault' = [n \in ChannelNames |->
                 IF n \in DOMAIN Wanted THEN RowOf(Seal(Fresh(Wanted[n]), RepoKey), 1)
                 ELSE vault[n]]
  /\ entered' = [n \in ChannelNames |-> IF n \in DOMAIN Wanted THEN Wanted[n] ELSE entered[n]]
  /\ Continues(e, editors[e])
  /\ UNCHANGED <<settingRows, keyRow, callerRows>> /\ UNCHANGED memoryVars

\* ChannelRepo::replace_all: one transaction, which seals under the key of the
\* repository
ReplaceChannels(e) ==
  /\ Does(e, "replace")
  /\ vault' = [n \in ChannelNames |->
                 IF n \in DOMAIN Wanted THEN RowOf(Seal(Fresh(Wanted[n]), RepoKey), 1)
                 ELSE NoRow]
  /\ entered' = [n \in ChannelNames |-> IF n \in DOMAIN Wanted THEN Wanted[n] ELSE entered[n]]
  /\ Continues(e, editors[e])
  /\ UNCHANGED <<settingRows, keyRow, callerRows>> /\ UNCHANGED memoryVars

\* Mutant: every channel of the document is taken for a new one.
ReadNoNames(e) ==
  /\ Does(e, "names")
  /\ Continues(e, [editors[e] EXCEPT !.listed = DOMAIN Wanted])
  /\ UNCHANGED rowVars /\ UNCHANGED memoryVars

\* merge: the names are read once, and then every channel of another name is
\* created in a transaction of its own.
ReadNames(e) ==
  /\ Does(e, "names")
  /\ Continues(e, [editors[e] EXCEPT
       !.listed = {n \in DOMAIN Wanted : vault[n] = NoRow}])
  /\ UNCHANGED rowVars /\ UNCHANGED memoryVars

CreateChannel(e) ==
  /\ Does(e, "create")
  /\ IF editors[e].listed = {}
       THEN Continues(e, editors[e]) /\ UNCHANGED <<vault, entered>>
       ELSE LET n == CHOOSE m \in editors[e].listed : TRUE
                first == vault[n] = NoRow
            IN /\ vault' = [vault EXCEPT ![n] =
                    IF first THEN RowOf(Seal(Fresh(Wanted[n]), RepoKey), 1)
                    ELSE RowOf(vault[n].credential, vault[n].copies + 1)]
               /\ entered' = IF first THEN [entered EXCEPT ![n] = Wanted[n]] ELSE entered
               /\ Repeats(e, [editors[e] EXCEPT !.listed = @ \ {n}])
  /\ UNCHANGED <<settingRows, keyRow, callerRows>> /\ UNCHANGED memoryVars

\* Mutant: the rows are deleted first and come back one by one.
ReplaceOneByOne(e) ==
  /\ Does(e, "keys")
  /\ callerRows' = {}
  /\ Continues(e, [editors[e] EXCEPT !.todo = <<"restore", "restore">> \o @])
  /\ UNCHANGED <<settingRows, keyRow, vault, entered>> /\ UNCHANGED memoryVars

\* ApiKeyRepo::replace_all: one transaction
ReplaceCallerKeys(e) ==
  /\ Does(e, "keys")
  /\ callerRows' = given.document.keys
  /\ Continues(e, editors[e])
  /\ UNCHANGED <<settingRows, keyRow, vault, entered>> /\ UNCHANGED memoryVars

\* ApiKeyRepo::restore for every key: one that is there stays as it is.
RestoreCallerKey(e) ==
  /\ Does(e, "restore")
  /\ IF given.document.keys \subseteq callerRows
       THEN Continues(e, editors[e]) /\ UNCHANGED callerRows
       ELSE /\ callerRows' = callerRows \cup
                              {CHOOSE k \in given.document.keys : k \notin callerRows}
            /\ Repeats(e, editors[e])
  /\ UNCHANGED <<settingRows, keyRow, vault, entered>> /\ UNCHANGED memoryVars

\* Any statement can fail: a busy database, a full disk.
StatementFails(e) ==
  /\ Busy(e) /\ Head(editors[e].todo) \notin {"store", "store_key", "publish"}
  /\ GivesUp(e)

SettingsNext ==
  \E e \in Editors :
    \/ SetSetting(e) \/ SetRetention(e) \/ SetNotify(e) \/ SetMasterKey(e) \/ EditChannel(e)
    \/ ReplaceByImport(e) \/ MergeByImport(e)
    \/ WriteRows(e) \/ ReadRow(e) \/ StoreRow(e) \/ WriteKey(e) \/ ReadKey(e) \/ StoreKey(e)
    \/ ListChannels(e) \/ PublishChannels(e) \/ ReadForm(e) \/ FindChannel(e) \/ SaveChannel(e)
    \/ ReplaceChannels(e) \/ ReadNames(e) \/ CreateChannel(e)
    \/ ReplaceCallerKeys(e) \/ RestoreCallerKey(e) \/ StatementFails(e)

-----------------------------------------------------------------------------
(***************************************************************************)
(* Properties                                                              *)
(***************************************************************************)

\* The shape of the state: what the rows, the copies and the credentials may be.
SettingsTypeOK ==
  /\ settingRows \in [SettingNames -> SettingValues \cup {Unset, Unreadable}]
  /\ {keyRow, masterKey} \subseteq MasterKeys \cup {NoKey}
  /\ \A n \in ChannelNames : \A row \in {vault[n], opened[n]} \ {NoRow} :
       row.copies > 0 /\ row.credential.secret \in Secrets
       /\ row.credential.seals \in {Plain} \cup {<<k>> : k \in MasterKeys}
  /\ callerRows \subseteq CallerKeys
  /\ up => copy \in [Copied -> SettingValues \cup {0}]

Finishes(e) == Busy(e) /\ editors[e]'.result = "ok" /\ ~editors[e].crossed

\* A change that ran by itself holds as soon as its handler has answered,
\* whatever changes were interrupted before it: the copy in memory is what the
\* row says, and every channel reads as the rows and the key say
\* (reload_policy, reload_pricing, reload_webhook, reload_master_key).
ChangeTakesEffect ==
  [][\A e \in Editors : Finishes(e) =>
       LET task == editors[e] IN
       /\ \A n \in Copied \cap DOMAIN task.writes :
            copy'[n] = Understood(n, settingRows[n]') /\ settingRows[n]' = task.writes[n]
       /\ task.op = "key" => masterKey' = keyRow'
       /\ task.op \in {"key", "edit", "import"} => opened' = OpenAll(masterKey)']_settingsVars

\* An import that ran by itself leaves what its document says, whatever an
\* earlier import that failed had left (import_document: importing again
\* converges); a merge keeps what was there and doubles no name.
ImportConverges ==
  [][\A e \in Editors : (Finishes(e) /\ editors[e].op = "import") =>
       LET wanted == given.document
           there  == {n \in ChannelNames : vault'[n] # NoRow}
       IN /\ \A n \in DOMAIN wanted.settings : settingRows'[n] = wanted.settings[n]
          /\ wanted.keys \subseteq callerRows' /\ DOMAIN wanted.channels \subseteq there
          /\ editors[e].name = "replace" =>
               /\ callerRows' = wanted.keys /\ there = DOMAIN wanted.channels
               /\ \A n \in there : vault'[n].copies = 1
                                  /\ vault'[n].credential.secret = wanted.channels[n]]_settingsVars

\* A name is doubled only by a merge beside another handler.
NamesDoubleOnlyWhenCrossed ==
  [][\A n \in ChannelNames : (vault[n] # NoRow /\ vault'[n] # NoRow
                              /\ vault'[n].copies > vault[n].copies)
       => \E e \in Editors : Does(e, "create") /\ editors[e].crossed]_settingsVars

\* What belongs together is written together, wherever the handler or the
\* process ends: the address and the interval of set_notify, the settings of an
\* import (apply, import_settings).
NothingIsHalfWritten ==
  given.broken = {} =>
    /\ settingRows["webhook"] = settingRows["retest"]
    /\ given.ops \cap {"set", "notify"} = {} =>
         \A m, n \in DOMAIN ImportWrites : settingRows[m] = Unset => settingRows[n] = Unset

\* A key of a caller that the document holds works throughout an import, one
\* that replaces included (ApiKeyRepo::replace_all deletes and inserts in one
\* transaction).
KeysNeverPause ==
  [][callerRows \cap given.document.keys \subseteq callerRows']_settingsVars

\* A credential is never sealed twice, and stays the one an administrator last
\* entered: whoever brings the key back it was sealed with has it again, however
\* often its channel was saved under another key (seal, open,
\* restore_unchanged_credentials).
TheKeyBringsItBack ==
  \A n \in ChannelNames : vault[n] # NoRow =>
    /\ Len(vault[n].credential.seals) <= 1
    /\ vault[n].credential.secret = entered[n]

\* Until a master key is replaced or taken away, the key in memory opens every
\* channel: setting the first one leaves the plain rows readable, and the
\* process given a key of its own reads what it wrote.
ReadableUntilRotated ==
  ~rotated => \A n \in ChannelNames : vault[n] # NoRow =>
                Open(vault[n].credential, masterKey).seals = Plain

\* Only a row with a strict reader keeps the gateway from starting (get,
\* get_or_default).
StartsOnBrokenRows ==
  ~up => \E n \in Strict : settingRows[n] = Unreadable

\* What an administrator was told to have changed has changed, in the tables
\* and in memory, whatever failed or ended halfway before.
ChangesArrive ==
  /\ ChangeTakesEffect /\ ImportConverges /\ NamesDoubleOnlyWhenCrossed /\ KeysNeverPause
  /\ []NothingIsHalfWritten /\ []StartsOnBrokenRows

\* Credentials outlive changes of the key they are sealed with.
CredentialsStayReadable == TheKeyBringsItBack /\ ReadableUntilRotated
=============================================================================
