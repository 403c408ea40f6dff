---------------------------- MODULE ContactStore ----------------------------
(***************************************************************************)
(* The address book on disk and the applications that have it open         *)
(* (libopie2/opiepim: OPimContactAccess, OPimAccessTemplate, OPimCache and *)
(* OPimContactAccessBackend_XML).                                          *)
(*                                                                         *)
(* Every application holds the whole address book in memory and saves it   *)
(* whole, to the one file all applications share; in between it appends    *)
(* each change to a journal of its own, which it reads after the file.     *)
(* The calls of one application come one after the other; those of two     *)
(* applications interleave, and so do the system calls of save(), between  *)
(* which an application may also die.                                      *)
(***************************************************************************)
EXTENDS Integers, Sequences

CONSTANTS
  Apps,        \* the applications, each with a journal of its own
  Uids,        \* the uids of contacts
  Vals,        \* what else a contact holds
  None,        \* a file that does not exist, a contact that is not cached
  MaxChanges,  \* bound on the changes made to contacts
  MaxClears,   \* bound on the calls of clear()
  MaxFailures, \* bound on the renames that fail
  MaxCrashes   \* bound on the crashes

Contact == [uid : Uids, val : Vals]

Actions == {"ACTION_ADD", "ACTION_REMOVE", "ACTION_REPLACE"}

ASSUME ConstantsAssumption ==
  /\ {MaxChanges, MaxClears, MaxFailures, MaxCrashes} \subseteq Nat
  /\ None \notin Contact /\ None \notin Seq(Contact)

VARIABLES
  list,        \* m_contactList of each application
  changed,     \* m_changed
  journalling, \* m_journalEnabled
  cache,       \* m_cache of the front end: uid -> contact, or None
  step,        \* "closed", "idle" or the next step of the save under way
  closing,     \* the save under way is the one of the destructor
  journal,     \* the journal file of each application
  file,        \* addressbook.xml
  newFile,     \* addressbook.xml.new
  base,        \* (history) what the file held when the application last
               \* read it or saved its list into it
  missed,      \* (history) its last save ended without its list in the file
  cleared,     \* (history) clear() was called since it last read or saved
  changes, clears, failures, crashes  \* counters for the bounds

memory == <<list, changed, journalling, cache, step, closing>>
files  == <<journal, file, newFile>>
known  == <<base, missed, cleared>>
counts == <<changes, clears, failures, crashes>>
vars   == <<memory, files, known, counts>>

Values(s) == {s[i] : i \in DOMAIN s}

(* The uid is in a list; it may be there twice after a journal was read *)
Has(l, u) == \E i \in DOMAIN l : l[i].uid = u

(* m_uidToContact.find: of two contacts with one uid, the later one *)
IsFound(l, u, i) ==
  /\ i \in DOMAIN l /\ l[i].uid = u
  /\ \A j \in DOMAIN l : l[j].uid = u => j <= i

Found(l, u) == CHOOSE i \in DOMAIN l : IsFound(l, u, i)

(* m_contactList.removeRef *)
Without(l, i) == [k \in 1 .. Len(l) - 1 |-> l[IF k < i THEN k ELSE k + 1]]

NoCache == [u \in Uids |-> None]

Is(a, s) == step[a] = s

Open(a) == ~Is(a, "closed")

Init ==
  /\ list = [a \in Apps |-> <<>>]
  /\ changed = [a \in Apps |-> FALSE]
  /\ journalling = [a \in Apps |-> FALSE]
  /\ cache = [a \in Apps |-> NoCache]
  /\ step = [a \in Apps |-> "closed"]
  /\ closing = [a \in Apps |-> FALSE]
  /\ journal = [a \in Apps |-> <<>>]
  /\ file \in {None} \cup {<<c>> : c \in Contact}
  /\ newFile = None
  /\ base = [a \in Apps |-> <<>>]
  /\ missed = [a \in Apps |-> FALSE]
  /\ cleared = [a \in Apps |-> FALSE]
  /\ changes = 0 /\ clears = 0 /\ failures = 0 /\ crashes = 0

(***************************************************************************)
(* Loading.  The journal holds the number of each action in an attribute   *)
(* "action", but the loader only knows "change_action": applyAction adds   *)
(* the contact of every record, whatever was done to it.                   *)
(***************************************************************************)
Replayed(j) == [i \in DOMAIN j |-> j[i].contact]

(* What load() makes of the file and the application's journal *)
Loaded(a) == file \o Replayed(journal[a])

(* mutant: the records of the cache survive a reload *)
CacheKept(a) == cache[a]

(* invalidateCache *)
CacheAfterLoad(a) == NoCache

(* mutant: loading resets m_changed, the journal's contacts included *)
LoadChangesNothing(a) == FALSE

(* m_changed after a load: applyAction calls add(), so what is loaded      *)
(* counts as changed                                                       *)
ChangedByLoad(a) == changed[a] \/ Loaded(a) # <<>>

(* load() and reload(), of the front end and the backend.  Without a file  *)
(* the list is empty, the journal is not read and none is written.         *)
LoadDatabase(a) ==
  /\ cache' = [cache EXCEPT ![a] = CacheAfterLoad(a)]
  /\ missed' = [missed EXCEPT ![a] = FALSE]
  /\ cleared' = [cleared EXCEPT ![a] = FALSE]
  /\ \/ /\ file = None
        /\ list' = [list EXCEPT ![a] = <<>>]
        /\ base' = [base EXCEPT ![a] = <<>>]
        /\ UNCHANGED <<changed, journalling>>
     \/ /\ file # None
        /\ list' = [list EXCEPT ![a] = Loaded(a)]
        /\ base' = [base EXCEPT ![a] = file]
        /\ journalling' = [journalling EXCEPT ![a] = TRUE]
        /\ changed' = [changed EXCEPT ![a] = ChangedByLoad(a)]

(* An application opens the address book: the constructors, then load() *)
Start(a) ==
  /\ Is(a, "closed")
  /\ LoadDatabase(a)
  /\ step' = [step EXCEPT ![a] = "idle"]
  /\ UNCHANGED <<closing, files, counts>>

(* "reload()" on QPE/PIM or QPE/Sync, or a call of the application *)
Reload(a) ==
  /\ Is(a, "idle")
  /\ LoadDatabase(a)
  /\ UNCHANGED <<step, closing, files, counts>>

(***************************************************************************)
(* Changing contacts, in the front end's cache and in the backend.         *)
(***************************************************************************)
Cached(a, u, c) == cache' = [cache EXCEPT ![a][u] = c]

(* mutant: replace() and remove() do not write the journal *)
AddsAreLogged(a, action, c) ==
  journal' = IF journalling[a] /\ action = "ACTION_ADD"
             THEN [journal EXCEPT ![a] = Append(@, [action |-> action, contact |-> c])]
             ELSE journal

UpdateJournal(a, action, c) ==
  journal' = IF journalling[a]
             THEN [journal EXCEPT ![a] = Append(@, [action |-> action, contact |-> c])]
             ELSE journal

(* A call that changes the list of a: it sets m_changed *)
Changes(a) ==
  /\ Is(a, "idle") /\ changes < MaxChanges
  /\ changes' = changes + 1
  /\ changed' = [changed EXCEPT ![a] = TRUE]
  /\ UNCHANGED <<journalling, step, closing, file, newFile, known, clears, failures, crashes>>

(* add() does not look whether the uid is in the list already *)
Add(a, c) ==
  /\ Changes(a)
  /\ Cached(a, c.uid, c)
  /\ UpdateJournal(a, "ACTION_ADD", c)
  /\ list' = [list EXCEPT ![a] = Append(@, c)]

(* replace(): the new contact goes to the end of the list.  One that is    *)
(* not in the list is left alone, but counts as a change.                  *)
Replace(a, c) ==
  /\ Changes(a)
  /\ Cached(a, c.uid, IF cache[a][c.uid] = None THEN None ELSE c)
  /\ IF Has(list[a], c.uid)
     THEN /\ UpdateJournal(a, "ACTION_REPLACE", c)
          /\ list' = [list EXCEPT ![a] = Append(Without(@, Found(@, c.uid)), c)]
     ELSE UNCHANGED <<journal, list>>

Remove(a, u) ==
  /\ Changes(a)
  /\ Cached(a, u, None)
  /\ IF Has(list[a], u)
     THEN /\ UpdateJournal(a, "ACTION_REMOVE", list[a][Found(list[a], u)])
          /\ list' = [list EXCEPT ![a] = Without(@, Found(@, u))]
     ELSE UNCHANGED <<journal, list>>

(* find() reads through the cache *)
Find(a, u) ==
  /\ Is(a, "idle") /\ Has(list[a], u) /\ cache[a][u] = None
  /\ Cached(a, u, list[a][Found(list[a], u)])
  /\ UNCHANGED <<list, changed, journalling, step, closing, files, known, counts>>

(* clear() empties the list and resets m_changed; the journal stays *)
Clear(a) ==
  /\ Is(a, "idle") /\ clears < MaxClears
  /\ clears' = clears + 1
  /\ list' = [list EXCEPT ![a] = <<>>]
  /\ cache' = [cache EXCEPT ![a] = NoCache]
  /\ changed' = [changed EXCEPT ![a] = FALSE]
  /\ cleared' = [cleared EXCEPT ![a] = TRUE]
  /\ UNCHANGED <<journalling, step, closing, files, base, missed, changes, failures, crashes>>

(***************************************************************************)
(* save(), called by the application, for "flush()" or by the destructor   *)
(* (closes).  wasChangedExternally() of the template is FALSE, so nothing  *)
(* is ever reloaded first.                                                 *)
(***************************************************************************)

(* a's process is gone, or its OPimContactAccess deleted *)
Gone(a) ==
  /\ list' = [list EXCEPT ![a] = <<>>]
  /\ changed' = [changed EXCEPT ![a] = FALSE]
  /\ journalling' = [journalling EXCEPT ![a] = FALSE]
  /\ cache' = [cache EXCEPT ![a] = NoCache]
  /\ step' = [step EXCEPT ![a] = "closed"]
  /\ closing' = [closing EXCEPT ![a] = FALSE]
  /\ base' = [base EXCEPT ![a] = <<>>]
  /\ missed' = [missed EXCEPT ![a] = FALSE]
  /\ cleared' = [cleared EXCEPT ![a] = FALSE]

(* Nothing changed: the destructor's save() returns at once *)
Close(a) ==
  /\ Is(a, "idle") /\ ~changed[a]
  /\ Gone(a)
  /\ UNCHANGED <<files, counts>>

(* The list goes to the new file, over whatever another save left there *)
SaveWrite(a, closes) ==
  /\ Is(a, "idle") /\ changed[a]
  /\ newFile' = list[a]
  /\ step' = [step EXCEPT ![a] = "rename"]
  /\ closing' = [closing EXCEPT ![a] = closes]
  /\ UNCHANGED <<list, changed, journalling, cache, journal, file, known, counts>>

(* The new file cannot be opened, or not be written and is removed *)
SaveFails(a, closes) ==
  /\ Is(a, "idle") /\ changed[a]
  /\ newFile' \in {newFile, None}
  /\ IF closes
     THEN Gone(a)
     ELSE UNCHANGED <<memory, known>>
  /\ UNCHANGED <<journal, file, counts>>

(* rename(): whatever .new holds becomes the address book, also what       *)
(* another application wrote there                                         *)
SaveRename(a) ==
  /\ Is(a, "rename") /\ newFile # None
  /\ file' = newFile
  /\ newFile' = None
  /\ base' = [base EXCEPT ![a] = IF newFile = list[a] THEN list[a] ELSE @]
  /\ step' = [step EXCEPT ![a] = "end"]
  /\ UNCHANGED <<list, changed, journalling, cache, closing, journal, missed,
                 cleared, counts>>

(* rename() fails, always when another save took the new file away: what   *)
(* is left of it is removed, and save() goes on                            *)
SaveRenameFails(a) ==
  /\ Is(a, "rename")
  /\ IF newFile = None
     THEN UNCHANGED failures
     ELSE failures < MaxFailures /\ failures' = failures + 1
  /\ newFile' = None
  /\ step' = [step EXCEPT ![a] = "end"]
  /\ UNCHANGED <<list, changed, journalling, cache, closing, journal, file,
                 known, changes, clears, crashes>>

(* removeJournal(), m_changed = false, addressbookUpdated(): the same when *)
(* the rename failed                                                       *)
SaveEnd(a) ==
  /\ Is(a, "end")
  /\ journal' = [journal EXCEPT ![a] = <<>>]
  /\ IF closing[a]
     THEN Gone(a)
     ELSE /\ changed' = [changed EXCEPT ![a] = FALSE]
          /\ step' = [step EXCEPT ![a] = "idle"]
          /\ missed' = [missed EXCEPT ![a] = base[a] # list[a]]
          /\ cleared' = [cleared EXCEPT ![a] = FALSE]
          /\ UNCHANGED <<list, journalling, cache, closing, base>>
  /\ UNCHANGED <<file, newFile, counts>>

(* The process dies, at any point *)
Crash(a) ==
  /\ Open(a) /\ crashes < MaxCrashes
  /\ crashes' = crashes + 1
  /\ Gone(a)
  /\ UNCHANGED <<files, changes, clears, failures>>

Step(a) ==
  \/ Start(a) \/ Reload(a)
  \/ \E c \in Contact : Add(a, c) \/ Replace(a, c)
  \/ \E u \in Uids : Remove(a, u) \/ Find(a, u)
  \/ Clear(a)
  \/ Close(a)
  \/ \E closes \in BOOLEAN : SaveWrite(a, closes) \/ SaveFails(a, closes)
  \/ SaveRename(a) \/ SaveRenameFails(a) \/ SaveEnd(a)
  \/ Crash(a)

Next == \E a \in Apps : Step(a)

Spec == Init /\ [][Next]_vars
-----------------------------------------------------------------------------
(* The variables have their types; only an open application saves, only    *)
(* with changes, and a closed one holds nothing.                           *)
TypeOK ==
  /\ list \in [Apps -> Seq(Contact)]
  /\ changed \in [Apps -> BOOLEAN]
  /\ journalling \in [Apps -> BOOLEAN]
  /\ cache \in [Apps -> [Uids -> Contact \cup {None}]]
  /\ step \in [Apps -> {"closed", "idle", "rename", "end"}]
  /\ closing \in [Apps -> BOOLEAN]
  /\ journal \in [Apps -> Seq([action : Actions, contact : Contact])]
  /\ file \in Seq(Contact) \cup {None}
  /\ newFile \in Seq(Contact) \cup {None}
  /\ base \in [Apps -> Seq(Contact)]
  /\ missed \in [Apps -> BOOLEAN]
  /\ cleared \in [Apps -> BOOLEAN]
  /\ counts \in Nat \X Nat \X Nat \X Nat
  /\ \A a \in Apps : step[a] \in {"rename", "end"} => changed[a]

(* What find() takes from the cache is what the backend would answer: the  *)
(* front end and the backend agree about every cached contact, through     *)
(* changes, reloads and contacts that are in the list twice.               *)
CacheAgrees ==
  \A a \in Apps, u \in Uids : cache[a][u] # None =>
    Has(list[a], u) /\ cache[a][u] = list[a][Found(list[a], u)]

(* Nothing an application has in memory is lost when it dies, at any point *)
(* of a save too: as long as the file is the one it knows, the file and    *)
(* its journal hold every contact of its list.  It does not hold after a   *)
(* save that ended without the list in the file, for that save removed the *)
(* journal all the same.                                                   *)
KeptThroughCrash ==
  \A a \in Apps : Open(a) /\ journalling[a] /\ file = base[a] /\ ~missed[a] =>
    Values(list[a]) \subseteq Values(Loaded(a))

(* save() returns at once when m_changed is not set.  The list is then the *)
(* one the application loaded or saved last, through journals replayed any *)
(* number of times, but for two cases that a save owed and never pays: the *)
(* last one missed the file, or clear() emptied the list.                  *)
UnchangedIsSaved ==
  \A a \in Apps : ~changed[a] =>
    list[a] = base[a] \/ missed[a] \/ (cleared[a] /\ list[a] = <<>>)

(* "This will remove added items which is unacceptable": a save never      *)
(* takes away a contact that another application put into the file since   *)
(* the saver last read it.                                                 *)
SaveKeepsOthers ==
  [][\A a \in Apps : SaveRename(a) /\ file # None =>
       Values(file) \subseteq Values(base[a]) \cup Values(file')]_vars
=============================================================================
