---------------------------- MODULE EntriesConfig ----------------------------
(***************************************************************************)
(* globalPlugins/taskSwitcher.py: the entries, the file they are kept in   *)
(* and the keystrokes bound to them.  Everything runs on NVDA's main       *)
(* thread, but the dialogs are modal loops inside it: while one is open    *)
(* the popup menu can open another, and the settings panel, which is not   *)
(* modal, keeps a copy of the configuration.  A dialog's config is the     *)
(* object that globalConfig named when it opened; loadConfig puts another  *)
(* in its place.                                                           *)
(***************************************************************************)
EXTENDS Integers, SequencesExt

CONSTANTS
  Name,        \* names of entries; numbers, because entries are sorted by name
  Keystroke,
  NoKey,       \* the entry has no keystroke
  DefaultKey,  \* the keystroke that the @script decorator binds
  None,        \* Python's None, and a panel that is closed
  NoFile,      \* there is no configuration file, or it is empty
  Torn,        \* the file holds only a part of what was to be written
  Live,        \* the view of a dialog whose config is the object globalConfig names
  OfPanel,     \* the view of a dialog whose config is the settings panel's
  MaxDialogs,  \* bound on the dialogs open at a time
  MaxEntries,  \* bound on the entries
  MaxSaves     \* bound on the saves

ASSUME EntriesConfigAssumption ==
  /\ Name \subseteq Nat
  /\ NoKey \notin Keystroke /\ DefaultKey \in Keystroke
  /\ MaxDialogs \in Nat /\ MaxEntries \in Nat /\ MaxSaves \in Nat

TSEntry == [name: Name, keystroke: Keystroke \cup {NoKey}]

VARIABLES
  plugin,        \* "loading" while __init__ and NVDA's start run, then "registered"
  file,
  globalConfig,
  globalGesturesToEntries,
  gestureMap,    \* the keystrokes that _gestureMap binds to script_taskSwitch
  installer,     \* updateKeystrokesWhenPluginsLoaded waits to be resumed
  dialogs,       \* the open EditEntryDialogs, the uppermost last
  panel,         \* the open SettingsEntriesDialog
  saves,
  wanted,        \* history: the entries the user has asked for
  overlapped,    \* history: changes were saved while another dialog was open, or made
                 \*   in a panel that shares globalConfig's object after a failed save
  failed,        \* history: the last save failed
  unread,        \* history: globalConfig is empty because the file could not be opened
  lost,          \* history: a restart after a failed save, or a save while unread, has
                 \*   made a loss final
  gaveUp         \* history: the keystrokes were not installed in time

loaded == <<plugin, installer, gaveUp>>
keys == <<globalGesturesToEntries, gestureMap>>
faults == <<failed, unread, lost>>
vars == <<loaded, file, globalConfig, keys, dialogs, panel, saves, wanted, overlapped, faults>>

Config == Seq(TSEntry)

\* over: the panel was open, and is disabled until the dialog closes.
Dialog == [index: Nat, original: TSEntry \cup {None}, config: Config \cup {Live, OfPanel},
           over: BOOLEAN]

Panel == [config: Config \cup {Live}, removed: SUBSET TSEntry, added: SUBSET TSEntry]

Keys == UNION {[K -> TSEntry] : K \in SUBSET Keystroke}

\* What stands for the lack of a value, or for a reference, is no value itself.
ASSUME ValuesAssumption ==
  /\ None \notin Config \cup TSEntry \cup Panel \cup Keys
  /\ NoFile # Torn /\ {NoFile, Torn} \cap Config = {}
  /\ Live # OfPanel /\ {Live, OfPanel} \cap Config = {}

TypeOK ==
  /\ plugin \in {"loading", "registered", "failed"}
  /\ file \in Config \cup {NoFile, Torn}
  /\ globalConfig \in Config \cup {None}
  /\ globalGesturesToEntries \in Keys \cup {None} /\ gestureMap \subseteq Keystroke
  /\ installer \in {"none", "waiting"}
  /\ dialogs \in Seq(Dialog)
  /\ panel \in Panel \cup {None}
  /\ saves \in Nat
  /\ wanted \subseteq TSEntry
  /\ overlapped \in BOOLEAN /\ gaveUp \in BOOLEAN
  /\ failed \in BOOLEAN /\ unread \in BOOLEAN /\ lost \in BOOLEAN

-----------------------------------------------------------------------------
(* Pure parts.                                                             *)

\* entries.sort(key=lambda e: e.name), which is stable.
SortedByName(s) ==
  LET Rank(i) == Cardinality({j \in DOMAIN s : \/ s[j].name < s[i].name
                                               \/ s[j].name = s[i].name /\ j <= i})
  IN [k \in DOMAIN s |-> s[CHOOSE i \in DOMAIN s : Rank(i) = k]]

\* Mutant: entries without a keystroke are bound too.
KeysOfAll(s) ==
  [k \in {e.keystroke : e \in ToSet(s)} |-> s[Max({i \in DOMAIN s : s[i].keystroke = k})]]

\* What updateKeystrokes binds to script_taskSwitch; all else is unbound from it.
Bound(s) == {e.keystroke : e \in ToSet(s)} \ {NoKey}

\* The dictionary of updateKeystrokes: of two entries the later one counts.
KeysOf(s) == [k \in Bound(s) |-> s[Max({i \in DOMAIN s : s[i].keystroke = k})]]

\* Mutant: the keystroke is not compared.
ClashesByName(e, s, index) ==
  \E i \in DOMAIN s \ {index} : s[i].name = e.name

\* EditEntryDialog.make refuses the entry.
Clashes(e, s, index) ==
  \E i \in DOMAIN s \ {index} :
    s[i].name = e.name \/ (s[i].keystroke = e.keystroke /\ e.keystroke # NoKey)

\* Mutant: an edited entry takes the place of the last one.
PutLast(s, index, e) ==
  SortedByName(IF index = 0 THEN Append(s, e) ELSE [s EXCEPT ![Len(s)] = e])

\* The entry takes the place with this index, or is appended.
Put(s, index, e) ==
  SortedByName(IF index = 0 THEN Append(s, e) ELSE [s EXCEPT ![index] = e])

-----------------------------------------------------------------------------
(* The file: loadConfig and saveConfig.                                    *)

\* What loadConfig makes of a file that it can read and decode.
Decoded == IF file = NoFile THEN <<>> ELSE file

\* NVDA starts: the decorator binds its keystroke, and the plug-in's __init__
\* calls loadConfig.  A torn file makes __init__ raise; without a file the
\* keystrokes are not touched, and neither when OSError takes a file for none;
\* else the generator finds no registered plug-in yet and waits.
Load ==
  /\ dialogs' = <<>> /\ panel' = None
  /\ globalGesturesToEntries' = None
  /\ gaveUp' = FALSE
  /\ \/ /\ file = Torn
        /\ plugin' = "failed" /\ globalConfig' = None /\ installer' = "none"
        /\ gestureMap' = {} /\ unread' = FALSE
     \/ /\ file # Torn
        /\ plugin' = "loading" /\ globalConfig' = Decoded
        /\ installer' = IF file = NoFile THEN "none" ELSE "waiting"
        /\ gestureMap' = {DefaultKey} /\ unread' = FALSE
     \/ /\ file # NoFile
        /\ plugin' = "loading" /\ globalConfig' = <<>> /\ installer' = "none"
        /\ gestureMap' = {DefaultKey} /\ unread' = TRUE

Init ==
  /\ file = NoFile /\ plugin = "loading" /\ globalConfig = <<>>
  /\ globalGesturesToEntries = None /\ gestureMap = {DefaultKey} /\ installer = "none"
  /\ dialogs = <<>> /\ panel = None
  /\ saves = 0 /\ wanted = {} /\ overlapped = FALSE /\ gaveUp = FALSE
  /\ failed = FALSE /\ unread = FALSE /\ lost = FALSE

\* NVDA ends, in whatever state it is, and starts again.  What a failed save has
\* left out is in no memory any more; the user still wants it.
Restart ==
  /\ Load
  /\ lost' = (lost \/ failed) /\ failed' = FALSE
  /\ UNCHANGED <<file, saves, wanted, overlapped>>

\* The user throws away a file that keeps the plug-in from loading.
DeleteFile ==
  /\ plugin = "failed" /\ file = Torn
  /\ file' = NoFile
  /\ UNCHANGED <<loaded, globalConfig, keys, dialogs, panel, saves, wanted, overlapped, faults>>

\* NVDA has started: runningPlugins has the plug-in and the main loop runs.
Register ==
  /\ plugin = "loading"
  /\ plugin' = "registered"
  /\ UNCHANGED <<installer, gaveUp, file, globalConfig, keys, dialogs, panel, saves, wanted,
                 overlapped, faults>>

\* Mutant: the generator is never resumed.
ResumesNot == FALSE

\* wx.CallLater resumes the generator once the main loop runs.
Resumes == installer = "waiting" /\ plugin = "registered"

\* updateKeystrokesWhenPluginsLoaded goes on: it looks at the clock first, and
\* raises if ten seconds have gone, whether or not the plug-in is there by now.
InstallKeystrokes ==
  /\ Resumes
  /\ installer' = "none"
  /\ \/ /\ globalGesturesToEntries' = KeysOf(globalConfig)
        /\ gestureMap' = Bound(globalConfig)
        /\ UNCHANGED gaveUp
     \/ gaveUp' = TRUE /\ UNCHANGED keys
  /\ UNCHANGED <<plugin, file, globalConfig, dialogs, panel, saves, wanted, overlapped, faults>>

\* A view whose object globalConfig no longer names keeps what that holds.
Detached(view, s) == IF view = Live THEN s ELSE view

\* Mutant: the keystrokes are not installed anew.
ReinstalledNot(s) == globalGesturesToEntries

Reinstalled(s) == KeysOf(s)

\* saveConfig and loadConfig, s being the entries of globalConfig by now.  The
\* file that was written may not open again, and is taken for an empty one; it
\* cannot be opened for writing, or the write is cut off after open() truncated
\* it: saveConfig raises and nothing is loaded.
Save(s) ==
  /\ saves < MaxSaves
  /\ saves' = saves + 1
  /\ lost' = (lost \/ unread)
  /\ \/ /\ file' = s /\ globalConfig' = s
        /\ globalGesturesToEntries' = Reinstalled(s) /\ gestureMap' = Bound(s)
        /\ failed' = FALSE /\ gaveUp' = FALSE /\ unread' = FALSE
     \/ /\ file' = s /\ globalConfig' = <<>>
        /\ failed' = FALSE /\ unread' = TRUE
        /\ UNCHANGED <<keys, gaveUp>>
     \/ /\ file' \in {file, NoFile, Torn} /\ globalConfig' = s
        /\ failed' = TRUE
        /\ UNCHANGED <<keys, gaveUp, unread>>
  /\ UNCHANGED <<plugin, installer>>

-----------------------------------------------------------------------------
(* The popup menu's dialogs: openEntryDialog.                              *)

Others == <<loaded, file, globalConfig, keys, saves, wanted, overlapped, faults>>

ShowDialog(index, original, config) ==
  /\ plugin = "registered"
  /\ Len(dialogs) < MaxDialogs
  /\ dialogs' = Append(dialogs, [index |-> index, original |-> original, config |-> config,
                                 over |-> panel # None])

\* "Create a new entry for this application".
OpenCreate ==
  /\ ShowDialog(0, None, Live)
  /\ UNCHANGED <<Others, panel>>

\* "Edit ...": the index of the first equal entry is found before the dialog shows.
OpenEdit(i) ==
  /\ \A j \in 1..(i - 1) : globalConfig[j] # globalConfig[i]
  /\ ShowDialog(i, globalConfig[i], Live)
  /\ UNCHANGED <<Others, panel>>

\* The entries the dialog's checks look at.
PanelEntries == IF panel.config = Live THEN globalConfig ELSE panel.config

View(dialog) ==
  CASE dialog.config = Live -> globalConfig
    [] dialog.config = OfPanel -> PanelEntries
    [] OTHER -> dialog.config

\* The user confirms e in the uppermost dialog.
Confirm(dialog, e) ==
  /\ dialogs # <<>>
  /\ dialog = Last(dialogs)
  /\ ~Clashes(e, View(dialog), dialog.index)

Asked(dialog, e) == (wanted \ {dialog.original}) \cup {e}

\* openEntryDialog goes on: it stores the entry where it found the old one, in
\* what globalConfig names by now.
DialogOk(dialog, e) ==
  /\ Confirm(dialog, e)
  /\ dialog.config # OfPanel
  /\ dialog.index = 0 => Len(globalConfig) < MaxEntries
  /\ dialog.index <= Len(globalConfig)
  /\ LET below == Front(dialogs)
         s == Put(globalConfig, dialog.index, e)
     IN /\ Save(s)
        /\ IF failed'
             THEN dialogs' = below /\ UNCHANGED panel
             ELSE /\ dialogs' = [d \in DOMAIN below |->
                                   [below[d] EXCEPT !.config = Detached(@, s)]]
                  /\ panel' = IF panel = None THEN None
                              ELSE [panel EXCEPT !.config = Detached(@, s)]
  /\ wanted' = Asked(dialog, e)
  /\ overlapped' = (overlapped \/ Len(dialogs) > 1 \/ panel # None)

\* IndexError: the list has become shorter.
DialogIndexError(dialog, e) ==
  /\ Confirm(dialog, e)
  /\ dialog.config # OfPanel
  /\ dialog.index > Len(globalConfig)
  /\ dialogs' = Front(dialogs)
  /\ wanted' = Asked(dialog, e)
  /\ overlapped' = TRUE
  /\ UNCHANGED <<loaded, file, globalConfig, keys, panel, saves, faults>>

DialogCancel ==
  /\ dialogs # <<>>
  /\ dialogs' = Front(dialogs)
  /\ UNCHANGED <<Others, panel>>

-----------------------------------------------------------------------------
(* The settings panel: SettingsEntriesDialog.                              *)

\* makeSettings takes a deep copy.
OpenPanel ==
  /\ plugin = "registered"
  /\ panel = None
  /\ panel' = [config |-> globalConfig, removed |-> {}, added |-> {}]
  /\ UNCHANGED <<Others, dialogs>>

\* A modal dialog opened after the panel disables it.
PanelUsable == panel # None /\ \A d \in DOMAIN dialogs : ~dialogs[d].over

\* The panel's list becomes s, and with it globalConfig's when a failed save has
\* left both with one object.
ChangePanel(s, removed, added) ==
  /\ panel' = [panel EXCEPT !.config = IF @ = Live THEN Live ELSE s,
                            !.removed = removed, !.added = added]
  /\ globalConfig' = IF panel.config = Live THEN s ELSE globalConfig
  /\ overlapped' = (overlapped \/ panel.config = Live)
  /\ UNCHANGED <<loaded, file, keys, saves, wanted, faults>>

OnEditClick(i) ==
  /\ PanelUsable
  /\ i \in DOMAIN PanelEntries
  /\ ShowDialog(i, PanelEntries[i], OfPanel)
  /\ UNCHANGED <<Others, panel>>

OnEditOk(dialog, e) ==
  /\ Confirm(dialog, e)
  /\ dialog.config = OfPanel
  /\ dialogs' = Front(dialogs)
  /\ ChangePanel(Put(PanelEntries, dialog.index, e),
                 panel.removed \cup {dialog.original},
                 (panel.added \ {dialog.original}) \cup {e})

OnRemoveClick(i) ==
  /\ PanelUsable
  /\ i \in DOMAIN PanelEntries
  /\ LET e == PanelEntries[i]
     IN ChangePanel(RemoveAt(PanelEntries, i), panel.removed \cup {e}, panel.added \ {e})
  /\ UNCHANGED dialogs

\* OK or Apply.  globalConfig names the panel's object now, and dialogs below the
\* panel keep the one it named before; if saveConfig raises, the settings dialog
\* stays open and globalConfig and the panel have one object.
OnSave(close) ==
  /\ PanelUsable
  /\ Save(PanelEntries)
  /\ dialogs' = IF failed' /\ panel.config = Live
                  THEN dialogs
                  ELSE [d \in DOMAIN dialogs |->
                          [dialogs[d] EXCEPT !.config = Detached(@, globalConfig)]]
  /\ panel' = IF failed' THEN [panel EXCEPT !.config = Live]
              ELSE IF close THEN None
              ELSE [config |-> PanelEntries, removed |-> {}, added |-> {}]
  /\ wanted' = (wanted \ panel.removed) \cup panel.added
  /\ overlapped' = (overlapped \/ dialogs # <<>>)

ClosePanel ==
  /\ PanelUsable
  /\ panel' = None
  /\ UNCHANGED <<Others, dialogs>>

-----------------------------------------------------------------------------

InDialog ==
  \E e \in TSEntry :
    LET dialog == Last(dialogs)
    IN dialogs # <<>> /\ (DialogOk(dialog, e) \/ DialogIndexError(dialog, e) \/ OnEditOk(dialog, e))

Next ==
  \/ Restart \/ DeleteFile \/ Register \/ InstallKeystrokes
  \/ OpenCreate \/ OpenPanel \/ ClosePanel \/ DialogCancel \/ InDialog
  \/ plugin = "registered" /\ \E i \in DOMAIN globalConfig : OpenEdit(i)
  \/ PanelUsable /\ \E i \in DOMAIN PanelEntries : OnEditClick(i) \/ OnRemoveClick(i)
  \/ \E close \in BOOLEAN : OnSave(close)

Spec == Init /\ [][Next]_vars

\* The main loop comes and resumes what waits for its timer.
FairSpec == Spec /\ WF_vars(Register) /\ WF_vars(InstallKeystrokes)

-----------------------------------------------------------------------------
(* Properties.                                                             *)

\* As long as the user works in one dialog at a time, the file holds exactly the
\* entries the user asked for: what is created, edited and removed, in the popup
\* menu or in the panel, is there at the next start, also when a start in between
\* could not read it.  Excepted is the time from a save that fails to one that
\* succeeds; and what is lost for good because NVDA was restarted in that time, or
\* because a file that could not be read was taken for empty and saved over.
SavedIsWanted == failed \/ overlapped \/ lost \/ (file # Torn /\ ToSet(Decoded) = wanted)

\* Two entries never share a name or a keystroke, unless dialogs overlapped:
\* only then may a dialog have checked its entry against a configuration that
\* is no longer the one in force.
EntriesAreUnique ==
  overlapped \/ globalConfig = None
  \/ \A i, j \in DOMAIN globalConfig :
       LET e == globalConfig[i]
           f == globalConfig[j]
       IN i # j => e.name # f.name /\ (e.keystroke = f.keystroke => e.keystroke = NoKey)

\* Once they are installed, every keystroke of an entry is bound and leads to that
\* entry, and no other keystroke is bound or leads anywhere, whatever was saved,
\* reloaded or restarted; before any entry has been saved there is only the
\* decorator's keystroke, which leads nowhere.  A save that failed, a file that
\* could not be read and a start that took too long are the only excuses.
KeystrokesFindEntries ==
  plugin # "registered" \/ installer = "waiting" \/ gaveUp \/ failed \/ unread \/ overlapped
  \/ LET keyed == {e \in ToSet(globalConfig) : e.keystroke # NoKey}
         leads == globalGesturesToEntries
     IN IF leads = None
          THEN keyed = {} /\ gestureMap = {DefaultKey}
          ELSE /\ gestureMap = {e.keystroke : e \in keyed} /\ DOMAIN leads = gestureMap
               /\ \A e \in keyed : leads[e.keystroke] = e

\* What waits to install the keystrokes does not wait for ever, unless NVDA is
\* restarted for ever.
InstallerEnds == <>[][~Restart]_vars => []<>(installer = "none")

\* "In order to add new entry, please switch to the desired application, open
\* Task Swittcher menu ... and select 'create a new entry'", says the panel: an
\* entry that the user asked for and that was saved stays in the file.
CreatedIsKept ==
  failed \/ lost \/ file \in {NoFile, Torn} \/ wanted \subseteq ToSet(file)
=============================================================================
