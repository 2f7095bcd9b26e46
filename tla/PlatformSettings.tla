-------------------------- MODULE PlatformSettings --------------------------
(***************************************************************************)
(* One platform setting, edited by administrators who each see a version   *)
(* on their page and send it back with the new value.  The version is      *)
(* compared with a read of the row and again by the write, the row itself  *)
(* being made by the first update.                                         *)
(***************************************************************************)
EXTENDS Naturals

CONSTANTS
    Admins,         \* administrators with the page open
    SettingValues,
    defaultValue,   \* shown while there is no row
    MaxVersion      \* bound: updates of the setting

ASSUME SettingAssumption ==
    MaxVersion \in Nat /\ defaultValue \notin SettingValues

VARIABLES
    setting,        \* value and version, version 0 while there is no row
    page,           \* what each administrator was shown
    updating        \* administrators whose update read the row

settingVars == <<setting, page, updating>>

Setting == [value : SettingValues \cup {defaultValue},
            version : 0..MaxVersion]

(* The default stands exactly while there is no row.                       *)
SettingTypeOK ==
    /\ setting \in Setting
    /\ page \in [Admins -> Setting]
    /\ updating \subseteq Admins
    /\ setting.version = 0 <=> setting.value = defaultValue

Unset == [value |-> defaultValue, version |-> 0]

SettingInit ==
    /\ setting = Unset
    /\ page = [c \in Admins |-> Unset]
    /\ updating = {}

list(c) ==
    /\ c \notin updating
    /\ page' = [page EXCEPT ![c] = setting]
    /\ UNCHANGED <<setting, updating>>

(* update: the version of the page must be that of the row ...             *)
findSetting(c) ==
    /\ c \notin updating
    /\ page[c].version = setting.version
    /\ updating' = updating \cup {c}
    /\ UNCHANGED <<setting, page>>

(* Mutant: the write goes by the key alone.                                *)
StillCurrent_key(c) == c \in Admins

NextVersion(c) == page[c].version + 1

(* ... and is compared again: updateMany asks for the version it read, and *)
(* createMany skips a row another administrator made.  The audit log is    *)
(* written in the same transaction.                                        *)
StillCurrent(c) == page[c].version = setting.version

writeSetting(c, value) ==
    /\ c \in updating
    /\ setting.version < MaxVersion
    /\ updating' = updating \ {c}
    /\ \/ /\ StillCurrent(c)
          /\ setting' = [value |-> value, version |-> NextVersion(c)]
       \/ ~StillCurrent(c) /\ UNCHANGED setting
    /\ UNCHANGED page

SettingNext ==
    \E c \in Admins :
        \/ list(c) \/ findSetting(c)
        \/ \E value \in SettingValues : writeSetting(c, value)

SettingSpec == SettingInit /\ [][SettingNext]_settingVars
-----------------------------------------------------------------------------
(* No update is lost: whoever changes the setting was shown the very value *)
(* the change replaces, though others may have written since the page was  *)
(* loaded and since the row was read.                                      *)
NoLostUpdate ==
    [][setting' # setting =>
         \E c \in updating \ updating' : page[c] = setting]_settingVars

(* The same, with the types of page, row and version.                      *)
SettingIsKept == []SettingTypeOK /\ NoLostUpdate
=============================================================================
