----------------------------- MODULE Credentials -----------------------------
(***************************************************************************)
(* The router's SSID and password as components/nvs_storage keeps them:    *)
(* two NVS keys, set one after the other and then committed.  A save may   *)
(* fail at each of its four calls, the power may go between any two, and a *)
(* boot may have to erase all of NVS.                                      *)
(*                                                                         *)
(* NVS itself is external.  A key that has been set is read back at once;  *)
(* it may reach the flash then or at the commit, and a set that reports an *)
(* error may have reached it nevertheless.                                 *)
(***************************************************************************)
CONSTANTS
    Ssids,          \* SSIDs that can be asked for
    LongSsids,      \* those of 32 to 63 characters: the request's and the saved
                    \* station page's buffers hold them, app_wifi's do not
    Passwords,
    NoValue         \* a key that has never been set

ASSUME SsidAssumption == LongSsids \subseteq Ssids
ASSUME NoValueAssumption == NoValue \notin Ssids \cup Passwords

VARIABLES
    nvs,            \* what nvs_get_str returns for the two keys
    flash,          \* what it would return after a power loss
    save,           \* how far nvs_storage_save_wifi_creds is, or what it returned
    saving          \* its arguments

credentials == <<nvs, flash, save, saving>>

Pair == [ssid: Ssids, pswd: Passwords]
StoredPair == [ssid: Ssids \cup {NoValue}, pswd: Passwords \cup {NoValue}]
Nothing == [ssid |-> NoValue, pswd |-> NoValue]

SaveSteps == {"none", "open", "ssid", "pswd", "commit", "saved", "failed"}

CredentialsType ==
    /\ nvs \in StoredPair
    /\ flash \in StoredPair
    /\ save \in SaveSteps
    /\ saving \in StoredPair

CredentialsInit ==
    /\ nvs = Nothing
    /\ flash = Nothing
    /\ save = "none"
    /\ saving = Nothing

\* nvs_storage_load_wifi_creds into app_wifi's buffers of 32 and 64 bytes: both
\* keys must be there and fit.
Loadable(pair) ==
    /\ pair.ssid \notin LongSsids \cup {NoValue}
    /\ pair.pswd # NoValue

SaveOpens ==
    /\ save = "open"
    /\ save' \in {"ssid", "failed"}
    /\ UNCHANGED <<nvs, flash, saving>>

\* nvs_set_str of one key.
SetKey(key, next) ==
    /\ flash' \in {flash, [flash EXCEPT ![key] = saving[key]]}
    /\ \/ /\ nvs' = [nvs EXCEPT ![key] = saving[key]]
          /\ save' = next
       \/ /\ save' = "failed"
          /\ UNCHANGED nvs
    /\ UNCHANGED saving

SetsSsid == save = "ssid" /\ SetKey("ssid", "pswd")
SetsPassword == save = "pswd" /\ SetKey("pswd", "commit")

\* Mutant: the error of the commit is logged and forgotten.
CommitsUnchecked ==
    /\ save = "commit"
    /\ flash' \in {flash, nvs}
    /\ save' = "saved"
    /\ UNCHANGED <<nvs, saving>>

Commits ==
    /\ save = "commit"
    /\ \/ flash' = nvs /\ save' = "saved"
       \/ flash' \in {flash, nvs} /\ save' = "failed"
    /\ UNCHANGED <<nvs, saving>>

SaveStep == SaveOpens \/ SetsSsid \/ SetsPassword \/ Commits

\* nvs_storage_init, the first call of app_main: NVS comes up with what the flash
\* holds or, without a free page or in an older format, is erased.
NvsMounts ==
    /\ nvs' = flash
    /\ UNCHANGED flash

NvsIsErased ==
    /\ nvs' = Nothing
    /\ flash' = Nothing

\* Power loss, esp_restart or an abort, and the boot after it.
CredentialsRestart ==
    /\ NvsMounts \/ NvsIsErased
    /\ save' = "none"
    /\ saving' = Nothing
=============================================================================
