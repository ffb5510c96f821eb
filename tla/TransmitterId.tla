---------------------------- MODULE TransmitterId ---------------------------
(***************************************************************************)
(* The transmitter's identity across power cycles: setup in                *)
(* main/app_main.cpp, main/storage/settings.cpp and settings_core.cpp, and *)
(* what a flight controller remembers of it.                               *)
(*                                                                         *)
(* Any NVS call may fail, and power may fail between any two calls.  A     *)
(* write to NVS is atomic: after nvs_set_blob, until nvs_commit returns    *)
(* ESP_OK, a power failure leaves the old value or the new one.            *)
(* The flight controller and the flash are external, modelled from how     *)
(* setup and the bind packet use them.                                     *)
(***************************************************************************)
EXTENDS Integers

CONSTANTS
    Ids,            \* the transmitter IDs that esp_random can give
    Zero,           \* the invalid ID, five zero bytes
    FirstByteOne,   \* the ID 01 00 00 00 00
    None,           \* no value is stored
    MaxBoots        \* bound: boots of the transmitter

ASSUME TransmitterIdAssumption ==
    /\ None \notin Ids
    /\ Zero \in Ids /\ FirstByteOne \in Ids /\ Zero # FirstByteOne
    /\ MaxBoots \in Nat

VARIABLES
    nvs,       \* the blob "txid": an ID or None
    unsure,    \* another value the flash may hold until a commit, or None
    pc,        \* setup: what it does next
    txId,      \* tx_id
    fcLearned, \* the ID the flight controller listens to, or None
    fcSaved,   \* the ID in the flight controller's flash, or None
    boots,     \* history: boots so far
    faults,    \* history: the kinds of NVS calls that failed
    kept       \* history: fcSaved was in the transmitter's flash when saved

vars == <<nvs, unsure, pc, txId, fcLearned, fcSaved, boots, faults, kept>>
fc == <<fcLearned, fcSaved, kept>>

Valid(id) == id # Zero      \* transmitter_id_is_valid

Init ==
    /\ nvs = None /\ unsure = None
    /\ pc = "off" /\ txId = Zero
    /\ fcLearned = None /\ fcSaved = None
    /\ boots = 0 /\ faults = {} /\ kept = FALSE

\* An NVS call of this kind fails.
Fault(kind) == faults' = faults \cup {kind}

PowerOn ==
    /\ pc = "off" /\ boots < MaxBoots
    /\ boots' = boots + 1
    /\ pc' = "nvs_init" /\ txId' = Zero
    /\ UNCHANGED <<nvs, unsure, fc, faults>>

\* setup: nvs_flash_init, or an erase when its pages cannot be used.
NvsInit ==
    /\ pc = "nvs_init"
    /\ \/ UNCHANGED <<nvs, faults>>
       \/ Fault("init") /\ nvs' = None
    /\ pc' = "load"
    /\ UNCHANGED <<unsure, txId, fc, boots>>

\* Wrong variant: the size of the blob is compared with a wrong size.
Loaded_Never(id) == FALSE

\* load_transmitter_id_from: a stored ID counts if it is not all zeros.
Loaded(id) == id # None /\ Valid(id)

\* load_transmitter_id: the read gives the stored ID or fails.
Load ==
    /\ pc = "load"
    /\ \/ /\ UNCHANGED faults
          /\ IF Loaded(nvs) THEN txId' = nvs /\ pc' = "running"
                            ELSE pc' = "generate" /\ UNCHANGED txId
       \/ Fault("read") /\ pc' = "generate" /\ UNCHANGED txId
    /\ UNCHANGED <<nvs, unsure, fc, boots>>

\* Wrong variant: the random bytes are used as they are.
Generated_Any(random) == random

\* generate_and_save_transmitter_id: an invalid ID gets a first byte of one.
Generated(random) == IF Valid(random) THEN random ELSE FirstByteOne

Generate(random) ==
    /\ pc = "generate"
    /\ txId' = Generated(random)
    /\ pc' = "set"
    /\ UNCHANGED <<nvs, unsure, fc, boots, faults>>

\* save_transmitter_id_to refuses an invalid ID; nvs_write_id: nvs_open and
\* nvs_set_blob.  The transmitter goes on with an ephemeral ID if they fail.
SetBlob ==
    /\ pc = "set"
    /\ \/ /\ UNCHANGED faults
          /\ IF Valid(txId) THEN unsure' = txId /\ pc' = "commit"
                            ELSE pc' = "running" /\ UNCHANGED unsure
       \/ Fault("write") /\ pc' = "running" /\ UNCHANGED unsure
    /\ UNCHANGED <<nvs, txId, fc, boots>>

\* nvs_write_id: nvs_commit.  If it fails the flash holds either value.
Commit ==
    /\ pc = "commit"
    /\ \/ nvs' = txId /\ unsure' = None /\ UNCHANGED faults
       \/ Fault("write") /\ UNCHANGED <<nvs, unsure>>
    /\ pc' = "running"
    /\ UNCHANGED <<txId, fc, boots>>

\* Power fails at any point; what was not committed may be there or not.
PowerOff ==
    /\ pc # "off"
    /\ pc' = "off"
    /\ nvs' \in IF unsure = None THEN {nvs} ELSE {nvs, unsure}
    /\ unsure' = None
    /\ UNCHANGED <<txId, fc, boots, faults>>

\* A flight controller that is binding learns the address from a bind packet
\* (bayang_build_bind_packet); the save gesture stores it; a restart of the
\* flight controller forgets what is not stored.
Bind ==
    /\ pc = "running"
    /\ fcLearned' = txId
    /\ UNCHANGED <<nvs, unsure, pc, txId, fcSaved, kept, boots, faults>>

SaveGesture ==
    /\ pc = "running" /\ fcLearned = txId
    /\ fcSaved' = fcLearned
    /\ kept' = (nvs = txId /\ unsure = None)
    /\ UNCHANGED <<nvs, unsure, pc, txId, fcLearned, boots, faults>>

FcRestart ==
    /\ fcLearned' = fcSaved
    /\ UNCHANGED <<nvs, unsure, pc, txId, fcSaved, kept, boots, faults>>

Next ==
    \/ PowerOn \/ NvsInit \/ Load \/ SetBlob \/ Commit \/ PowerOff
    \/ \E random \in Ids : Generate(random)
    \/ Bind \/ SaveGesture \/ FcRestart

Spec == Init /\ [][Next]_vars

-----------------------------------------------------------------------------
(* Properties.                                                              *)

\* Every variable stays in its type.
TypeOK ==
    /\ nvs \in Ids \cup {None} /\ unsure \in Ids \cup {None}
    /\ pc \in {"off", "nvs_init", "load", "generate", "set", "commit",
               "running"}
    /\ txId \in Ids
    /\ fcLearned \in Ids \cup {None} /\ fcSaved \in Ids \cup {None}
    /\ boots \in 0 .. MaxBoots
    /\ faults \subseteq {"init", "read", "write"} /\ kept \in BOOLEAN

\* No flight controller ever learns the address of zeros, which is the one
\* bind packets are sent to, whatever fails before.
NeverBoundToZero == fcLearned # Zero /\ fcSaved # Zero

\* As long as the flash can be read, a saved binding survives every power
\* failure of the transmitter, also one between generating an ID and storing
\* it or inside the write: the radio starts after the ID was stored.
BindingSurvives ==
    faults \cap {"init", "read"} = {} /\ kept /\ pc = "running"
        => txId = fcSaved

=============================================================================
