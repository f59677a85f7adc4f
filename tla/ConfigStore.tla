---------------------------- MODULE ConfigStore ----------------------------
(***************************************************************************)
(* The configuration store of board/src/config_store.c: a table of entries *)
(* in RAM, filled from the factory JSON and from one of two flash slots,   *)
(* committed to the slot the flag does not name.                           *)
(*                                                                         *)
(* Power may fail between any two flash operations and in the middle of    *)
(* each; flash operations may fail, with or without effect; a slot may     *)
(* rot.  A slot holds a whole image, bytes whose CRC is wrong, or nothing  *)
(* readable; a flag byte that names no slot, a torn one included, is       *)
(* "none".  Values are of one type, and the factory JSON is given as the   *)
(* table it parses to.                                                     *)
(***************************************************************************)
EXTENDS Naturals, Integers, Sequences, SequencesExt

CONSTANTS Keys, Values,
          Factory,        \* entries of the factory JSON, in order
          MAX_ENTRIES,
          MaxBoots        \* bound on the number of power cycles

Entry == [key : Keys, val : Values]
FactoryKeys == {Factory[i].key : i \in DOMAIN Factory}

ASSUME ConfigStoreAssumption ==
    /\ MAX_ENTRIES \in Nat /\ MaxBoots \in Nat
    /\ Factory \in Seq(Entry) /\ Len(Factory) <= MAX_ENTRIES

VARIABLES entries, health, storage_ready,   \* RAM
          slot, flag,                       \* flash
          pc, target,                       \* step of the running call
          faults,         \* the last thing that went wrong in flash since the
                          \* last MINI_OK, if anything did
          acked,          \* image of the last commit or reset that returned
                          \* MINI_OK; forgotten on a fault
          tried,          \* images of later ones cut or failed at the flag that
                          \* a slot still holds
          boots           \* power cycles so far

ram == <<entries, health, storage_ready>>
flash == <<slot, flag>>
history == <<acked, tried, faults>>
vars == <<ram, flash, pc, target, history, boots>>

Slots == {"A", "B"}
Other(s) == IF s = "A" THEN "B" ELSE "A"
Whole(img) == [state |-> "whole", img |-> img]
Corrupt == [state |-> "corrupt", img |-> <<>>]
Unreadable == [state |-> "unreadable", img |-> <<>>]

\* find_entry: the first entry with the key, 0 if there is none.
Find(table, k) == SelectInSeq(table, LAMBDA e : e.key = k)
\* config_store_get_*: the table, then the JSON, then the caller's default.
Get(table, k) ==
    IF Find(table, k) # 0 THEN {table[Find(table, k)].val}
    ELSE IF Find(Factory, k) # 0 THEN {Factory[Find(Factory, k)].val} ELSE {}

\* blob_deserialize: add_entry appends until the table is full.  Past that
\* point the value bytes are not skipped, so it may succeed or give up.
OneShort(table, img) ==
    IF Len(table) + Len(img) < MAX_ENTRIES THEN table \o img
    ELSE SubSeq(table \o img, 1, MAX_ENTRIES - 1)
blob_deserialize(table, img) ==
    IF Len(table) + Len(img) <= MAX_ENTRIES THEN table \o img
    ELSE SubSeq(table \o img, 1, MAX_ENTRIES)
Overflows(img) == Len(Factory) + Len(img) > MAX_ENTRIES

Fault(what) == faults' = {what} /\ acked' = <<>> /\ tried' = {}
NoFault == UNCHANGED history

Init ==
    /\ entries = <<>> /\ health = 0 /\ storage_ready = FALSE
    /\ slot = [s \in Slots |-> Unreadable] /\ flag = "none"
    /\ pc = "off" /\ target = "A"
    /\ acked = <<>> /\ tried = {} /\ faults = {} /\ boots = 0

-----------------------------------------------------------------------------
\* config_store_init, one action per outcome of load_from_storage.
Booted ==
    /\ pc = "off" /\ boots < MaxBoots
    /\ pc' = "booted" /\ boots' = boots + 1
    /\ UNCHANGED <<slot, target>>

\* No storage, no flag, or the active slot cannot be read.
BootFactory ==
    /\ Booted
    /\ entries' = Factory /\ health' = 0
    /\ \/ storage_ready' = FALSE /\ NoFault
       \/ /\ flag # "none" => slot[flag] = Unreadable
          /\ storage_ready' = TRUE /\ NoFault
       \/ storage_ready' = TRUE /\ Fault("flag_read")
    /\ UNCHANGED flag
BootActive ==
    /\ Booted /\ flag # "none"
    /\ slot[flag].state = "whole"
    /\ entries' = blob_deserialize(Factory, slot[flag].img)
    /\ health' = 0 /\ storage_ready' = TRUE
    /\ UNCHANGED flag /\ NoFault
\* The active slot fails its CRC: the other slot is loaded and the flag moved
\* to it; the result of that write is ignored.
BootRecover ==
    /\ Booted /\ flag # "none"
    /\ slot[flag] = Corrupt /\ slot[Other(flag)].state = "whole"
    /\ entries' = blob_deserialize(Factory, slot[Other(flag)].img)
    /\ health' = 1 /\ storage_ready' = TRUE
    /\ flag' \in {flag, Other(flag), "none"}
    /\ NoFault
\* ... the other slot gives no image either.
TableLeftEmpty ==
    /\ Booted /\ flag # "none"
    /\ slot[flag] = Corrupt
    /\ \/ slot[Other(flag)] = Unreadable
       \/ slot[Other(flag)].state = "whole" /\ Overflows(slot[Other(flag)].img)
    /\ entries' = <<>>
    /\ health' = -1 /\ storage_ready' = TRUE
    /\ UNCHANGED flag /\ NoFault
BootNoImage ==
    /\ Booted /\ flag # "none"
    /\ slot[flag] = Corrupt
    /\ \/ slot[Other(flag)] = Unreadable
       \/ slot[Other(flag)].state = "whole" /\ Overflows(slot[Other(flag)].img)
    /\ entries' = Factory
    /\ health' = -1 /\ storage_ready' = TRUE
    /\ UNCHANGED flag /\ NoFault
\* ... or fails its CRC too: the nested call loads the factory defaults and
\* reports success, so the outer call moves the flag and sets health to 1.
BootBothCorrupt ==
    /\ Booted /\ flag # "none"
    /\ slot[flag] = Corrupt /\ slot[Other(flag)] = Corrupt
    /\ entries' = Factory
    /\ health' = 1 /\ storage_ready' = TRUE
    /\ flag' \in {flag, Other(flag), "none"}
    /\ NoFault
Boot == BootFactory \/ BootActive \/ BootRecover \/ BootNoImage \/ BootBothCorrupt

-----------------------------------------------------------------------------
Idle == pc \in {"booted", "run"}

\* config_store_set_*: a full table refuses a new key.
Set(k, v) ==
    /\ Idle
    /\ \/ /\ Find(entries, k) # 0
          /\ entries' = [entries EXCEPT ![Find(entries, k)].val = v]
       \/ /\ Find(entries, k) = 0 /\ Len(entries) < MAX_ENTRIES
          /\ entries' = Append(entries, [key |-> k, val |-> v])
    /\ pc' = "run"
    /\ UNCHANGED <<health, storage_ready, flash, target, history, boots>>

\* save_to_storage: written and read back, or failed in any state.
Saved(s) == slot' = [slot EXCEPT ![s] = Whole(entries)]
SaveFailed(s) == \E c \in {slot[s], Whole(entries), Corrupt, Unreadable} : slot' = [slot EXCEPT ![s] = c]

\* config_store_commit: a registered hook, if there is one, gets the image and
\* no slot is touched, ...
CommitHook ==
    /\ Idle
    /\ pc' = "run"
    /\ UNCHANGED <<ram, flash, target, history, boots>>
\* ... or the flag is read (a failed read gives 0xFF) and the other slot
\* chosen, ...
SameSlot ==
    /\ Idle /\ storage_ready
    /\ target' = IF flag = "B" THEN "B" ELSE "A"
    /\ pc' = "save"
    /\ UNCHANGED <<ram, flash, history, boots>>
CommitBegin ==
    /\ Idle /\ storage_ready
    /\ \/ target' = (IF flag = "A" THEN "B" ELSE "A") /\ NoFault
       \/ target' = "A" /\ Fault("flag_read")
    /\ pc' = "save"
    /\ UNCHANGED <<ram, flash, boots>>
\* ... written and verified, ...
CommitSave ==
    /\ pc = "save"
    /\ \/ Saved(target) /\ pc' = "flag" /\ UNCHANGED target
       \/ SaveFailed(target) /\ pc' = "run" /\ target' = "A"
    /\ UNCHANGED <<ram, flag, history, boots>>
\* ... and named by the flag: a write that fails or is cut may leave the old
\* value, the new one or a byte that names no slot.
FlagCut ==
    /\ flag' \in {flag, target, "none"}
    /\ tried' = {img \in tried \cup {entries} : faults = {} /\ \E s \in Slots : slot[s] = Whole(img)}
    /\ UNCHANGED <<acked, faults>>
CommitFlag ==
    /\ pc = "flag"
    /\ \/ flag' = target /\ acked' = entries /\ tried' = {} /\ faults' = {}
       \/ FlagCut
    /\ pc' = "run" /\ target' = "A"
    /\ UNCHANGED <<ram, slot, boots>>

\* config_store_factory_reset; the result of the erase is ignored.
ResetRam ==
    /\ Idle /\ ~storage_ready
    /\ entries' = Factory
    /\ pc' = "run"
    /\ UNCHANGED <<health, storage_ready, flash, target, history, boots>>
ResetErase ==
    /\ Idle /\ storage_ready
    /\ \E E \in SUBSET Slots : slot' = [s \in Slots |-> IF s \in E THEN Unreadable ELSE slot[s]]
    /\ flag' \in {flag, "none"}
    /\ entries' = Factory /\ health' = 0
    /\ target' = "A" /\ pc' = "save"
    /\ Fault("reset")
    /\ UNCHANGED <<storage_ready, boots>>

\* Power fails, possibly in the middle of a write; a slot rots.
Crash ==
    /\ pc # "off"
    /\ IF pc = "save" THEN SaveFailed(target) ELSE UNCHANGED slot
    /\ IF pc = "flag" THEN FlagCut ELSE UNCHANGED <<flag, history>>
    /\ pc' = "off" /\ target' = "A"
    /\ entries' = <<>> /\ health' = 0 /\ storage_ready' = FALSE
    /\ UNCHANGED boots
Rot(s) ==
    /\ pc = "off" /\ slot[s].state = "whole"
    /\ slot' = [slot EXCEPT ![s] = Corrupt]
    /\ Fault("rot")
    /\ UNCHANGED <<ram, flag, pc, target, boots>>

Next ==
    \/ Boot
    \/ \E k \in Keys, v \in Values : Set(k, v)
    \/ CommitHook \/ CommitBegin \/ CommitSave \/ CommitFlag
    \/ ResetRam \/ ResetErase
    \/ Crash
    \/ \E s \in Slots : Rot(s)

Spec == Init /\ [][Next]_vars

-----------------------------------------------------------------------------
\* Every variable has its type; the table never holds more than MAX_ENTRIES.
TypeOK ==
    /\ entries \in Seq(Entry) /\ Len(entries) <= MAX_ENTRIES
    /\ health \in {-1, 0, 1} /\ storage_ready \in BOOLEAN
    /\ \A s \in Slots : slot[s] \in {Corrupt, Unreadable} \/ slot[s] = Whole(slot[s].img)
    /\ flag \in Slots \cup {"none"} /\ target \in Slots
    /\ pc \in {"off", "booted", "run", "save", "flag"}
    /\ faults \subseteq {"rot", "flag_read", "reset"}
    /\ boots \in 0..MaxBoots

\* Power failures and failed writes never mix or lose images: with no other
\* fault since, a flag that names a slot names one that holds, whole, the image
\* of the last config_store_commit or factory reset that returned MINI_OK, or of
\* a later one that was cut or failed at its flag write.
Durable == {acked} \cup tried
AckedIntact == (faults = {} /\ flag # "none") => \E img \in Durable : slot[flag] = Whole(img)

\* After a restart without flash faults all keys the factory JSON does not have
\* read as one such image has them, while the table can hold factory and image.
UserKeysSurvive ==
    (pc = "booted" /\ faults = {} /\ storage_ready /\ flag # "none") =>
        \E img \in Durable :
            /\ slot[flag] = Whole(img)
            /\ ~Overflows(img) => \A k \in Keys \ FactoryKeys : Get(entries, k) = Get(img, k)

\* Whatever happened to flash, config_store_init ends with every factory entry
\* in the table.
FactoryLoaded == pc = "booted" => IsPrefix(Factory, entries)
=============================================================================
