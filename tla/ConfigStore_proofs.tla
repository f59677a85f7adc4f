------------------------ MODULE ConfigStore_proofs ------------------------
(***************************************************************************)
(* A commit that was acknowledged survives power failures and failed       *)
(* writes and is read again after a restart, and every boot loads the      *)
(* factory entries, for every table size, key set, value set and factory   *)
(* table.                                                                  *)
(***************************************************************************)
EXTENDS ConfigStore, WellFoundedInduction, TLAPS

\* What the invariant needs besides: a commit in progress writes the slot the
\* flag does not name, unless the flag could not be read or a reset runs.
TargetSpared ==
    /\ flag \in Slots \cup {"none"} /\ target \in Slots
    /\ DOMAIN slot = Slots
    /\ pc = "save" => (faults = {} => target # flag)
    /\ pc = "flag" => (slot[target] = Whole(entries) /\ (faults = {} => target # flag))

IInv == TargetSpared /\ AckedIntact

\* A slot that holds an image is neither torn nor erased.
LEMMA WholeIsSound == ASSUME NEW img PROVE Whole(img) # Corrupt /\ Whole(img) # Unreadable
BY DEF Whole, Corrupt, Unreadable

\* While flash is not at fault, a slot named by the flag holds an image.
LEMMA NamedIsWhole ==
    ASSUME IInv, faults = {}, flag # "none"
    PROVE  slot[flag] # Corrupt /\ slot[flag] # Unreadable
BY WholeIsSound DEF IInv, AckedIntact

\* The slots and the flag agree before the first boot: no flag is set.
LEMMA IInvInit == Init => IInv
BY DEF Init, IInv, TargetSpared, AckedIntact, Slots, Durable

\* A flag write that is cut leaves the flag on the slot it named, on the slot
\* just written, or on none.
LEMMA FlagCutKeeps ==
    ASSUME IInv, pc = "flag", FlagCut, UNCHANGED slot
    PROVE  flag' \in Slots \cup {"none"} /\ AckedIntact'
<1>1. flag' \in Slots \cup {"none"}
    BY DEF IInv, TargetSpared, FlagCut
<1>2. ASSUME faults' = {}, flag' # "none"
      PROVE  \E img \in Durable' : slot'[flag'] = Whole(img)
    <2>1. CASE flag' = target
        BY <1>2, <2>1 DEF IInv, TargetSpared, FlagCut, Durable
    <2>2. CASE flag' = flag
        BY <1>2, <2>2 DEF IInv, TargetSpared, AckedIntact, FlagCut, Durable
    <2> QED
        BY <1>2, <2>1, <2>2 DEF FlagCut
<1> QED
    BY <1>1, <1>2 DEF AckedIntact

\* Power failures, rot, calls and boots preserve the inductive invariant.
LEMMA IInvNext == IInv /\ [Next]_vars => IInv'
<1> SUFFICES ASSUME IInv, [Next]_vars PROVE IInv'
    OBVIOUS
<1> USE DEF IInv, TargetSpared, AckedIntact, Durable, Slots, Other
<1>1. CASE Boot
    <2>1. CASE BootFactory
        <3>1. faults' = {} => UNCHANGED history
            BY <2>1 DEF BootFactory, Fault, NoFault
        <3> QED
            BY <2>1, <3>1 DEF BootFactory, Booted, history
    <2>2. CASE BootActive
        BY <2>2 DEF BootActive, Booted, NoFault, history
    <2>3. CASE BootRecover
        <3>1. faults # {} /\ UNCHANGED <<slot, target, faults>> /\ pc' = "booted"
            BY <2>3, NamedIsWhole DEF BootRecover, Booted, NoFault, history
        <3> QED
            BY <2>3, <3>1 DEF BootRecover
    <2>4. CASE BootNoImage
        BY <2>4 DEF BootNoImage, Booted, NoFault, history
    <2>5. CASE BootBothCorrupt
        <3>1. faults # {} /\ UNCHANGED <<slot, target, faults>> /\ pc' = "booted"
            BY <2>5, NamedIsWhole DEF BootBothCorrupt, Booted, NoFault, history
        <3> QED
            BY <2>5, <3>1 DEF BootBothCorrupt
    <2> QED BY <1>1, <2>1, <2>2, <2>3, <2>4, <2>5 DEF Boot
<1>2. ASSUME NEW k \in Keys, NEW v \in Values, Set(k, v) PROVE IInv'
    BY <1>2 DEF Set, Idle, flash, history
<1>3. CASE CommitBegin
    BY <1>3 DEF CommitBegin, Idle, ram, flash, Fault, NoFault, history
<1>11. CASE CommitHook
    BY <1>11 DEF CommitHook, Idle, ram, flash, history
<1>4. CASE CommitSave
    <2>1. CASE Saved(target) /\ pc' = "flag" /\ UNCHANGED target
        BY <1>4, <2>1 DEF CommitSave, Saved, ram, history
    <2>2. CASE SaveFailed(target) /\ pc' = "run" /\ target' = "A"
        BY <1>4, <2>2 DEF CommitSave, SaveFailed, ram, history
    <2> QED BY <1>4, <2>1, <2>2 DEF CommitSave
<1>5. CASE CommitFlag
    BY <1>5, FlagCutKeeps DEF CommitFlag, ram
<1>6. CASE ResetRam
    BY <1>6 DEF ResetRam, Idle, flash, history
<1>7. CASE ResetErase
    BY <1>7 DEF ResetErase, Idle, Fault
<1>8. CASE Crash
    <2>1. CASE pc = "save"
        BY <1>8, <2>1 DEF Crash, SaveFailed, history
    <2>2. CASE pc = "flag"
        BY <1>8, <2>2, FlagCutKeeps DEF Crash
    <2>3. CASE pc \notin {"save", "flag"}
        BY <1>8, <2>3 DEF Crash, history
    <2> QED BY <2>1, <2>2, <2>3
<1>9. ASSUME NEW s \in Slots, Rot(s) PROVE IInv'
    BY <1>9 DEF Rot, ram, Fault
<1>10. CASE UNCHANGED vars
    BY <1>10 DEF vars, ram, flash, history
<1> QED
    BY <1>1, <1>2, <1>3, <1>4, <1>5, <1>6, <1>7, <1>8, <1>9, <1>10, <1>11 DEF Next

\* Until flash itself is at fault, a flag that names a slot names a whole image:
\* that of the last config_store_commit or config_store_factory_reset that
\* returned MINI_OK, or of a later one cut at its flag write; across power
\* failures in any step, the flag write included, and writes that fail with or
\* without effect.
THEOREM AckedCommitDurable == Spec => []AckedIntact
<1>1. IInv => AckedIntact
    BY DEF IInv
<1> QED
    BY <1>1, IInvInit, IInvNext, PTL DEF Spec

-----------------------------------------------------------------------------
\* A non-empty set of natural numbers has a least one.
LEMMA LeastExists ==
    ASSUME NEW T \in SUBSET Nat, T # {}
    PROVE  \E x \in T : \A y \in T : x <= y
<1> DEFINE R == {ss \in Nat \X Nat : ss[1] < ss[2]}
<1>1. IsWellFoundedOn(R, Nat)
    BY NatLessThanWellFounded DEF OpToRel
<1> HIDE DEF R
<1>2. PICK x \in T : \A y \in T : <<y, x>> \notin R
    BY <1>1, WFMin, Zenon
<1>3. ASSUME NEW y \in T PROVE x <= y
    <2>1. x \in Nat /\ y \in Nat
        OBVIOUS
    <2>2. ~(y < x)
        BY <1>2, <2>1, Zenon DEF R
    <2> QED
        BY <2>1, <2>2
<1> QED
    BY <1>3

\* find_entry gives the first position that has the key, and 0 for none.
LEMMA FindProperties ==
    ASSUME NEW table \in Seq(Entry), NEW k
    PROVE  /\ Find(table, k) = 0 => \A i \in 1..Len(table) : table[i].key # k
           /\ Find(table, k) # 0 =>
                /\ Find(table, k) \in 1..Len(table)
                /\ table[Find(table, k)].key = k
                /\ \A i \in 1..Len(table) : table[i].key = k => Find(table, k) <= i
<1> DEFINE I == {i \in 1..Len(table) : table[i].key = k}
<1>1. Find(table, k) = IF I # {} THEN Min(I) ELSE 0
    BY DEF Find, SelectInSeq
<1>2. CASE I = {}
    BY <1>1, <1>2
<1>3. CASE I # {}
    <2>0. I \in SUBSET Nat
        OBVIOUS
    <2> HIDE DEF I
    <2>1. \E x \in I : \A y \in I : x <= y
        BY <1>3, <2>0, LeastExists
    <2>2. Min(I) \in I /\ \A y \in I : Min(I) <= y
        BY <2>1 DEF Min
    <2> QED
        BY <1>1, <1>3, <2>2 DEF I
<1> QED
    BY <1>2, <1>3

\* A table whose first entries are those of another has it as a prefix.
LEMMA PrefixByEntries ==
    ASSUME NEW s \in Seq(Entry), NEW t \in Seq(Entry), Len(s) <= Len(t),
           \A i \in 1..Len(s) : s[i] = t[i]
    PROVE  IsPrefix(s, t)
<1>1. SubSeq(s, 1, Len(s)) \in Seq(Entry) /\ SubSeq(t, 1, Len(s)) \in Seq(Entry)
    OBVIOUS
<1>2. Len(SubSeq(s, 1, Len(s))) = Len(s) /\ Len(SubSeq(t, 1, Len(s))) = Len(s)
    OBVIOUS
<1>3. \A i \in 1..Len(s) : SubSeq(s, 1, Len(s))[i] = SubSeq(t, 1, Len(s))[i]
    OBVIOUS
<1>4. SubSeq(s, 1, Len(s)) = SubSeq(t, 1, Len(s))
    BY <1>1, <1>2, <1>3
<1> QED
    BY <1>4 DEF IsPrefix

\* blob_deserialize appends to the factory table, drops what does not fit and
\* leaves the factory entries where they are.
LEMMA Deserialized ==
    ASSUME NEW img \in Seq(Entry)
    PROVE  /\ blob_deserialize(Factory, img) \in Seq(Entry)
           /\ Len(blob_deserialize(Factory, img)) <= MAX_ENTRIES
           /\ IsPrefix(Factory, blob_deserialize(Factory, img))
<1> DEFINE all == Factory \o img
           out == blob_deserialize(Factory, img)
<1> USE ConfigStoreAssumption
<1>1. /\ all \in Seq(Entry) /\ Len(all) = Len(Factory) + Len(img)
      /\ \A i \in 1..Len(Factory) : all[i] = Factory[i]
    OBVIOUS
<1> HIDE DEF all
<1>2. out = IF Len(Factory) + Len(img) <= MAX_ENTRIES THEN all ELSE SubSeq(all, 1, MAX_ENTRIES)
    BY DEF blob_deserialize, all
<1> HIDE DEF out
<1>3. /\ out \in Seq(Entry) /\ Len(out) <= MAX_ENTRIES /\ Len(Factory) <= Len(out)
      /\ \A i \in 1..Len(Factory) : out[i] = all[i]
    <2>1. CASE Len(Factory) + Len(img) <= MAX_ENTRIES
        BY <1>1, <1>2, <2>1
    <2>2. CASE ~(Len(Factory) + Len(img) <= MAX_ENTRIES)
        BY <1>1, <1>2, <2>2
    <2> QED BY <2>1, <2>2
<1>4. IsPrefix(Factory, out)
    BY <1>1, <1>3, PrefixByEntries
<1> QED
    BY <1>3, <1>4 DEF out

\* What load_from_storage puts in the table: the factory entries, and behind
\* them the image the flag names when flash is not at fault and it fits.
Loaded ==
    /\ TypeOK
    /\ \A s \in Slots : slot[s].img \in Seq(Entry)
    /\ FactoryLoaded
    /\ (pc = "booted" /\ faults = {} /\ storage_ready /\ flag # "none" /\ ~Overflows(slot[flag].img)) =>
         entries = Factory \o slot[flag].img

\* Before the first boot nothing is loaded.
LEMMA LoadedInit == Init => Loaded
<1> SUFFICES ASSUME Init PROVE Loaded
    OBVIOUS
<1>1. storage_ready \in BOOLEAN
    BY Zenon DEF Init
<1>2. <<>> \in Seq(Entry) /\ Len(<<>>) = 0
    OBVIOUS
<1>3. \A s \in Slots : slot[s] = Unreadable /\ slot[s].img = <<>>
    BY DEF Init, Unreadable
<1>4. /\ entries = <<>> /\ health = 0 /\ flag = "none" /\ pc = "off" /\ target = "A"
      /\ faults = {} /\ boots = 0
    BY DEF Init
<1>5. entries \in Seq(Entry) /\ Len(entries) <= MAX_ENTRIES
    BY <1>2, <1>4, ConfigStoreAssumption
<1>6. /\ health \in {-1, 0, 1} /\ flag \in Slots \cup {"none"} /\ target \in Slots
      /\ pc \in {"off", "booted", "run", "save", "flag"} /\ faults \subseteq {"rot", "flag_read", "reset"}
      /\ boots \in 0..MaxBoots
    BY <1>4, ConfigStoreAssumption DEF Slots
<1>7. \A s \in Slots : slot[s] \in {Corrupt, Unreadable} /\ slot[s].img \in Seq(Entry)
    BY <1>2, <1>3, Zenon
<1> QED
    BY <1>1, <1>4, <1>5, <1>6, <1>7 DEF Loaded, TypeOK, FactoryLoaded

\* Each way to boot loads the factory table, and the acknowledged image behind
\* it when flash has not been at fault.
LEMMA LoadedBoot == IInv /\ Loaded /\ Boot => Loaded'
<1> SUFFICES ASSUME IInv, Loaded, Boot PROVE Loaded'
    OBVIOUS
<1> USE ConfigStoreAssumption
<1>0. Factory \in Seq(Entry) /\ Len(Factory) <= MAX_ENTRIES /\ IsPrefix(Factory, Factory)
    BY PrefixByEntries
<1>1. ASSUME Booted, entries' \in Seq(Entry), Len(entries') <= MAX_ENTRIES,
             IsPrefix(Factory, entries'), health' \in {-1, 0, 1}, storage_ready' \in BOOLEAN,
             flag' \in Slots \cup {"none"}, NoFault \/ Fault("flag_read"),
             (faults' = {} /\ storage_ready' /\ flag' # "none" /\ ~Overflows(slot[flag'].img)) =>
                 entries' = Factory \o slot[flag'].img
      PROVE  Loaded'
    <2>1. /\ pc' = "booted" /\ slot' = slot /\ target' = target /\ boots' \in 0..MaxBoots
        BY <1>1 DEF Loaded, TypeOK, Booted
    <2>2. faults' \subseteq {"rot", "flag_read", "reset"}
        BY <1>1 DEF Loaded, TypeOK, NoFault, history, Fault
    <2> QED
        BY <1>1, <2>1, <2>2 DEF Loaded, TypeOK, FactoryLoaded
<1>2. flag \in Slots \cup {"none"} /\ Other(flag) \in Slots
    BY DEF IInv, TargetSpared, Other, Slots
<1>3. CASE BootFactory
    <2>1. storage_ready' \in BOOLEAN
        BY <1>3, Zenon DEF BootFactory
    <2>2. ASSUME faults' = {}, storage_ready', flag' # "none" PROVE FALSE
        BY <1>3, <2>2, NamedIsWhole DEF BootFactory, Fault, NoFault, history
    <2>3. /\ Booted /\ entries' = Factory /\ health' = 0 /\ flag' = flag
          /\ NoFault \/ Fault("flag_read")
        BY <1>3 DEF BootFactory
    <2> QED
        BY <1>0, <1>1, <1>2, <2>1, <2>2, <2>3
<1>4. CASE BootActive
    <2>1. storage_ready' \in BOOLEAN
        BY <1>4, Zenon DEF BootActive
    <2>2. /\ Booted /\ health' = 0 /\ flag' = flag /\ flag # "none" /\ NoFault
          /\ entries' = blob_deserialize(Factory, slot[flag].img)
        BY <1>4 DEF BootActive
    <2>3. ASSUME ~Overflows(slot[flag].img) PROVE entries' = Factory \o slot[flag].img
        <3>1. Len(Factory) + Len(slot[flag].img) <= MAX_ENTRIES
            BY <1>2, <2>2, <2>3 DEF Overflows, Loaded
        <3> QED
            BY <2>2, <3>1 DEF blob_deserialize
    <2>4. slot[flag].img \in Seq(Entry)
        BY <1>2, <2>2 DEF Loaded
    <2>5. /\ entries' \in Seq(Entry) /\ Len(entries') <= MAX_ENTRIES
          /\ IsPrefix(Factory, entries')
        BY <2>2, <2>4, Deserialized
    <2> QED
        BY <1>1, <1>2, <2>1, <2>2, <2>3, <2>5
<1>5. CASE BootRecover
    <2>1. storage_ready' \in BOOLEAN
        BY <1>5, Zenon DEF BootRecover
    <2>2. /\ Booted /\ health' = 1 /\ flag' \in {flag, Other(flag), "none"} /\ NoFault
          /\ entries' = blob_deserialize(Factory, slot[Other(flag)].img)
        BY <1>5 DEF BootRecover
    <2>3. faults' # {}
        BY <1>5, NamedIsWhole DEF BootRecover, NoFault, history
    <2>4. slot[Other(flag)].img \in Seq(Entry)
        BY <1>2 DEF Loaded
    <2>5. /\ entries' \in Seq(Entry) /\ Len(entries') <= MAX_ENTRIES
          /\ IsPrefix(Factory, entries')
        BY <2>2, <2>4, Deserialized
    <2> QED
        BY <1>1, <1>2, <2>1, <2>2, <2>3, <2>5
<1>6. CASE BootNoImage
    <2>1. storage_ready' \in BOOLEAN
        BY <1>6, Zenon DEF BootNoImage
    <2>2. Booted /\ entries' = Factory /\ health' = -1 /\ flag' = flag /\ NoFault
        BY <1>6 DEF BootNoImage
    <2>3. faults' # {}
        BY <1>6, NamedIsWhole DEF BootNoImage, NoFault, history
    <2> QED
        BY <1>0, <1>1, <1>2, <2>1, <2>2, <2>3
<1>7. CASE BootBothCorrupt
    <2>1. storage_ready' \in BOOLEAN
        BY <1>7, Zenon DEF BootBothCorrupt
    <2>2. Booted /\ entries' = Factory /\ health' = 1 /\ flag' \in {flag, Other(flag), "none"} /\ NoFault
        BY <1>7 DEF BootBothCorrupt
    <2>3. faults' # {}
        BY <1>7, NamedIsWhole DEF BootBothCorrupt, NoFault, history
    <2> QED
        BY <1>0, <1>1, <1>2, <2>1, <2>2, <2>3
<1> QED
    BY <1>3, <1>4, <1>5, <1>6, <1>7 DEF Boot

\* What the other steps keep: only a boot brings the table to "booted".
LEMMA LoadedKept ==
    ASSUME Loaded, entries' \in Seq(Entry), Len(entries') <= MAX_ENTRIES,
           health' \in {-1, 0, 1}, storage_ready' \in BOOLEAN,
           \A s \in Slots : /\ slot'[s] \in {Corrupt, Unreadable} \/ slot'[s] = Whole(slot'[s].img)
                            /\ slot'[s].img \in Seq(Entry),
           flag' \in Slots \cup {"none"}, target' \in Slots,
           pc' \in {"off", "run", "save", "flag"},
           faults' \subseteq {"rot", "flag_read", "reset"},
           boots' = boots
    PROVE  Loaded'
BY DEF Loaded, TypeOK, FactoryLoaded

\* A slot that is written whole, torn or erased still holds typed entries.
LEMMA SlotWritten ==
    ASSUME IInv, Loaded, NEW s \in Slots,
           NEW c \in {slot[s], Whole(entries), Corrupt, Unreadable},
           slot' = [slot EXCEPT ![s] = c]
    PROVE  \A t \in Slots : /\ slot'[t] \in {Corrupt, Unreadable} \/ slot'[t] = Whole(slot'[t].img)
                            /\ slot'[t].img \in Seq(Entry)
<1> SUFFICES ASSUME NEW t \in Slots
             PROVE  /\ slot'[t] \in {Corrupt, Unreadable} \/ slot'[t] = Whole(slot'[t].img)
                    /\ slot'[t].img \in Seq(Entry)
    OBVIOUS
<1>1. slot'[t] = IF t = s THEN c ELSE slot[t]
    BY DEF IInv, TargetSpared
<1>2. ASSUME slot'[t] = slot[t]
      PROVE  /\ slot'[t] \in {Corrupt, Unreadable} \/ slot'[t] = Whole(slot'[t].img)
             /\ slot'[t].img \in Seq(Entry)
    BY <1>2 DEF Loaded, TypeOK
<1>3. ASSUME slot'[t] \in {Corrupt, Unreadable}
      PROVE  slot'[t].img \in Seq(Entry)
    <2>1. Corrupt.img = <<>> /\ Unreadable.img = <<>>
        BY DEF Corrupt, Unreadable
    <2>2. <<>> \in Seq(Entry)
        OBVIOUS
    <2> QED
        BY <1>3, <2>1, <2>2, Zenon
<1>4. ASSUME slot'[t] = Whole(entries)
      PROVE  slot'[t] = Whole(slot'[t].img) /\ slot'[t].img \in Seq(Entry)
    BY <1>4 DEF Whole, Loaded, TypeOK
<1> QED
    BY <1>1, <1>2, <1>3, <1>4

\* Calls, resets, power failures and rot keep the loaded table sound.
LEMMA LoadedNext == IInv /\ Loaded /\ [Next]_vars => Loaded'
<1> SUFFICES ASSUME IInv, Loaded, [Next]_vars PROVE Loaded'
    OBVIOUS
<1> USE ConfigStoreAssumption
<1>0. /\ entries \in Seq(Entry) /\ Len(entries) <= MAX_ENTRIES
      /\ health \in {-1, 0, 1} /\ storage_ready \in BOOLEAN
      /\ \A s \in Slots : /\ slot[s] \in {Corrupt, Unreadable} \/ slot[s] = Whole(slot[s].img)
                          /\ slot[s].img \in Seq(Entry)
      /\ flag \in Slots \cup {"none"} /\ target \in Slots
      /\ faults \subseteq {"rot", "flag_read", "reset"}
    BY DEF Loaded, TypeOK
<1>e. <<>> \in Seq(Entry) /\ Len(<<>>) <= MAX_ENTRIES /\ "A" \in Slots /\ "B" \in Slots
    BY DEF Slots
<1>1. CASE Boot
    BY <1>1, LoadedBoot
<1>2. ASSUME NEW k \in Keys, NEW v \in Values, Set(k, v) PROVE Loaded'
    <2>1. entries' \in Seq(Entry) /\ Len(entries') <= MAX_ENTRIES
        <3>1. CASE Find(entries, k) # 0
            <4>1. Find(entries, k) \in 1..Len(entries)
                BY <1>0, <3>1, FindProperties
            <4>2. entries' = [entries EXCEPT ![Find(entries, k)].val = v]
                BY <1>2, <3>1 DEF Set
            <4>3. [entries[Find(entries, k)] EXCEPT !.val = v] \in Entry
                <5>1. entries[Find(entries, k)] \in Entry
                    BY <1>0, <4>1
                <5> QED
                    BY <5>1 DEF Entry
            <4> QED
                BY <1>0, <4>1, <4>2, <4>3
        <3>2. CASE Find(entries, k) = 0
            <4>1. Len(entries) < MAX_ENTRIES /\ entries' = Append(entries, [key |-> k, val |-> v])
                BY <1>2, <3>2 DEF Set
            <4>2. [key |-> k, val |-> v] \in Entry
                BY DEF Entry
            <4> QED
                BY <1>0, <4>1, <4>2
        <3> QED
            BY <3>1, <3>2
    <2> QED
        BY <1>0, <1>2, <2>1, LoadedKept DEF Set, flash, history
<1>3. CASE CommitBegin
    <2>1. /\ target' \in Slots
          /\ faults' \subseteq {"rot", "flag_read", "reset"}
        BY <1>0, <1>3, <1>e, Zenon DEF CommitBegin, Fault, NoFault, history
    <2>2. /\ pc' = "save" /\ entries' = entries /\ health' = health /\ slot' = slot
          /\ storage_ready' = storage_ready /\ flag' = flag /\ boots' = boots
        BY <1>3 DEF CommitBegin, ram, flash
    <2> QED
        BY <1>0, <2>1, <2>2, LoadedKept
<1>11. CASE CommitHook
    <2>1. /\ pc' = "run" /\ entries' = entries /\ health' = health /\ slot' = slot
          /\ storage_ready' = storage_ready /\ flag' = flag /\ boots' = boots
          /\ target' = target /\ faults' = faults
        BY <1>11 DEF CommitHook, ram, flash, history
    <2> QED
        BY <1>0, <2>1, LoadedKept
<1>4. CASE CommitSave
    <2>1. PICK c \in {slot[target], Whole(entries), Corrupt, Unreadable} :
              slot' = [slot EXCEPT ![target] = c]
        BY <1>4 DEF CommitSave, Saved, SaveFailed
    <2>2. /\ pc' \in {"flag", "run"} /\ entries' = entries /\ health' = health
          /\ storage_ready' = storage_ready /\ flag' = flag /\ boots' = boots
          /\ target' \in {target, "A"} /\ faults' = faults
        BY <1>4 DEF CommitSave, ram, history
    <2>3. \A t \in Slots : /\ slot'[t] \in {Corrupt, Unreadable} \/ slot'[t] = Whole(slot'[t].img)
                           /\ slot'[t].img \in Seq(Entry)
        BY <1>0, <2>1, SlotWritten, Zenon
    <2> QED
        BY <1>0, <1>e, <2>2, <2>3, LoadedKept
<1>5. CASE CommitFlag
    <2>1. /\ pc' = "run" /\ entries' = entries /\ health' = health /\ slot' = slot
          /\ storage_ready' = storage_ready /\ boots' = boots /\ target' = "A"
          /\ flag' \in {flag, target, "none"} /\ faults' \in {faults, {}}
        BY <1>5 DEF CommitFlag, FlagCut, ram
    <2> QED
        BY <1>0, <1>e, <2>1, LoadedKept
<1>6. CASE ResetRam
    <2>1. /\ pc' = "run" /\ entries' = Factory /\ health' = health /\ slot' = slot
          /\ storage_ready' = storage_ready /\ boots' = boots /\ target' = target
          /\ flag' = flag /\ faults' = faults
        BY <1>6 DEF ResetRam, flash, history
    <2> QED
        BY <1>0, <2>1, LoadedKept
<1>7. CASE ResetErase
    <2>1. /\ pc' = "save" /\ entries' = Factory /\ health' = 0 /\ target' = "A"
          /\ storage_ready' = storage_ready /\ boots' = boots /\ flag' \in {flag, "none"}
        BY <1>7 DEF ResetErase
    <2>2. faults' = {"reset"}
        BY <1>7 DEF ResetErase, Fault
    <2>3. \A s \in Slots : slot'[s] \in {Unreadable, slot[s]}
        BY <1>7 DEF ResetErase
    <2>4. \A s \in Slots : /\ slot'[s] \in {Corrupt, Unreadable} \/ slot'[s] = Whole(slot'[s].img)
                           /\ slot'[s].img \in Seq(Entry)
        <3>1. Unreadable.img = <<>>
            BY DEF Unreadable
        <3> QED
            BY <1>0, <1>e, <2>3, <3>1, Zenon
    <2> QED
        BY <1>0, <1>e, <2>1, <2>2, <2>4, LoadedKept
<1>8. CASE Crash
    <2>1. \A t \in Slots : /\ slot'[t] \in {Corrupt, Unreadable} \/ slot'[t] = Whole(slot'[t].img)
                           /\ slot'[t].img \in Seq(Entry)
        <3>1. CASE pc = "save"
            <4>1. PICK c \in {slot[target], Whole(entries), Corrupt, Unreadable} :
                      slot' = [slot EXCEPT ![target] = c]
                BY <1>8, <3>1 DEF Crash, SaveFailed
            <4> QED
                BY <1>0, <4>1, SlotWritten, Zenon
        <3>2. CASE pc # "save"
            BY <1>0, <1>8, <3>2 DEF Crash
        <3> QED
            BY <3>1, <3>2
    <2>2. storage_ready' \in BOOLEAN
        BY <1>8, Zenon DEF Crash
    <2>3. /\ pc' = "off" /\ entries' = <<>> /\ health' = 0 /\ target' = "A"
          /\ boots' = boots /\ flag' \in {flag, target, "none"} /\ faults' = faults
        BY <1>8 DEF Crash, FlagCut, history
    <2> QED
        BY <1>0, <1>e, <2>1, <2>2, <2>3, LoadedKept
<1>9. ASSUME NEW s \in Slots, Rot(s) PROVE Loaded'
    <2>1. /\ pc' = "off" /\ entries' = entries /\ health' = health /\ target' = target
          /\ storage_ready' = storage_ready /\ boots' = boots /\ flag' = flag
          /\ slot' = [slot EXCEPT ![s] = Corrupt]
        BY <1>9 DEF Rot, ram
    <2>2. faults' = {"rot"}
        BY <1>9 DEF Rot, Fault
    <2>3. \A t \in Slots : /\ slot'[t] \in {Corrupt, Unreadable} \/ slot'[t] = Whole(slot'[t].img)
                           /\ slot'[t].img \in Seq(Entry)
        BY <2>1, SlotWritten, Zenon
    <2> QED
        BY <1>0, <1>e, <2>1, <2>2, <2>3, LoadedKept
<1>10. CASE UNCHANGED vars
    BY <1>10 DEF vars, ram, flash, history, Loaded, TypeOK, FactoryLoaded
<1> QED
    BY <1>1, <1>2, <1>3, <1>4, <1>5, <1>6, <1>7, <1>8, <1>9, <1>10, <1>11 DEF Next

\* The table never holds more than MAX_ENTRIES entries and every slot is whole,
\* corrupt or unreadable, for every factory table and table size.
THEOREM StoreTypes == Spec => []TypeOK
<1>1. Loaded => TypeOK
    BY DEF Loaded
<1> QED
    BY <1>1, IInvInit, IInvNext, LoadedInit, LoadedNext, PTL DEF Spec

\* config_store_init ends with every factory entry in the table, whatever power
\* failures, failed writes and rot did to the slots and the flag.
THEOREM FactoryAlwaysLoaded == Spec => []FactoryLoaded
<1>1. Loaded => FactoryLoaded
    BY DEF Loaded
<1> QED
    BY <1>1, IInvInit, IInvNext, LoadedInit, LoadedNext, PTL DEF Spec

\* Behind a table without the key, find_entry finds what it finds in the image.
LEMMA GetBehindFactory ==
    ASSUME NEW img \in Seq(Entry), NEW k \in Keys \ FactoryKeys
    PROVE  Get(Factory \o img, k) = Get(img, k)
<1> DEFINE all == Factory \o img
           n == Len(Factory)
           f == Find(img, k)
           g == Find(all, k)
<1>1. /\ all \in Seq(Entry) /\ n \in Nat /\ Len(all) = n + Len(img) /\ Len(img) \in Nat
      /\ \A i \in 1..n : all[i] = Factory[i]
      /\ \A i \in 1..Len(img) : all[n + i] = img[i]
    BY ConfigStoreAssumption
<1>2. \A i \in 1..n : all[i].key # k
    BY <1>1, ConfigStoreAssumption DEF FactoryKeys
<1>3. /\ f = 0 => \A i \in 1..Len(img) : img[i].key # k
      /\ f # 0 => /\ f \in 1..Len(img) /\ img[f].key = k
                  /\ \A i \in 1..Len(img) : img[i].key = k => f <= i
    BY FindProperties
<1> HIDE DEF all
<1>4. /\ g = 0 => \A i \in 1..Len(all) : all[i].key # k
      /\ g # 0 => /\ g \in 1..Len(all) /\ all[g].key = k
                  /\ \A i \in 1..Len(all) : all[i].key = k => g <= i
    BY <1>1, FindProperties
<1> HIDE DEF n, f, g
<1>5. CASE f = 0
    <2>1. g = 0
        <3> SUFFICES ASSUME g # 0 PROVE FALSE
            OBVIOUS
        <3>1. g \in 1..(n + Len(img)) /\ all[g].key = k
            BY <1>1, <1>4
        <3>2. g - n \in 1..Len(img) /\ all[n + (g - n)] = all[g]
            BY <1>1, <1>2, <3>1
        <3> QED
            BY <1>1, <1>3, <1>5, <3>1, <3>2, Zenon
    <2> QED
        BY <1>5, <2>1 DEF Get, all, f, g
<1>6. CASE f # 0
    <2>1. f \in 1..Len(img) /\ all[n + f] = img[f] /\ all[n + f].key = k
        BY <1>1, <1>3, <1>6
    <2>2. g # 0
        BY <1>1, <1>4, <2>1
    <2>3. g \in 1..(n + Len(img)) /\ all[g].key = k /\ g <= n + f
        BY <1>1, <1>4, <2>1, <2>2
    <2>4. g - n \in 1..Len(img) /\ all[n + (g - n)] = all[g]
        BY <1>1, <1>2, <2>3
    <2>5. f <= g - n
        BY <1>1, <1>3, <1>6, <2>3, <2>4
    <2>6. g = n + f
        BY <1>1, <2>1, <2>3, <2>5
    <2>7. all[g].val = img[f].val
        BY <2>1, <2>6
    <2> QED
        BY <1>6, <2>2, <2>7 DEF Get, all, f, g
<1> QED
    BY <1>5, <1>6

\* A key that is not in the factory JSON reads as committed after a restart:
\* no fault-free sequence of commits, power failures and boots loses it, as
\* long as the table can hold the factory entries and the committed ones.
THEOREM UserKeysKept == Spec => []UserKeysSurvive
<1>1. IInv /\ Loaded => UserKeysSurvive
    <2> SUFFICES ASSUME IInv, Loaded, pc = "booted", faults = {}, storage_ready, flag # "none"
                 PROVE  \E img \in Durable :
                            /\ slot[flag] = Whole(img)
                            /\ ~Overflows(img) =>
                                 \A k \in Keys \ FactoryKeys : Get(entries, k) = Get(img, k)
        BY DEF UserKeysSurvive
    <2>1. PICK img \in Durable : slot[flag] = Whole(img)
        BY DEF IInv, AckedIntact
    <2>2. slot[flag].img = img /\ img \in Seq(Entry)
        BY <2>1 DEF Whole, Loaded, IInv, TargetSpared
    <2>3. ASSUME ~Overflows(img), NEW k \in Keys \ FactoryKeys
          PROVE  Get(entries, k) = Get(img, k)
        <3>1. entries = Factory \o img
            BY <2>2, <2>3 DEF Loaded
        <3> QED
            BY <2>2, <3>1, GetBehindFactory
    <2> QED
        BY <2>1, <2>3
<1> QED
    BY <1>1, IInvInit, IInvNext, LoadedInit, LoadedNext, PTL DEF Spec
=============================================================================
