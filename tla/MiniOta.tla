------------------------------- MODULE MiniOta -------------------------------
(***************************************************************************)
(* Firmware update of mini-ota (lib/mini-ota/bootutil): the state word in  *)
(* its flash sector, the boot loader's choice of a partition, download,    *)
(* activation, trial run, confirmation and roll-back, across power         *)
(* failures and failing flash operations.                                  *)
(*                                                                         *)
(*   log      the state sector: one entry per two-word record: Blank, Half *)
(*            (no check word), Torn, or the durable bits of a state word   *)
(*   ram      s_ota_state of the program that is running                   *)
(*   size     s_downloaded_size                                            *)
(*   part     the image partitions: which image, how many of its chunks    *)
(*   job      the record flash_state_store is writing                      *)
(*   target   the image and partition of the download in progress          *)
(*   running  the partition the application was started from               *)
(*                                                                         *)
(* Boot loader and application are two programs, each with a zeroed        *)
(* s_ota_state.  The application is the environment.  If Refreshes it      *)
(* refreshes its copy of the state before it updates and does not download *)
(* while a trial is pending; if not it updates as the library's README     *)
(* shows.  Either way it checks a partition with mini_boot_backup before   *)
(* selecting it and resets after an activation.                            *)
(* Images have one of the plain, digest-checked modes: an encrypted one    *)
(* cannot be executed where it lies.                                       *)
(***************************************************************************)
EXTENDS Integers, FiniteSetsExt, TLC

CONSTANTS Slots,      \* records that fit in the state sector
          Image,      \* images: [id, len (chunks), sound (digest matches)]
          Factory,    \* the image programmed at production
          Builds,     \* [dual |-> OTA_DUAL_PARTITION, check |-> image_len given]
          Refreshes,  \* the application calls mini_boot_state_refresh
          Blank, Half, Torn, Nowhere,
          MaxFaults   \* bound: flash operations that fail

VARIABLES build, log, ram, size, part, pc, job, target, running,
          fresh,    \* the application's copy of the state is the stored one
          faults,
          harm,     \* history: what happened to the state word
          home,     \* history: the partition last confirmed
          tries     \* history: starts of the image on trial

vars == <<build, log, ram, size, part, pc, job, target, running, fresh,
          faults, harm, home, tries>>

Partition == 0 .. 1

(* The bits of OTA_STATE_DURABLE_MASK, and the run-time switches. *)
Word == [current : Partition, pending : BOOLEAN, trial : BOOLEAN,
         fail : {"none", "error"}]   \* one failure code stands for the three
Zero == [current |-> 0, pending |-> FALSE, trial |-> FALSE, fail |-> "none"]
Bss == Zero @@ [open |-> FALSE, rollback |-> FALSE]
NoJob == [word |-> Zero, erase |-> FALSE, kind |-> "none",
          ok |-> "off", bad |-> "off"]
NoTarget == [img |-> Factory, at |-> Nowhere]

ASSUME OtaAssumption ==
    /\ Slots \in Nat \ {0} /\ MaxFaults \in Nat /\ Refreshes \in BOOLEAN
    /\ Factory \in Image /\ Factory.sound
    /\ \A i \in Image : i.len \in Nat \ {0}
    /\ Nowhere \notin Partition

(* state_scan: the records up to the first blank or invalid one. *)
Used(l) == Max({n \in 0 .. Slots : \A i \in 1 .. n : l[i] \in Word})

(* ota_state_load; every caller reads "no record" as 0. *)
Load(l) == IF Used(l) = 0 THEN Zero ELSE l[Used(l)]

OnlyWhenFull(l) == Used(l) = Slots

(* The place of the next record must exist and be blank. *)
NeedsErase(l) == Used(l) = Slots \/ l[Used(l) + 1] # Blank

(* What an interrupted sector erase may leave of a log. *)
HalfErased(l) ==
    {[i \in 1 .. Slots |-> IF i \in gone THEN Blank ELSE IF i \in bad THEN Torn ELSE l[i]] :
        gone \in SUBSET (1 .. Slots), bad \in SUBSET (1 .. Slots)}

Fault == faults < MaxFaults /\ faults' = faults + 1
Harmed(yes, what) == harm' = IF yes THEN harm \cup {what} ELSE harm

WholeWordStored(r, bits, kind, ok, bad) ==
    /\ ram' = bits @@ r
    /\ job' = [word |-> [f \in DOMAIN Zero |-> (bits @@ r)[f]], erase |-> NeedsErase(log),
               kind |-> kind, ok |-> ok, bad |-> bad]
    /\ pc' = IF NeedsErase(log) THEN "erase" ELSE "word"
    /\ UNCHANGED <<faults, harm>>

(* state_update: the bits change in RAM, then ota_state_update reads the   *)
(* stored word, changes the same bits and stores it.  A load that fails    *)
(* for any reason counts as "no record".                                   *)
Update(r, bits, kind, ok, bad) ==
    LET Begin(base) == /\ job' = [word |-> bits @@ base, erase |-> NeedsErase(log),
                                  kind |-> kind, ok |-> ok, bad |-> bad]
                       /\ pc' = IF NeedsErase(log) THEN "erase" ELSE "word"
    IN /\ ram' = bits @@ r
       /\ \/ Begin(Load(log)) /\ UNCHANGED <<faults, harm>>
          \/ Fault /\ Begin(Zero) /\ Harmed(Load(log) # Zero, "zeroed")
          \/ /\ Fault /\ pc' = bad /\ Harmed(bad = "jump", "unsaved")
             /\ UNCHANGED job

(* A store that ends early after it began to erase takes the old record    *)
(* with it.                                                                *)
Storing == pc \in {"erase", "word", "check"}
Wiped(l) == Storing /\ job.erase /\ (pc = "erase" => l # log)

(* A flash operation of the store fails: the caller is told.  The boot     *)
(* loader ignores it.                                                      *)
StoreFails(l) ==
    /\ Fault /\ log' = l /\ pc' = job.bad /\ job' = NoJob
    /\ harm' = harm \cup (IF Wiped(l) THEN {"wiped"} ELSE {})
                    \cup (IF job.bad = "jump" THEN {"unsaved"} ELSE {})
    /\ UNCHANGED <<build, ram, size, part, target, running, fresh, home, tries>>

(* Programming only clears bits: it gives x where it is meant to, on old. *)
Over(old, x) == IF log[Used(log) + 1] = old THEN x ELSE Torn
Put(x) == [log EXCEPT ![Used(log) + 1] = x]

(* flash_state_store: erase if needed, then the state word, then the check *)
(* word that makes the record valid.                                       *)
Erase ==
    /\ pc = "erase"
    /\ log' = [i \in 1 .. Slots |-> Blank] /\ pc' = "word"
    /\ UNCHANGED <<build, ram, size, part, job, target, running, fresh, faults, harm, home, tries>>

EraseFails == pc = "erase" /\ \E l \in HalfErased(log) : StoreFails(l)

WriteWord ==
    /\ pc = "word"
    /\ log' = Put(Over(Blank, Half)) /\ pc' = "check"
    /\ UNCHANGED <<build, ram, size, part, job, target, running, fresh, faults, harm, home, tries>>

WriteFails ==
    \/ pc = "word" /\ \E x \in {log[Used(log) + 1], Torn} : StoreFails(Put(x))
    \/ pc = "check" /\ StoreFails(log)

Settles(j) == \/ j.kind \in {"confirm", "select"}
              \/ j.kind = "activate" /\ ~j.word.pending

(* The record is valid.  The history notes which partition is confirmed    *)
(* from now on and that a new trial begins.                                *)
CheckLands ==
    /\ pc = "check"
    /\ log' = Put(Over(Half, job.word)) /\ job' = NoJob
    /\ home' = IF Settles(job) THEN job.word.current ELSE home
    /\ tries' = IF job.kind \in {"confirm", "activate"} THEN 0 ELSE tries
    /\ UNCHANGED <<build, ram, size, part, target, running, fresh, harm>>

WriteCheck == CheckLands /\ pc' = job.ok /\ UNCHANGED faults

(* The check word is in place but its write is reported as failed. *)
WriteCheckFails == CheckLands /\ Fault /\ pc' = job.bad

NotFlipped(w) == [current |-> w.current, pending |-> FALSE, trial |-> FALSE, fail |-> "error"]

(* ota_state_resolve_pending. *)
Resolved(w) == [current |-> 1 - w.current, pending |-> FALSE, trial |-> FALSE, fail |-> "error"]

(* mini_boot_state_load, with the board's main function ignoring an error  *)
(* of the load: a pending image is let go once, the next time it is rolled *)
(* back.                                                                   *)
Boot ==
    LET w == Load(log)
        r == w @@ Bss
    IN /\ pc = "off"
       /\ \/ ~w.pending /\ ram' = r /\ pc' = "jump" /\ UNCHANGED <<job, faults, harm>>
          \/ w.pending /\ ~w.trial /\ Update(r, [trial |-> TRUE], "trial", "jump", "jump")
          \/ w.pending /\ w.trial /\ Update(r, Resolved(w), "rollback", "jump", "jump")
          \/ /\ Fault /\ ram' = Bss /\ pc' = "jump"
             /\ Harmed(w # Zero, "zeroed") /\ UNCHANGED job
       /\ UNCHANGED <<build, log, size, part, target, running, fresh, home, tries>>

Whole(c) == c.got = c.img.len

(* image_verify_stream over the first n chunks: the meta data must end     *)
(* there and the digest must match.                                        *)
Verifies(c, n) == Whole(c) /\ n = c.img.len /\ c.img.sound

(* boot_jump_switch_app: the vector table is in the first chunk; the whole *)
(* image is checked only if the board gives its length.                    *)
Bootable(c) == c.got > 0 /\ (build.check => Verifies(c, c.img.len))

Selected == IF build.dual THEN ram.current ELSE 0

JumpToApp ==
    /\ pc = "jump" /\ Bootable(part[Selected])
    /\ running' = Selected /\ ram' = Bss /\ pc' = "app"
    /\ tries' = IF ram.pending THEN tries + 1 ELSE tries
    /\ UNCHANGED <<build, log, size, part, job, target, fresh, faults, harm, home>>

JumpRefused ==
    /\ pc = "jump" /\ ~Bootable(part[Selected])
    /\ pc' = "halt"
    /\ UNCHANGED <<build, log, ram, size, part, job, target, running, fresh, faults, harm, home, tries>>

(* ota_open, ota_close, ota_rollback_open, ota_rollback_close. *)
SetSwitch ==
    /\ pc = "app"
    /\ \E b \in BOOLEAN : \/ ram' = [ram EXCEPT !.open = b]
                          \/ ram' = [ram EXCEPT !.rollback = b]
    /\ UNCHANGED <<build, log, size, part, pc, job, target, running, fresh, faults, harm, home, tries>>

(* mini_boot_state_refresh; an error leaves the copy alone. *)
Refresh ==
    /\ pc = "app"
    /\ \/ ram' = Load(log) @@ ram /\ fresh' = TRUE /\ UNCHANGED faults
       \/ Fault /\ UNCHANGED <<ram, fresh>>
    /\ UNCHANGED <<build, log, size, part, pc, job, target, running, harm, home, tries>>

Informed == Refreshes => fresh /\ ~ram.pending

(* flash_inactive_area_id. *)
Inactive == IF build.dual THEN 1 - ram.current ELSE 0

ota_fail_set == Update(ram, [fail |-> "error"], "fail", "app", "app")

(* mini_boot_source_download_stream: open, erase, then chunks as the hook  *)
(* delivers them.  The size of an earlier download is kept.                *)
Download ==
    /\ pc = "app" /\ ram.open /\ Informed
    /\ \/ /\ \E i \in Image : target' = [img |-> i, at |-> Inactive]
          /\ pc' = "clear" /\ UNCHANGED <<ram, job, faults, harm>>
       \/ ota_fail_set /\ UNCHANGED target   \* flash_area_open refused
    /\ UNCHANGED <<build, log, size, part, running, fresh, home, tries>>

Chunks(c, n) == part' = [part EXCEPT ![target.at] = [img |-> c, got |-> n]]

Clear ==
    /\ pc = "clear"
    /\ Chunks(target.img, 0) /\ pc' = "chunk"
    /\ UNCHANGED <<build, log, ram, size, job, target, running, fresh, faults, harm, home, tries>>

ReceiveChunk ==
    LET c == part[target.at]
    IN /\ pc = "chunk"
       /\ \E n \in c.got + 1 .. c.img.len :
            /\ Chunks(c.img, n)
            /\ IF n = c.img.len
               THEN size' = n /\ pc' = "app" /\ target' = NoTarget
               ELSE UNCHANGED <<size, pc, target>>
       /\ UNCHANGED <<build, log, ram, job, running, fresh, faults, harm, home, tries>>

(* The hook fails, the erase or a write fails. *)
DownloadFails ==
    /\ ota_fail_set
    /\ \/ pc = "chunk" /\ UNCHANGED part
       \/ pc = "clear" /\ \E n \in 0 .. part[target.at].got : Chunks(part[target.at].img, n)
    /\ target' = NoTarget
    /\ UNCHANGED <<build, log, size, running, fresh, home, tries>>

(* mini_boot_start_ota.  With one partition a failing store is ignored. *)
StartOta ==
    /\ pc = "app" /\ ram.open /\ size # 0 /\ Informed
    /\ \/ /\ Verifies(part[Inactive], size)
          /\ Update(ram, [current |-> Inactive, pending |-> build.dual /\ ram.rollback,
                          trial |-> FALSE, fail |-> "none"],
                    "activate", "done", IF build.dual THEN "app" ELSE "done")
       \/ ota_fail_set   \* no match, or flash_area_open or a read failed
    /\ fresh' = FALSE
    /\ UNCHANGED <<build, log, size, part, target, running, home, tries>>

(* mini_boot_confirm_ota. *)
Confirm ==
    /\ pc = "app"
    /\ Update(ram, [pending |-> FALSE, trial |-> FALSE], "confirm", "app", "app")
    /\ fresh' = FALSE
    /\ UNCHANGED <<build, log, size, part, target, running, home, tries>>

(* ota_set_partition_image_0 and _1, after mini_boot_backup. *)
SelectPartition ==
    /\ pc = "app" /\ build.dual /\ Informed
    /\ \E p \in Partition : /\ Verifies(part[p], part[p].img.len)
                            /\ Update(ram, [current |-> p], "select", "done", "app")
    /\ fresh' = FALSE
    /\ UNCHANGED <<build, log, size, part, target, running, home, tries>>

(* Power failure, or the reset that ends an activation, a crash or a halt. *)
PowerFail ==
    /\ pc # "off"
    /\ log' \in CASE pc = "erase" -> HalfErased(log)
                  [] pc = "word" -> {log, Put(Torn)}
                  [] OTHER -> {log}
    /\ part' \in IF pc # "clear" THEN {part}
                 ELSE {[part EXCEPT ![target.at].got = n] : n \in 0 .. part[target.at].got}
    /\ Harmed(Wiped(log'), "wiped")
    /\ pc' = "off" /\ ram' = Bss /\ size' = 0 /\ running' = Nowhere /\ fresh' = FALSE
    /\ job' = NoJob /\ target' = NoTarget
    /\ UNCHANGED <<build, faults, home, tries>>

Init ==
    /\ build \in Builds
    /\ log = [i \in 1 .. Slots |-> Blank]
    /\ part = [p \in Partition |-> [img |-> Factory, got |-> IF p = 0 THEN Factory.len ELSE 0]]
    /\ ram = Bss /\ size = 0 /\ pc = "off" /\ job = NoJob /\ target = NoTarget
    /\ running = Nowhere /\ fresh = FALSE
    /\ faults = 0 /\ harm = {} /\ home = 0 /\ tries = 0

Next ==
    \/ Erase \/ EraseFails \/ WriteWord \/ WriteFails \/ WriteCheck \/ WriteCheckFails
    \/ Boot \/ JumpToApp \/ JumpRefused
    \/ SetSwitch \/ Refresh \/ Download \/ Clear \/ ReceiveChunk \/ DownloadFails
    \/ StartOta \/ Confirm \/ SelectPartition
    \/ PowerFail

Spec == Init /\ [][Next]_vars

-----------------------------------------------------------------------------
(* Every variable has its type, and no partition holds more of an image    *)
(* than there is.                                                          *)
TypeOK ==
    /\ build \in Builds
    /\ log \in [1 .. Slots -> Word \cup {Blank, Half, Torn}]
    /\ \E w \in Word, o, b \in BOOLEAN : ram = w @@ [open |-> o, rollback |-> b]
    /\ part \in [Partition -> [img : Image, got : Nat]]
    /\ \A p \in Partition : part[p].got <= part[p].img.len
    /\ pc \in {"off", "jump", "halt", "app", "done", "erase", "word", "check", "clear", "chunk"}
    /\ job.word \in Word
    /\ running \in Partition \cup {Nowhere} /\ home \in Partition
    /\ harm \subseteq {"wiped", "zeroed", "unsaved"}

(* A store changes what ota_state_load returns only by completing its      *)
(* record, and then it returns exactly that record; torn records left by   *)
(* earlier failures never hide it.  Excepted are the store that has to     *)
(* erase the sector first, and those after one that was cut short.         *)
StoreAtomic ==
    []["wiped" \notin harm =>
         /\ Load(log') # Load(log) => job.erase \/ (pc = "check" /\ Load(log') = job.word)
         /\ pc = "check" /\ pc' = job.ok /\ faults' = faults => Load(log') = job.word]_vars

(* With two partitions, the target of a download is not the partition the  *)
(* application runs from (mini_boot_source_download_stream).               *)
NoSelfErase ==
    [][build.dual /\ running \in Partition => part'[running] = part[running]]_part

(* With two partitions the boot loader always jumps to a complete image    *)
(* that passed its digest, and so never halts for want of one.  No         *)
(* download writes past the end of its image.                              *)
BootsVerified ==
    /\ TypeOK
    /\ build.dual /\ harm = {} /\ pc = "jump"
      => Verifies(part[Selected], part[Selected].img.len)

(* The boot loader starts the partition last confirmed, or the one that an *)
(* activation with roll-back put on trial, and that one a single time.     *)
TrialOnce ==
    [][build.dual /\ harm = {} /\ pc = "jump" /\ pc' = "app"
         => running' = home \/ tries' = 1]_vars
=============================================================================
