------------------------------ MODULE FlashLog ------------------------------
(***************************************************************************)
(* The flash half of mini-log (mini-log/src/log.c): lines are queued in a  *)
(* RAM ring, mini_log_flash_flush assembles them and appends one frame per *)
(* line to a partition of the flash, mini_log_flash_recover finds the      *)
(* append position again after a reset.                                    *)
(*                                                                         *)
(* The flash is an array of write granules.  A frame is a header granule   *)
(* and one granule per token of its line; a token is the k-th of the "of"  *)
(* tokens of line id, the last one being the line feed.  Programming a     *)
(* granule that is not erased leaves junk.  Erase and write calls may fail *)
(* half way, and power may fail half way through any of them.              *)
(***************************************************************************)
EXTENDS Integers, Sequences, SequencesExt

CONSTANTS Sector, Sectors,   \* granules per sector, sectors
          RingSize,          \* MINI_LOG_FLASH_RING_SIZE
          ChunkSize,         \* sizeof(chunk) in mini_log_flash_flush
          LineMax,           \* longest line mini_log_flash_output queues
          Erased, Junk,
          MaxLines, MaxFaults \* bounds on lines, and on failures and resets

Total == Sector * Sectors
Cell == 0 .. Total - 1

(* The frame of the longest line fits the partition, and so never fails    *)
(* with MINI_LOG_ERR_TOO_LONG.                                             *)
ASSUME GeometryAssumption ==
    /\ {Sector, Sectors, RingSize, ChunkSize, LineMax} \subseteq Nat \ {0}
    /\ LineMax + 1 <= Total /\ LineMax <= RingSize

VARIABLES flash,
          ring, chunk, line, resync,   \* the RAM side
          offset,                      \* flash_ctx.write_offset
          frame,                       \* the record being written
          pc, lines, faults,
          lap,      \* history: records written since sector 0 was erased
          gap,      \* history: the cursor left, or stays at, programmed
                    \* granules in the middle of a sector
          stray,    \* history: there may be frames past the cursor
          failed,   \* history: a write or a clean failed since the last boot
          waived,   \* history: a clean withdrew resync with half a line queued
          overlaid  \* history: since the last boot a granule was programmed
                    \* without being erased

ram == <<ring, chunk, line, resync>>
history == <<lap, gap, stray, failed, waived, overlaid>>
vars == <<flash, ram, offset, frame, pc, lines, faults, history>>

Line(id, n) == [k \in 1 .. n |-> [id |-> id, k |-> k, of |-> n]]
IsEnd(token) == token.k = token.of

Units(l) == Len(l) + 1
NoFrame == [line |-> <<>>, from |-> "nobody"]

EraseStart(o) == IF o % Sector = 0 THEN o ELSE (o \div Sector + 1) * Sector
SectorUp(o) == ((o + Sector - 1) \div Sector) * Sector

(* The flash after an erase of a .. b - 1, and what an unfinished one may  *)
(* leave: a prefix is erased, the rest untouched or unreadable.            *)
EraseRange(f, a, b) == [c \in Cell |-> IF c \in a .. b - 1 THEN Erased ELSE f[c]]

TornErase(f, a, b) ==
    {[c \in Cell |-> IF c \in a .. m - 1 THEN Erased
                     ELSE IF c \in m .. b - 1 /\ junk THEN Junk ELSE f[c]] :
        m \in a .. b, junk \in BOOLEAN}

(* The first m granules of a frame programmed at o. *)
Program(f, o, l, m) ==
    [c \in Cell |-> IF c \notin o .. o + m - 1 THEN f[c]
                    ELSE IF f[c] = Erased THEN [line |-> l, i |-> c - o] ELSE Junk]

(* A frame with a valid header and checksum starts at o. *)
ValidAt(f, o) ==
    /\ f[o] \notin {Erased, Junk} /\ f[o].i = 0
    /\ o + Units(f[o].line) <= Total
    /\ \A i \in 0 .. Len(f[o].line) : f[o + i] = [line |-> f[o].line, i |-> i]

(* The scan of mini_log_flash_recover: the frames from offset 0 up to the  *)
(* first place where there is none.                                        *)
Scan(f) ==
    LET From[o \in 0 .. Total] ==
            IF o < Total /\ ValidAt(f, o)
            THEN LET rest == From[o + Units(f[o].line)]
                 IN [end |-> rest.end, found |-> <<f[o].line>> \o rest.found]
            ELSE [end |-> o, found |-> <<>>]
    IN From[0]

Init ==
    /\ flash = [c \in Cell |-> Erased]
    /\ ring = <<>> /\ chunk = <<>> /\ line = <<>> /\ resync = FALSE
    /\ offset = 0 /\ frame = NoFrame /\ pc = "off"
    /\ lines = 0 /\ faults = 0
    /\ lap = <<>> /\ gap = FALSE /\ stray = FALSE /\ failed = FALSE
    /\ waived = FALSE /\ overlaid = FALSE

(* mini_log_flash_register_cxt, first thing after power-up. *)
Register ==
    /\ pc = "off"
    /\ pc' = "scan" /\ offset' = 0 /\ resync' = FALSE
    /\ UNCHANGED <<flash, ring, chunk, line, frame, lines, faults, history>>

KeepGoing(end) == end

(* mini_log_flash_recover; a read error leaves the cursor alone and the    *)
(* application tries again.  A stop on anything but erased granules moves  *)
(* the cursor to the next sector boundary.                                 *)
Resume(end) == IF end < Total /\ flash[end] # Erased THEN SectorUp(end) ELSE end

Recover ==
    /\ pc = "scan"
    /\ LET end == Scan(flash).end
       IN /\ offset' = Resume(end)
          /\ gap' = (gap \/ Resume(end) # end)
    /\ pc' = "idle"
    /\ UNCHANGED <<flash, ram, frame, lines, faults, lap, stray, failed, waived, overlaid>>

(* mini_log_flash_output, from any context: a line that does not fit the   *)
(* ring is dropped.                                                        *)
Output(n) ==
    /\ pc # "off" /\ lines < MaxLines
    /\ RingSize - Len(ring) >= n
    /\ ring' = ring \o Line(lines + 1, n)
    /\ lines' = lines + 1
    /\ UNCHANGED <<flash, chunk, line, resync, offset, frame, pc, faults, history>>

(* The head of mini_log_flash_write_record: wrap, then open the partition. *)
BeginRecord(l, from) ==
    /\ offset' = IF offset + Units(l) > Total THEN 0 ELSE offset
    /\ frame' = [line |-> l, from |-> from]
    /\ pc' = "erase"

(* mini_log_flash_flush: the next chunk, or the end. *)
FlushRead ==
    /\ pc \in {"idle", "flush"} /\ chunk = <<>>
    /\ LET n == IF Len(ring) < ChunkSize THEN Len(ring) ELSE ChunkSize
       IN /\ pc' = IF n = 0 THEN "idle" ELSE "flush"
          /\ chunk' = SubSeq(ring, 1, n)
          /\ ring' = SubSeq(ring, n + 1, Len(ring))
    /\ UNCHANGED <<flash, line, resync, offset, frame, lines, faults, history>>

(* One token: dropped while re-synchronising, else assembled; a complete   *)
(* line is written.                                                        *)
FlushToken ==
    /\ pc = "flush" /\ chunk # <<>>
    /\ chunk' = Tail(chunk)
    /\ LET token == Head(chunk) IN
       \/ /\ resync /\ resync' = ~IsEnd(token)
          /\ UNCHANGED <<line, offset, frame, pc>>
       \/ /\ ~resync /\ ~IsEnd(token)
          /\ line' = Append(line, token)
          /\ UNCHANGED <<resync, offset, frame, pc>>
       \/ /\ ~resync /\ IsEnd(token)
          /\ line' = <<>>
          /\ BeginRecord(Append(line, token), "flush")
          /\ UNCHANGED resync
    /\ UNCHANGED <<flash, ring, lines, faults, history>>

(* The application may write a record of its own. *)
WriteRecord(n) ==
    /\ pc = "idle" /\ lines < MaxLines
    /\ BeginRecord(Line(lines + 1, n), "app")
    /\ lines' = lines + 1
    /\ UNCHANGED <<flash, ram, faults, history>>

GiveUpQuietly == chunk' = <<>> /\ UNCHANGED resync

(* How a failed record ends a flush: the rest of the chunk is lost, and    *)
(* what follows in the ring may be the rest of a line.                     *)
GiveUp ==
    IF frame.from = "flush" THEN chunk' = <<>> /\ resync' = TRUE
    ELSE UNCHANGED <<chunk, resync>>

Fault == faults < MaxFaults /\ faults' = faults + 1

Fail ==
    /\ GiveUp /\ Fault
    /\ frame' = NoFrame /\ pc' = "idle"
    /\ UNCHANGED <<ring, line, offset, lines>>

OpenFails == pc = "erase" /\ Fail /\ UNCHANGED <<flash, history>>

EraseFrom == EraseStart(offset)
EraseTo == SectorUp(offset + Units(frame.line))

(* The history after an erase from o on: a new lap starts at 0. *)
Begun(o) == IF o = 0 /\ flash' # flash THEN <<>> ELSE lap

(* The sectors the frame enters are erased first. *)
Erase ==
    /\ pc = "erase"
    /\ flash' = EraseRange(flash, EraseFrom, EraseTo)
    /\ pc' = "write"
    /\ lap' = IF offset = 0 THEN <<>> ELSE lap
    /\ gap' = (gap /\ offset # 0) /\ stray' = (stray /\ offset # 0)
    /\ UNCHANGED <<ram, offset, frame, lines, faults, failed, waived, overlaid>>

EraseFails ==
    /\ pc = "erase" /\ EraseFrom < EraseTo
    /\ flash' \in TornErase(flash, EraseFrom, EraseTo)
    /\ lap' = Begun(EraseFrom)
    /\ Fail
    /\ UNCHANGED <<gap, stray, failed, waived, overlaid>>

Overlays(m) == \E c \in Cell : c \in offset .. offset + m - 1 /\ flash[c] # Erased

Write ==
    /\ pc = "write"
    /\ flash' = Program(flash, offset, frame.line, Units(frame.line))
    /\ overlaid' = (overlaid \/ Overlays(Units(frame.line)))
    /\ pc' = "advance"
    /\ lap' = Append(lap, frame.line)
    /\ UNCHANGED <<ram, offset, frame, lines, faults, gap, stray, failed, waived>>

(* The cursor stays where it is. *)
WriteFails ==
    \E m \in 0 .. Units(frame.line) :
        /\ pc = "write"
        /\ flash' = Program(flash, offset, frame.line, m)
        /\ overlaid' = (overlaid \/ Overlays(m))
        /\ gap' = (gap \/ (m > 0 /\ offset % Sector # 0))
        /\ stray' = (stray \/ m = Units(frame.line))
        /\ failed' = TRUE
        /\ Fail
        /\ UNCHANGED <<lap, waived>>

NoLookAhead(o) == o

(* The sector the cursor is about to enter, if it is at a boundary, is     *)
(* erased at once so that a later scan stops there.                        *)
NextErase(o) == IF o < Total /\ o % Sector = 0 THEN o + Sector ELSE o

Advance ==
    /\ pc = "advance"
    /\ LET o == offset + Units(frame.line)
       IN /\ offset' = o
          /\ \/ flash' = EraseRange(flash, o, NextErase(o)) /\ UNCHANGED <<stray, faults>>
             \/ flash' \in TornErase(flash, o, NextErase(o)) /\ stray' = TRUE /\ Fault
    /\ pc' = IF frame.from = "flush" THEN "flush" ELSE "idle"
    /\ frame' = NoFrame
    /\ UNCHANGED <<ram, lines, lap, gap, failed, waived, overlaid>>

(* mini_log_flash_clean_all *)
CleanAll ==
    /\ pc = "idle"
    /\ pc' = "clean"
    /\ UNCHANGED <<flash, ram, offset, frame, lines, faults, history>>

CleanErase ==
    /\ pc = "clean"
    /\ flash' = EraseRange(flash, 0, Total)
    /\ offset' = 0 /\ resync' = FALSE /\ pc' = "idle"
    /\ lap' = <<>> /\ gap' = FALSE /\ stray' = FALSE
    /\ waived' = (waived \/ (resync /\ ring # <<>> /\ ring[1].k > 1))
    /\ UNCHANGED <<ring, chunk, line, frame, lines, faults, failed, overlaid>>

CleanFails ==
    /\ pc = "clean"
    /\ flash' \in TornErase(flash, 0, Total)
    /\ lap' = Begun(0) /\ gap' = TRUE /\ failed' = TRUE /\ pc' = "idle" /\ Fault
    /\ UNCHANGED <<ram, offset, frame, lines, stray, waived, overlaid>>

(* What the flash may look like when power fails now. *)
Interrupted ==
    CASE pc = "erase" -> TornErase(flash, EraseFrom, EraseTo)
      [] pc = "write" -> {Program(flash, offset, frame.line, m) : m \in 0 .. Units(frame.line) - 1}
      [] pc = "advance" -> LET o == offset + Units(frame.line) IN TornErase(flash, o, NextErase(o))
      [] pc = "clean" -> TornErase(flash, 0, Total)
      [] OTHER -> {flash}

PowerFail ==
    /\ pc # "off" /\ Fault
    /\ flash' \in Interrupted
    /\ ring' = <<>> /\ chunk' = <<>> /\ line' = <<>> /\ resync' = FALSE
    /\ offset' = 0 /\ frame' = NoFrame /\ pc' = "off"
    /\ lap' = CASE pc = "erase" -> Begun(EraseFrom)
                [] pc = "clean" -> Begun(0)
                [] OTHER -> lap
    /\ stray' = (stray \/ (pc = "advance" /\ LET o == offset + Units(frame.line) IN flash' # EraseRange(flash, o, NextErase(o))))
    /\ failed' = FALSE /\ overlaid' = FALSE
    /\ UNCHANGED <<lines, gap, waived>>

Next ==
    \/ Register \/ Recover \/ FlushRead \/ FlushToken
    \/ \E n \in 1 .. LineMax : Output(n) \/ WriteRecord(n)
    \/ OpenFails \/ Erase \/ EraseFails \/ Write \/ WriteFails \/ Advance
    \/ CleanAll \/ CleanErase \/ CleanFails
    \/ PowerFail

Spec == Init /\ [][Next]_vars

(***************************************************************************)
(* Properties                                                              *)
(***************************************************************************)
(* Type invariant; the cursor stays inside the partition or at its end.    *)
TypeOK ==
    /\ \A c \in Cell : flash[c] \in {Erased, Junk} \/ flash[c].i \in 0 .. Len(flash[c].line)
    /\ offset \in 0 .. Total /\ Len(ring) <= RingSize /\ Len(chunk) <= ChunkSize
    /\ Len(line) < LineMax /\ {resync, gap, stray, failed, overlaid} \subseteq BOOLEAN
    /\ pc \in {"off", "scan", "idle", "flush", "erase", "write", "advance", "clean"}

Found == Scan(flash).found

(* Every record a scan finds is one whole line, whatever failed in between *)
(* two chunks of a flush: flash_resync drops the rest of a broken line.    *)
(* (Unless a clean withdrew that mark and left the rest in the ring.)      *)
WholeLines ==
    ~waived => \A i \in DOMAIN Found : Found[i] = Line(Found[i][1].id, Len(Found[i]))

(* Resets at any point lose no record of the current lap: a scan finds     *)
(* them all, in order, as long as the cursor never had to leave dirt in    *)
(* the middle of a sector.  It finds nothing else, for the erased granules *)
(* right behind the cursor stop it before the frames of the lap before,    *)
(* unless the erase of the sector ahead was cut short.                     *)
LapFound ==
    ~gap => /\ SelectSeq(Found, LAMBDA l : l \in Range(lap)) = lap
            /\ ~stray /\ pc # "advance" => Found = lap

(* A record is only ever programmed over erased granules, after a reset in *)
(* the middle of any erase or write too.  (Unless a write or a clean       *)
(* returned an error: the cursor stays and the next record goes on top.)   *)
(* The cursor stays inside the partition and every buffer inside its size. *)
WritesErased == TypeOK /\ (overlaid => failed)
=============================================================================
