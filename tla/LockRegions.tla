----------------------------- MODULE LockRegions -----------------------------
(***************************************************************************)
(* The arithmetic of Buffer and DSCBuffer: the size a buffer gets, the two *)
(* regions that Lock hands out, and what Unlock takes back.  Positions are *)
(* bytes from the start of the buffer; a DWORD has DWORDs values.          *)
(***************************************************************************)
EXTENDS Integers

CONSTANTS
  DWORDs,      \* 2^32
  WORDs,       \* 2^16
  DSBSIZE_MIN, DSBSIZE_MAX

ASSUME WidthAssumption == DWORDs \in Nat /\ WORDs \in Nat /\ WORDs <= DWORDs
ASSUME LimitsAssumption ==
  DSBSIZE_MIN \in Nat \ {0} /\ DSBSIZE_MAX \in Nat /\ DSBSIZE_MAX < DWORDs

-----------------------------------------------------------------------------
(* SharedBuffer::Create.                                                   *)

Formats ==
  LET W == 0 .. WORDs - 1
  IN [nChannels : W, wBitsPerSample : W, nBlockAlign : W]

\* What Create tests of the format.
ValidFormat(f) ==
  /\ f.nChannels > 0
  /\ f.wBitsPerSample # 0 /\ f.wBitsPerSample % 8 = 0
  /\ f.nBlockAlign > 0
  /\ f.nBlockAlign = (f.nChannels * f.wBitsPerSample) \div 8

BufSize(f, dwBufferBytes) ==
  LET up == (dwBufferBytes + f.nBlockAlign - 1) % DWORDs
  IN up - (up % f.nBlockAlign)

Created(f, dwBufferBytes) ==
  ValidFormat(f) /\ BufSize(f, dwBufferBytes) \in DSBSIZE_MIN .. DSBSIZE_MAX

-----------------------------------------------------------------------------
(* Lock and Unlock.  A request has an offset, bytes and flags; "cursor" is *)
(* the write cursor that GetCurrentPosition gives.                         *)

Offset(req, cursor) ==
  IF "FromWriteCursor" \in req.flags THEN cursor ELSE req.offset
Bytes(req, size) == IF "EntireBuffer" \in req.flags THEN size ELSE req.bytes

BufferAccepts(req, size) ==
  /\ "FromWriteCursor" \notin req.flags => req.offset < size
  /\ "EntireBuffer" \notin req.flags => req.bytes <= size

BufferRegions(offset, bytes, size) ==
  LET audioBytes1 == IF bytes > size - offset THEN size - offset ELSE bytes
  IN [ofs1 |-> offset, len1 |-> audioBytes1,
      ofs2 |-> 0, len2 |-> bytes - audioBytes1]

\* The caller need not ask for the second region.
FirstOnly(r) == [r EXCEPT !.len2 = 0]

BufferUnlocks(r, size) ==
  /\ r.ofs1 < size /\ r.len1 <= size - r.ofs1
  /\ r.ofs2 = 0 /\ r.len2 <= r.ofs1

\* A read position may be the size.
CaptureAccepts(req, size) ==
  req.offset <= size /\ ("EntireBuffer" \notin req.flags => req.bytes <= size)

CaptureRegions(offset, bytes, size) ==
  LET audioBytes1 == IF offset > size - bytes THEN size - offset ELSE bytes
  IN [ofs1 |-> offset, len1 |-> audioBytes1,
      ofs2 |-> 0, len2 |-> bytes - audioBytes1]

CaptureUnlocks(r, size) ==
  /\ r.ofs1 <= size /\ r.len1 <= size - r.ofs1 /\ r.len2 <= r.ofs1
  /\ r.ofs2 = 0

-----------------------------------------------------------------------------
(* What they promise.                                                      *)

Region(start, len) == start .. start + len - 1
Ring(offset, bytes, size) == {(offset + k) % size : k \in 0 .. bytes - 1}

(* Two regions are inside of the buffer and apart from each other.         *)
Apart(r, size) ==
  /\ Region(r.ofs1, r.len1) \subseteq 0 .. size - 1
  /\ Region(r.ofs2, r.len2) \subseteq 0 .. size - 1
  /\ Region(r.ofs1, r.len1) \cap Region(r.ofs2, r.len2) = {}

(* The regions are exactly the bytes that were asked for, going around at  *)
(* the end of the buffer.                                                  *)
Tile(r, offset, bytes, size) ==
  /\ Apart(r, size)
  /\ r.len1 >= 0 /\ r.len2 >= 0 /\ r.len1 + r.len2 = bytes
  /\ Region(r.ofs1, r.len1) \cup Region(r.ofs2, r.len2) = Ring(offset, bytes, size)

(* A buffer gets the least whole number of blocks that holds what was      *)
(* asked for, and is only made if that did not overflow.                   *)
SizeIsExact(f, dwBufferBytes) ==
  Created(f, dwBufferBytes) =>
    LET size == BufSize(f, dwBufferBytes)
    IN /\ size % f.nBlockAlign = 0
       /\ size - f.nBlockAlign < dwBufferBytes /\ dwBufferBytes <= size

Requests(max) ==
  [offset : 0 .. max, bytes : 0 .. max,
   flags : SUBSET {"FromWriteCursor", "EntireBuffer"}]

(* All of this for the requests and sizes up to a bound.                   *)
CheckedUpTo(max) ==
  /\ \A f \in Formats, bytes \in 0 .. DWORDs - 1 : SizeIsExact(f, bytes)
  /\ \A size \in 1 .. max - 1, req \in Requests(max) :
       /\ BufferAccepts(req, size) =>
            \A cursor \in 0 .. size - 1 :
              LET o == Offset(req, cursor)
                  b == Bytes(req, size)
                  r == BufferRegions(o, b, size)
              IN Tile(r, o, b, size) /\ BufferUnlocks(r, size)
                                     /\ BufferUnlocks(FirstOnly(r), size)
       /\ CaptureAccepts(req, size) =>
            LET b == Bytes(req, size)
                r == CaptureRegions(req.offset, b, size)
            IN Tile(r, req.offset, b, size) /\ CaptureUnlocks(r, size)
                                            /\ CaptureUnlocks(FirstOnly(r), size)
=============================================================================
