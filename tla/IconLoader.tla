----------------------------- MODULE IconLoader -----------------------------
(***************************************************************************)
(* load_shell_icon of a Windows build, one call of the system per step.    *)
(* Any of the three objects may be refused; GDI objects are limited per    *)
(* process and a monitor loads icons for as long as it runs.               *)
(***************************************************************************)
EXTENDS Naturals

CONSTANTS
  BitmapsHaveBits,   (* what CreateDIBSection promises: a bitmap it returns  *)
                     (* comes with a pointer to its bits                     *)
  MaxLoads           (* bound on the icons loaded                            *)

IconAssumption == BitmapsHaveBits \in BOOLEAN

VARIABLES
  at,         (* the next call                                               *)
  held,       (* how many objects of each kind the process holds             *)
  selected,   (* the bitmap is selected into the device context              *)
  drawn,      (* what DrawIconEx returned                                    *)
  canvas,     (* what the bitmap shows                                       *)
  image,      (* the result of the last load                                 *)
  misused,    (* an object was used after, or given back before, its time    *)
  loads

vars == <<at, held, selected, drawn, canvas, image, misused, loads>>

Kinds == {"icon", "dc", "bitmap"}

Init ==
  /\ at = "idle" /\ held = [k \in Kinds |-> 0]
  /\ selected = FALSE /\ drawn = FALSE /\ canvas = "none" /\ image = "none"
  /\ misused = FALSE /\ loads = 0
-----------------------------------------------------------------------------
Gain(kind) == held' = [held EXCEPT ![kind] = @ + 1]

Release(kinds) ==
  /\ held' = [k \in Kinds |-> IF k \in kinds /\ held[k] > 0 THEN held[k] - 1 ELSE held[k]]
  /\ misused' = (misused \/ \E k \in kinds : held[k] = 0 \/ (k # "icon" /\ selected))

Uses(kinds) == misused' = (misused \/ \E k \in kinds : held[k] = 0)

Step(from, to) == at = from /\ at' = to /\ UNCHANGED loads

None == image' = "none" /\ UNCHANGED <<selected, drawn, canvas>>

(* The early return for an empty path is among the loads without an icon.  *)
Load ==
  /\ at = "idle" /\ loads < MaxLoads /\ at' = "SHGetFileInfoW" /\ loads' = loads + 1
  /\ UNCHANGED <<held, selected, drawn, canvas, image, misused>>

GotIcon ==
  /\ Step("SHGetFileInfoW", "CreateCompatibleDC") /\ Gain("icon")
  /\ UNCHANGED <<selected, drawn, canvas, image, misused>>

NoIcon ==
  /\ Step("SHGetFileInfoW", "idle")
  /\ None /\ UNCHANGED <<held, misused>>

GotDC ==
  /\ Step("CreateCompatibleDC", "CreateDIBSection") /\ Gain("dc")
  /\ UNCHANGED <<selected, drawn, canvas, image, misused>>

NoDC ==
  /\ Step("CreateCompatibleDC", "idle")
  /\ Release({"icon"}) /\ None

GotBitmap ==
  /\ Step("CreateDIBSection", "SelectObject")
  /\ Gain("bitmap") /\ Uses({"dc"}) /\ canvas' = "blank"
  /\ UNCHANGED <<selected, drawn, image>>

(* bits is null: as a rule there is no bitmap either.                      *)
NoBits(bitmap) ==
  /\ bitmap => ~BitmapsHaveBits
  /\ Step("CreateDIBSection", "refused")
  /\ Uses({"dc"})
  /\ IF bitmap THEN Gain("bitmap") ELSE UNCHANGED held
  /\ UNCHANGED <<selected, drawn, canvas, image>>

(* Mutant of NoBitmap: the icon is forgotten.                              *)
NoBitmapLeaking ==
  /\ Step("refused", "idle")
  /\ Release({"dc"}) /\ None

(* The early return of both cases: a bitmap is not given back.             *)
NoBitmap ==
  /\ Step("refused", "idle")
  /\ Release({"dc", "icon"}) /\ None

Select ==
  /\ Step("SelectObject", "DrawIconEx")
  /\ Uses({"dc", "bitmap"}) /\ selected' = TRUE
  /\ UNCHANGED <<held, drawn, canvas, image>>

Draw(success) ==
  /\ Step("DrawIconEx", "copy")
  /\ Uses({"dc", "icon"}) /\ drawn' = success
  /\ canvas' = IF success THEN "icon" ELSE canvas
  /\ UNCHANGED <<held, selected, image>>

(* bgra points into the bitmap.                                            *)
CopyPixels ==
  /\ Step("copy", "deselect")
  /\ Uses({"bitmap"}) /\ image' = canvas
  /\ UNCHANGED <<held, selected, drawn, canvas>>

Deselect ==
  /\ Step("deselect", "release")
  /\ Uses({"dc"}) /\ selected' = FALSE
  /\ UNCHANGED <<held, drawn, canvas, image>>

Finish ==
  /\ Step("release", "idle")
  /\ Release(Kinds) /\ canvas' = "none"
  /\ image' = IF drawn THEN image ELSE "none"
  /\ UNCHANGED <<selected, drawn>>

Next ==
  \/ Load \/ GotIcon \/ NoIcon \/ GotDC \/ NoDC \/ GotBitmap
  \/ (\E bitmap \in BOOLEAN : NoBits(bitmap)) \/ NoBitmap \/ Select
  \/ (\E success \in BOOLEAN : Draw(success)) \/ CopyPixels \/ Deselect \/ Finish

Spec == Init /\ [][Next]_vars
-----------------------------------------------------------------------------
(* Whichever object was refused, a finished load holds none: no early      *)
(* return leaks one, while bitmaps have bits.                              *)
NothingStaysHeld == at = "idle" => \A k \in Kinds : held[k] = 0

(* Objects are used while they are held, and neither the bitmap nor the    *)
(* device context goes while the one is selected into the other.           *)
ObjectsInOrder == ~misused

(* The process list shows an icon or its placeholder, never a blank.       *)
NoBlankImages == at = "idle" => image # "blank"
=============================================================================
