---------------------------- MODULE CaptureProofs ----------------------------
(* Proofs about EX06-04_v4l2test, for every size of screen and picture, any  *)
(* position on the screen, number of buffers and speed of the driver.        *)
EXTENDS Capture, TLAPS

(* The invariant that makes TypeOK inductive: the driver touches nothing     *)
(* before STREAMON, and the row to draw is a row of the picture.             *)
Quiet == pc \in {"open", "init", "mmap", "queue", "on"} => ~streaming /\ filling = None
Drawing ==
    /\ pc = "draw" => index < Height
    /\ pc = "requeue" => index = Height
TypeInv == TypeOK /\ Quiet /\ Drawing

(* A picture has at least one row, and a row of the code's width is within   *)
(* the buffer whatever the rows of the driver are.                           *)
LEMMA PictureRows ==
    ASSUME NEW f \in Picture
    PROVE  /\ f[1] \in Nat /\ f[2] \in Nat \ {0} /\ f[3] \in Nat /\ f[1] <= f[3]
           /\ f # <<0, 0, 0>>
BY CaptureAssumption

LEMMA InBuffer ==
    ASSUME NEW W \in Nat, NEW H \in Nat, NEW S \in Nat, W <= S,
           NEW r \in 0 .. H - 1, NEW c \in 0 .. W - 1
    PROVE  r * W + c \in 0 .. H * S - 1
<1>1. r \in Nat /\ S - W \in Nat /\ H - 1 - r \in Nat
  OBVIOUS
<1>2. r * W >= 0 /\ r * (S - W) >= 0 /\ (H - 1 - r) * S >= 0
  BY <1>1
<1>3. r * (S - W) = r * S - r * W /\ (H - 1 - r) * S = H * S - S - r * S
  BY <1>1
<1> QED
  BY <1>1, <1>2, <1>3

LEMMA SourceCell ==
    ASSUME fmt \in Picture, NEW r \in 0 .. Height - 1, NEW c \in 0 .. Width - 1
    PROVE  Source(r, c) \in Cell
<1>1. r * fmt[1] + c \in 0 .. fmt[2] * fmt[3] - 1
  BY PictureRows, InBuffer DEF Height, Width
<1> QED
  BY <1>1 DEF Cell, Source, Width

LEMMA Columns == fmt \in Picture => Column \subseteq 0 .. Width - 1
<1> SUFFICES ASSUME fmt \in Picture PROVE Column \subseteq 0 .. Width - 1
  OBVIOUS
<1>1. Width \in Nat
  BY PictureRows DEF Width
<1> QED
  BY <1>1 DEF Column

LEMMA Values == Old \in Value /\ Black \in Value /\ Fresh \in Value
BY DEF Old, Black, Fresh, Value

LEMMA TypeInit == Init => TypeInv
<1> SUFFICES ASSUME Init PROVE TypeInv
  OBVIOUS
<1>1. screen \in [Pixel -> Value] /\ data \in [Buffer -> [Cell -> Value]]
  BY Values DEF Init
<1>2. stamp \in [Buffer -> Nat] /\ used \in [Buffer -> Nat]
  BY DEF Init
<1>3. \A b \in Buffer : owner[b] = "driver" <=> filling = b
  BY CaptureAssumption DEF Init, Buffer
<1>4. count \in Nat /\ pos \in Position /\ geo \in Geometry
  BY CaptureAssumption DEF Init
<1> QED
  BY <1>1, <1>2, <1>3, <1>4 DEF Init, TypeInv, TypeOK, Quiet, Drawing

(* However the program ends, the driver has given every buffer back.         *)
LEMMA TypeExit ==
    ASSUME TypeInv, NEW s \in {"success", "failure", "killed"}, Exit(s), UNCHANGED eintr
    PROVE  TypeInv'
<1>1. \A b \in Buffer : owner'[b] = "program" /\ filling' # b
  BY CaptureAssumption DEF Exit, StreamEnds, Buffer
<1>2. owner' \in [Buffer -> {"program", "queued", "driver", "done"}]
  BY DEF Exit, StreamEnds
<1>3. screen' \in [Pixel -> Value] /\ data' \in [Buffer -> [Cell -> Value]]
  BY DEF TypeInv, TypeOK, Exit, buffers
<1>4. n_buffers' \in {0} \cup 2 .. 4 /\ fmt' \in Picture \cup {<<0, 0, 0>>}
  BY DEF TypeInv, TypeOK, Exit
<1> QED
  BY <1>1, <1>2, <1>3, <1>4
     DEF TypeInv, TypeOK, Quiet, Drawing, Exit, StreamEnds, buffers, place

LEMMA TypeProgram == TypeInv /\ Program => TypeInv'
<1> SUFFICES ASSUME TypeInv, Program PROVE TypeInv'
  OBVIOUS
<1> USE CaptureAssumption DEF TypeInv, TypeOK, Quiet, Drawing, Goto, Buffer, buffers, place
<1>0. CASE Retry
  BY <1>0 DEF Retry, Height
<1> SUFFICES ASSUME UNCHANGED eintr, ~Retry PROVE TypeInv'
  BY <1>0 DEF Program
<1>1. CASE OpenDevice
  <2>1. screen' \in [Pixel -> Value]
    BY <1>1, Values DEF OpenDevice
  <2> QED
    BY <1>1, <2>1 DEF OpenDevice
<1>2. CASE InitDevice
  BY <1>2, PictureRows DEF InitDevice
<1>3. CASE InitMmap
  BY <1>3 DEF InitMmap
<1>4. CASE QueueBuffer
  BY <1>4 DEF QueueBuffer
<1>5. CASE StreamOn
  BY <1>5 DEF StreamOn
<1>6. CASE NextFrame
  BY <1>6 DEF NextFrame
<1>7. CASE SelectReady
  BY <1>7 DEF SelectReady
<1>8. CASE SelectTimeout
  BY <1>8, TypeExit DEF SelectTimeout
<1>9. ASSUME NEW b \in Buffer, Dequeue(b) PROVE TypeInv'
  <2>1. fmt \in Picture
    BY <1>9 DEF Dequeue
  <2>2. Height \in Nat /\ 0 < Height
    BY <2>1, PictureRows DEF Height
  <2> QED
    BY <1>9, <2>1, <2>2 DEF Dequeue, Done, Height
<1>10. CASE DequeueAgain
  BY <1>10 DEF DequeueAgain
<1>11. CASE DrawRow
  <2>1. fmt \in Picture
    BY <1>11 DEF DrawRow
  <2>2. Height \in Nat /\ index \in 0 .. Height - 1 /\ held \in Buffer
    BY <1>11, <2>1, PictureRows DEF DrawRow, Height
  <2>3. \A c \in Column : data[held][Source(index, c)] \in Value
    BY <2>1, <2>2, Columns, SourceCell
  <2>4. screen' \in [Pixel -> Value]
    BY <1>11, <2>3 DEF DrawRow
  <2> QED
    BY <1>11, <2>2, <2>4 DEF DrawRow, Height
<1>12. CASE Requeue
  BY <1>12 DEF Requeue
<1>13. CASE StreamOff
  BY <1>13 DEF StreamOff, StreamEnds
<1>14. CASE UninitDevice
  BY <1>14 DEF UninitDevice
<1>15. CASE CloseDevice
  BY <1>15, TypeExit DEF CloseDevice
<1> QED
  BY <1>1, <1>2, <1>3, <1>4, <1>5, <1>6, <1>7, <1>8, <1>9, <1>10, <1>11, <1>12,
     <1>13, <1>14, <1>15 DEF Program

LEMMA TypeDriver == TypeInv /\ Driver => TypeInv'
<1> SUFFICES ASSUME TypeInv, Driver PROVE TypeInv'
  OBVIOUS
<1> USE CaptureAssumption
    DEF TypeInv, TypeOK, Quiet, Drawing, Buffer, program, buffers, place, Height
<1>1. ASSUME NEW b \in Buffer, TakeFrame(b) PROVE TypeInv'
  BY <1>1 DEF TakeFrame
<1>2. CASE LoseFrame
  BY <1>2 DEF LoseFrame
<1>3. CASE FillRow
  <2>1. filling \in Buffer /\ used[filling] \in Nat /\ stamp[filling] \in Nat
    BY <1>3 DEF FillRow
  <2>2. fmt \in Picture
    BY <1>3 DEF FillRow
  <2>3. Width \in Nat
    BY <2>2, PictureRows DEF Width
  <2> DEFINE New(i) == IF i - used[filling] * Stride \in 0 .. Width - 1
                       THEN <<stamp[filling], used[filling], i - used[filling] * Stride>>
                       ELSE data[filling][i]
  <2>4. \A i \in Cell : New(i) \in Value
    BY <2>1, <2>3 DEF Value
  <2>5. data' = [data EXCEPT ![filling] = [i \in Cell |-> New(i)]]
    BY <1>3, <2>1 DEF FillRow
  <2> HIDE DEF New
  <2>6. data' \in [Buffer -> [Cell -> Value]]
    BY <2>4, <2>5
  <2> QED
    BY <1>3, <2>6 DEF FillRow
<1>4. CASE FrameDone
  BY <1>4 DEF FrameDone
<1> QED
  BY <1>1, <1>2, <1>3, <1>4 DEF Driver

LEMMA TypeFault == TypeInv /\ Fault => TypeInv'
<1> SUFFICES ASSUME TypeInv, Fault PROVE TypeInv'
  OBVIOUS
<1>1. CASE CallFails /\ UNCHANGED eintr
  BY <1>1, TypeExit DEF CallFails
<1>2. CASE Interrupted
  BY <1>2, CaptureAssumption
     DEF Interrupted, TypeInv, TypeOK, Quiet, Drawing, Height, place, buffers
<1>3. CASE SelectSpurious /\ UNCHANGED eintr
  BY <1>3, CaptureAssumption
     DEF SelectSpurious, Goto, TypeInv, TypeOK, Quiet, Drawing, Height, place, buffers
<1>4. CASE StoreOutside /\ UNCHANGED eintr
  BY <1>4, TypeExit DEF StoreOutside
<1> QED
  BY <1>1, <1>2, <1>3, <1>4 DEF Fault

LEMMA TypeStep == TypeInv /\ [Next]_vars => TypeInv'
<1>1. TypeInv /\ UNCHANGED vars => TypeInv'
  BY DEF TypeInv, TypeOK, Quiet, Drawing, Height, vars, program, buffers, place
<1> QED
  BY <1>1, TypeProgram, TypeDriver, TypeFault DEF Next, Ended

(* The types, and the hand-over of the buffers: what DQBUF handed out stays  *)
(* the program's until QBUF, and the driver fills only what QBUF gave it.    *)
THEOREM CaptureTypeOK == Spec => []TypeOK
<1>1. TypeInv => TypeOK
  BY DEF TypeInv
<1> QED
  BY <1>1, TypeInit, TypeStep, PTL DEF Spec

------------------------------------------------------------------------------
(* Arithmetic of rows X long: an address names one row and one column, and   *)
(* every address of Y rows has them.                                         *)
LEMMA RowsApart ==
    ASSUME NEW X \in Nat, NEW a \in Int, NEW b \in Int,
           NEW u \in 0 .. X - 1, NEW v \in 0 .. X - 1, a * X + u = b * X + v
    PROVE  a = b /\ u = v
<1>1. ASSUME NEW m \in Int, NEW n \in Int, m < n PROVE m * X + X <= n * X
  <2>1. n - m - 1 \in Nat
    BY <1>1
  <2>2. (n - m - 1) * X >= 0
    BY <2>1
  <2> QED
    BY <2>2
<1>2. ~(a < b)
  BY <1>1
<1>3. ~(b < a)
  BY <1>1
<1> QED
  BY <1>2, <1>3

LEMMA RowOf ==
    ASSUME NEW X \in Nat, NEW Y \in Nat, NEW p \in 0 .. X * Y - 1
    PROVE  \E y \in 0 .. Y - 1, x \in 0 .. X - 1 : p = y * X + x
<1>1. X > 0
  <2>1. X = 0 => X * Y = 0
    OBVIOUS
  <2> QED
    BY <2>1
<1> DEFINE y == p \div X
           x == p % X
<1>2. y \in Int /\ x \in 0 .. X - 1 /\ p = y * X + x
  BY <1>1
<1> HIDE DEF y, x
<1>3. ~(y < 0)
  <2> SUFFICES ASSUME y < 0 PROVE FALSE
    OBVIOUS
  <2>1. -1 - y \in Nat
    BY <1>2
  <2>2. (-1 - y) * X >= 0
    BY <2>1
  <2>3. (-1 - y) * X = 0 - X - y * X
    BY <1>2
  <2> QED
    BY <1>2, <2>2, <2>3
<1>4. ~(y >= Y)
  <2> SUFFICES ASSUME y >= Y PROVE FALSE
    OBVIOUS
  <2>1. y - Y \in Nat
    BY <1>2
  <2>2. (y - Y) * X >= 0
    BY <2>1
  <2>3. (y - Y) * X = y * X - X * Y
    BY <1>2
  <2> QED
    BY <1>2, <2>2, <2>3
<1> QED
  BY <1>2, <1>3, <1>4

(* Pictures no wider than the screen are drawn with no pixel of theirs over  *)
(* another.                                                                  *)
LEMMA OtherPixel ==
    ASSUME TypeInv, fmt \in Picture, Width <= XRes,
           NEW r \in Int, NEW s \in Int,
           NEW c \in Column, NEW d \in Column, Location(r, c) = Location(s, d)
    PROVE  r = s /\ c = d
<1>1. XRes \in Nat /\ pos[1] \in Int /\ pos[2] \in Int /\ Width \in Nat
  BY PictureRows, CaptureAssumption DEF TypeInv, TypeOK, Width
<1>2. c \in 0 .. XRes - 1 /\ d \in 0 .. XRes - 1
  BY <1>1, Columns
<1> DEFINE rr == r + pos[2]
           ss == s + pos[2]
<1>3. rr \in Int /\ ss \in Int
  BY <1>1
<1>4. rr * XRes + c = ss * XRes + d
  <2>1. rr * XRes \in Int /\ ss * XRes \in Int
    BY <1>1, <1>3
  <2>2. Location(r, c) = rr * XRes + c + pos[1] /\ Location(s, d) = ss * XRes + d + pos[1]
    BY DEF Location
  <2>3. rr * XRes + c + pos[1] = ss * XRes + d + pos[1]
    BY <2>2
  <2>4. c \in Int /\ d \in Int
    BY <1>1, <1>2
  <2> HIDE DEF rr, ss
  <2> QED
    BY <1>1, <2>1, <2>3, <2>4
<1> HIDE DEF rr, ss
<1>5. rr = ss /\ c = d
  BY <1>1, <1>2, <1>3, <1>4, RowsApart
<1> QED
  BY <1>1, <1>5 DEF rr, ss

(* A plain screen: the code's addresses are the screen's, and draw_rect has  *)
(* cleared all of it.                                                        *)
LEMMA PlainPlace ==
    ASSUME TypeInv, fmt \in Picture, Plain, NEW r \in 0 .. Height - 1, NEW c \in Column
    PROVE  Shown(r, c) = Location(r, c) /\ Location(r, c) \in Pixel
<1>1. /\ Width \in Nat /\ Height \in Nat /\ XRes \in Nat /\ YRes \in Nat
      /\ pos[1] \in Int /\ pos[2] \in Int
  BY PictureRows, CaptureAssumption DEF TypeInv, TypeOK, Width, Height
<1>2. c \in 0 .. Width - 1
  BY Columns
<1> DEFINE a == r + pos[2]
           u == c + pos[1]
<1>3. a \in 0 .. YRes - 1 /\ u \in 0 .. XRes - 1
  BY <1>1, <1>2 DEF Plain
<1>4. a * XRes + u \in 0 .. YRes * XRes - 1
  <2> HIDE DEF a, u
  <2> QED
    BY <1>1, <1>3, InBuffer
<1>5. Location(r, c) = a * XRes + u /\ Shown(r, c) = a * XRes + u
  <2>1. a * XRes \in Int /\ 0 + r + pos[2] = a
    BY <1>1, <1>3
  <2> QED
    BY <1>1, <1>2, <2>1 DEF Location, Shown, Plain
<1>6. YRes * XRes = XRes * YRes
  BY <1>1
<1> QED
  BY <1>4, <1>5, <1>6 DEF Pixel

LEMMA PlainCleared ==
    ASSUME Plain, NEW p \in Pixel
    PROVE  p \in Cleared
<1>1. XRes \in Nat /\ YRes \in Nat
  BY CaptureAssumption
<1>2. PICK y \in 0 .. YRes - 1, x \in 0 .. XRes - 1 : p = y * XRes + x
  BY <1>1, RowOf DEF Pixel
<1>3. p = (0 + y) * XRes + 0 + x
  BY <1>1, <1>2
<1>4. p = (yoffset + y) * line_length + xoffset + x
  BY <1>3 DEF Plain
<1> QED
  BY <1>2, <1>4 DEF Cleared

(* Rows as wide as the picture: a cell of a buffer is of one row and column. *)
LEMMA OtherCell ==
    ASSUME fmt \in Picture, Stride = Width, NEW r \in Nat, NEW s \in Nat,
           NEW c \in 0 .. Width - 1, NEW i \in Int, i = Source(r, c),
           i - s * Stride \in 0 .. Width - 1
    PROVE  r = s /\ i - s * Stride = c
<1>1. Width \in Nat
  BY PictureRows DEF Width
<1>2. s * Width + (i - s * Stride) = i
  BY <1>1
<1>3. r * Width + c = i
  BY <1>1 DEF Source
<1> DEFINE d == i - s * Stride
<1>4. r * Width + c = s * Width + d /\ d \in 0 .. Width - 1
  BY <1>2, <1>3
<1> HIDE DEF d
<1>5. r = s /\ c = d
  BY <1>1, <1>4, RowsApart
<1> QED
  BY <1>5 DEF d

------------------------------------------------------------------------------
(* The invariant behind ShownIsFrame: a frame is younger than all that was   *)
(* in its buffer, and where the two rows are of one length its cells are in  *)
(* place; the rows drawn so far are what the buffer DQBUF handed out holds;  *)
(* and around the picture the screen is as draw_rect left it.                *)
Stamped ==
    \A b \in Buffer :
        /\ stamp[b] <= frame
        /\ owner[b] \in {"driver", "done"} \/ held = b \/ used[b] > 0 => stamp[b] >= 1
Blank ==
    pc \in {"open", "init"} =>
        \A b \in Buffer : used[b] = 0 /\ \A i \in Cell : data[b][i] = Fresh
Stale(b, r, c) ==
    \/ data[b][Source(r, c)] = Fresh
    \/ \E f \in 1 .. stamp[b] - 1 : data[b][Source(r, c)] = <<f, r, c>>
Filled ==
    fmt \in Picture /\ Stride = Width =>
        \A b \in Buffer, r \in 0 .. Height - 1, c \in 0 .. Width - 1 :
            IF r < used[b] THEN data[b][Source(r, c)] = <<stamp[b], r, c>>
                           ELSE Stale(b, r, c)
Drawn ==
    pc \in {"draw", "requeue"} /\ Width <= XRes =>
        \A r \in 0 .. index - 1, c \in Column : Location(r, c) \in Pixel =>
            screen[Location(r, c)] = data[held][Source(r, c)]
InPicture(p) == \E r \in 0 .. Height - 1, c \in Column : p = Location(r, c)
Ground(p) == screen[p] = IF p \in Cleared THEN Black ELSE Old
Dark ==
    /\ pc = "init" => \A p \in Pixel : Ground(p)
    /\ pc \notin {"open", "init", "exit"} => \A p \in Pixel : Ground(p) \/ InPicture(p)
InMemory == Stamped /\ Blank /\ Filled
OnScreen == Drawn /\ Dark
FrameInv == TypeInv /\ InMemory /\ OnScreen

LEMMA FrameInit == Init => FrameInv
<1> SUFFICES ASSUME Init PROVE FrameInv
  OBVIOUS
<1>1. TypeInv
  BY TypeInit
<1>2. Stamped
  BY CaptureAssumption DEF Init, Stamped, Buffer
<1>3. Blank
  BY DEF Init, Blank
<1>4. Filled
  BY PictureRows DEF Init, Filled
<1> QED
  BY <1>1, <1>2, <1>3, <1>4 DEF Init, FrameInv, InMemory, OnScreen, Drawn, Dark

(* A step that touches neither the buffers nor the format.                   *)
LEMMA BuffersKept ==
    ASSUME FrameInv, UNCHANGED <<buffers, fmt>>,
           pc' \in {"open", "init"} => pc \in {"open", "init"},
           \A b \in Buffer : owner'[b] \in {"driver", "done"} \/ held' = b =>
                             owner[b] \in {"driver", "done"} \/ held = b
    PROVE  InMemory'
<1>1. Stamped'
  BY DEF FrameInv, InMemory, Stamped, buffers
<1>2. Blank'
  BY DEF FrameInv, InMemory, Blank, buffers
<1>3. Filled'
  BY DEF FrameInv, InMemory, Filled, Stale, Source, Width, Height, Stride, buffers
<1> QED
  BY <1>1, <1>2, <1>3 DEF InMemory

LEMMA ScreenKept ==
    ASSUME FrameInv, UNCHANGED <<screen, place, fmt>>,
           pc \notin {"open", "init", "exit"}, pc' # "init"
    PROVE  Dark'
<1>1. \A p \in Pixel : (InPicture(p)' <=> InPicture(p)) /\ (Ground(p)' <=> Ground(p))
  BY DEF InPicture, Ground, Cleared, Width, Height, Column, Location, line_length,
         xoffset, yoffset, place
<1> QED
  BY <1>1 DEF FrameInv, OnScreen, Dark

(* A step that draws nothing, takes no frame and hands none out.             *)
LEMMA CalmStep ==
    ASSUME FrameInv, UNCHANGED <<screen, place, fmt, buffers>>,
           pc \notin {"open", "init", "exit"},
           pc' \notin {"draw", "requeue", "open", "init"}, held' \in {held, None},
           \A b \in Buffer : owner'[b] \in {owner[b], "queued", "program"}
    PROVE  InMemory' /\ OnScreen'
<1>1. \A b \in Buffer : b # None
  BY CaptureAssumption DEF Buffer
<1>2. InMemory'
  BY <1>1, BuffersKept
<1>3. Drawn'
  BY DEF Drawn
<1>4. Dark'
  BY ScreenKept
<1> QED
  BY <1>2, <1>3, <1>4 DEF OnScreen

LEMMA FrameExit ==
    ASSUME FrameInv, NEW s \in {"success", "failure", "killed"}, Exit(s)
    PROVE  InMemory' /\ OnScreen'
<1>1. \A b \in Buffer : owner'[b] = "program" /\ held' # b
  BY CaptureAssumption DEF Exit, StreamEnds, Buffer
<1>2. InMemory'
  BY <1>1, BuffersKept DEF Exit
<1> QED
  BY <1>2 DEF Exit, OnScreen, Drawn, Dark

LEMMA FrameInitDevice ==
    ASSUME FrameInv, InitDevice
    PROVE  InMemory' /\ OnScreen'
<1>1. Stamped'
  BY DEF FrameInv, InMemory, Stamped, InitDevice, buffers
<1>2. Blank'
  BY DEF Blank, InitDevice, Goto
<1>3. Filled'
  <2>1. fmt' \in Picture /\ UNCHANGED <<data, used>>
    BY DEF InitDevice, buffers
  <2>2. \A r \in 0 .. Height' - 1, c \in 0 .. Width' - 1 : Source(r, c)' \in Cell
    <3>1. \A f \in Picture : \A r \in 0 .. f[2] - 1, c \in 0 .. f[1] - 1 : r * f[1] + c \in Cell
      BY PictureRows, InBuffer DEF Cell
    <3> QED
      BY <2>1, <3>1 DEF Source, Height, Width
  <2>3. \A b \in Buffer : used[b] = 0 /\ \A i \in Cell : data[b][i] = Fresh
    BY DEF FrameInv, InMemory, Blank, InitDevice
  <2>4. \A b \in Buffer, r \in 0 .. Height' - 1, c \in 0 .. Width' - 1 : Stale(b, r, c)'
    BY <2>1, <2>2, <2>3 DEF Stale
  <2> QED
    BY <2>1, <2>3, <2>4 DEF Filled
<1>4. Drawn' /\ Dark'
  <2>1. \A p \in Pixel : Ground(p)' <=> Ground(p)
    BY DEF InitDevice, place, Ground, Cleared, line_length, xoffset, yoffset
  <2> QED
    BY <2>1 DEF InitDevice, Goto, FrameInv, OnScreen, Drawn, Dark
<1> QED
  BY <1>1, <1>2, <1>3, <1>4 DEF InMemory, OnScreen

LEMMA FrameDrawRow ==
    ASSUME FrameInv, DrawRow
    PROVE  InMemory' /\ OnScreen'
<1>1. /\ pc = "draw" /\ fmt \in Picture /\ index \in Nat /\ Height \in Nat
      /\ index < Height /\ held \in Buffer
  <2>1. pc = "draw" /\ fmt \in Picture /\ index \in Nat /\ index < Height /\ held \in Buffer
    BY CaptureAssumption DEF FrameInv, TypeInv, TypeOK, Drawing, DrawRow, Buffer
  <2> QED
    BY <2>1, PictureRows DEF Height
<1>2. InMemory'
  BY BuffersKept DEF DrawRow, Goto
<1>3. UNCHANGED <<Height, Width, Column, Cleared>>
  BY DEF DrawRow, Height, Width, Column, Cleared, line_length, xoffset, yoffset, place
<1>4. \A r \in Int, c \in Column : Location(r, c)' = Location(r, c) /\ Source(r, c)' = Source(r, c)
  BY DEF DrawRow, Location, Source, Width, place
<1>5. index \in 0 .. Height - 1 /\ index' - 1 = index /\ held' = held /\ data' = data
  BY <1>1 DEF DrawRow, buffers
<1>6. Drawn'
  <2> SUFFICES ASSUME Width <= XRes, NEW r \in 0 .. index, NEW c \in Column,
                      Location(r, c) \in Pixel
               PROVE  screen'[Location(r, c)] = data[held][Source(r, c)]
    BY <1>1, <1>3, <1>4, <1>5 DEF Drawn
  <2>1. r \in Int
    OBVIOUS
  <2>2. CASE r = index
    <3>1. \A d \in Column : Location(index, c) = Location(index, d) => d = c
      BY <1>1, OtherPixel DEF FrameInv
    <3>2. (CHOOSE d \in Column : Location(index, c) = Location(index, d)) = c
      BY <3>1
    <3> QED
      BY <2>2, <3>2 DEF DrawRow
  <2>3. CASE r # index
    <3>1. \A d \in Column : Location(r, c) # Location(index, d)
      BY <1>1, <2>1, <2>3, OtherPixel DEF FrameInv
    <3>2. screen'[Location(r, c)] = screen[Location(r, c)]
      BY <3>1 DEF DrawRow
    <3>3. r \in 0 .. index - 1
      BY <1>1, <2>3
    <3> QED
      BY <1>1, <3>2, <3>3 DEF FrameInv, OnScreen, Drawn
  <2> QED
    BY <2>2, <2>3
<1>7. Dark'
  <2> SUFFICES ASSUME NEW p \in Pixel PROVE Ground(p)' \/ InPicture(p)
    BY <1>1, <1>3, <1>4 DEF Dark, InPicture, DrawRow, Goto
  <2>1. screen'[p] = screen[p] \/ \E c \in Column : p = Location(index, c)
    BY DEF DrawRow
  <2> QED
    BY <1>1, <1>3, <1>5, <2>1 DEF FrameInv, OnScreen, Dark, InPicture, Ground
<1> QED
  BY <1>2, <1>6, <1>7 DEF OnScreen

LEMMA FrameProgram ==
    ASSUME FrameInv, Program
    PROVE  InMemory' /\ OnScreen'
<1>0. CASE Retry
  <2>1. InMemory'
    BY <1>0, BuffersKept DEF Retry
  <2>2. \A p \in Pixel : (InPicture(p)' <=> InPicture(p)) /\ (Ground(p)' <=> Ground(p))
    BY <1>0 DEF Retry, InPicture, Ground, Cleared, Width, Height, Column, Location, line_length,
           xoffset, yoffset, place
  <2>3. Drawn' /\ Dark'
    BY <1>0, <2>2 DEF Retry, FrameInv, OnScreen, Drawn, Dark, Width, Column, Location, Source,
           place, buffers
  <2> QED
    BY <2>1, <2>3 DEF OnScreen
<1>1. CASE OpenDevice
  <2>1. InMemory'
    BY <1>1, BuffersKept DEF OpenDevice, Goto
  <2>2. UNCHANGED Cleared
    BY <1>1 DEF OpenDevice, Cleared, line_length, xoffset, yoffset, place
  <2>3. \A p \in Pixel : Ground(p)'
    BY <1>1, <2>2 DEF OpenDevice, Ground
  <2> QED
    BY <1>1, <2>1, <2>3 DEF OpenDevice, Goto, OnScreen, Drawn, Dark
<1>2. CASE InitDevice
  BY <1>2, FrameInitDevice
<1>3. CASE InitMmap
  BY <1>3, CalmStep DEF InitMmap, Goto
<1>4. CASE QueueBuffer
  <2>1. \A b \in Buffer : owner'[b] \in {owner[b], "queued", "program"}
    BY <1>4 DEF QueueBuffer, FrameInv, TypeInv, TypeOK
  <2> QED
    BY <1>4, <2>1, CalmStep DEF QueueBuffer, Goto
<1>5. CASE StreamOn
  BY <1>5, CalmStep DEF StreamOn, Goto
<1>6. CASE NextFrame
  BY <1>6, CalmStep DEF NextFrame, Goto
<1>7. CASE SelectReady
  BY <1>7, CalmStep DEF SelectReady, Goto
<1>8. CASE SelectTimeout
  BY <1>8, FrameExit DEF SelectTimeout
<1>9. ASSUME NEW b \in Buffer, Dequeue(b) PROVE InMemory' /\ OnScreen'
  <2>1. \A d \in Buffer : owner'[d] \in {"driver", "done"} \/ held' = d =>
                          owner[d] \in {"driver", "done"} \/ held = d
    BY <1>9 DEF Dequeue, Done, FrameInv, TypeInv, TypeOK
  <2>2. InMemory'
    BY <1>9, <2>1, BuffersKept DEF Dequeue, Goto
  <2>3. Dark'
    BY <1>9, ScreenKept DEF Dequeue, Goto
  <2>4. Drawn'
    BY <1>9 DEF Dequeue, Drawn
  <2> QED
    BY <2>2, <2>3, <2>4 DEF OnScreen
<1>10. CASE DequeueAgain
  BY <1>10, CalmStep DEF DequeueAgain, Goto
<1>11. CASE DrawRow
  BY <1>11, FrameDrawRow
<1>12. CASE Requeue
  <2>1. \A b \in Buffer : owner'[b] \in {owner[b], "queued", "program"}
    BY <1>12 DEF Requeue, FrameInv, TypeInv, TypeOK
  <2> QED
    BY <1>12, <2>1, CalmStep DEF Requeue, Goto
<1>13. CASE StreamOff
  BY <1>13, CalmStep DEF StreamOff, StreamEnds, Goto
<1>14. CASE UninitDevice
  BY <1>14, CalmStep DEF UninitDevice, Goto
<1>15. CASE CloseDevice
  BY <1>15, FrameExit DEF CloseDevice
<1> QED
  BY <1>0, <1>1, <1>2, <1>3, <1>4, <1>5, <1>6, <1>7, <1>8, <1>9, <1>10, <1>11, <1>12,
     <1>13, <1>14, <1>15 DEF Program

(* The driver draws nothing and leaves the buffer alone that is being drawn, *)
(* and no interrupted call draws.                                            *)
LEMMA DrawnKept ==
    ASSUME FrameInv, UNCHANGED <<pc, place, fmt, index, held, screen>>,
           held # None => data'[held] = data[held]
    PROVE  OnScreen'
<1>1. /\ UNCHANGED <<Width, Height, Column, Cleared>>
      /\ \A r, c : Location(r, c)' = Location(r, c) /\ Source(r, c)' = Source(r, c)
  BY DEF Column, Width, Height, Location, Source, Cleared, line_length, xoffset, yoffset, place
<1>2. \A p \in Pixel : (InPicture(p)' <=> InPicture(p)) /\ (Ground(p)' <=> Ground(p))
  BY <1>1 DEF InPicture, Ground
<1>3. pc \in {"draw", "requeue"} => held # None
  BY DEF FrameInv, TypeInv, TypeOK
<1>4. Drawn'
  BY <1>1, <1>3 DEF FrameInv, OnScreen, Drawn
<1> QED
  BY <1>2, <1>4 DEF FrameInv, OnScreen, Dark

(* A new frame is younger than all that its buffer holds.                    *)
LEMMA FrameTake ==
    ASSUME FrameInv, NEW b \in Buffer, TakeFrame(b)
    PROVE  InMemory'
<1> USE DEF FrameInv, InMemory, TypeInv, TypeOK
<1>1. Stamped'
  BY DEF TakeFrame, Stamped, program
<1>2. Blank'
  BY DEF TakeFrame, Blank, Quiet, program
<1>3. Filled'
  <2> SUFFICES ASSUME fmt \in Picture, Stride = Width, NEW d \in Buffer,
                      NEW r \in 0 .. Height - 1, NEW c \in 0 .. Width - 1
               PROVE  IF r < used'[d] THEN data'[d][Source(r, c)] = <<stamp'[d], r, c>>
                      ELSE \/ data'[d][Source(r, c)] = Fresh
                           \/ \E f \in 1 .. stamp'[d] - 1 : data'[d][Source(r, c)] = <<f, r, c>>
    <3>1. /\ UNCHANGED <<fmt, Width, Height, Stride>>
          /\ \A r, c : Source(r, c)' = Source(r, c)
      BY DEF TakeFrame, program, Width, Height, Stride, Source
    <3> QED
      BY <3>1 DEF Filled, Stale
  <2>1. IF r < used[d] THEN data[d][Source(r, c)] = <<stamp[d], r, c>> ELSE Stale(d, r, c)
    BY DEF Filled
  <2>2. CASE d # b
    BY <2>1, <2>2 DEF TakeFrame, Stale
  <2>3. CASE d = b
    <3>1. data'[d] = data[d] /\ stamp'[d] = frame + 1 /\ used'[d] = 0
      BY <2>3 DEF TakeFrame, buffers
    <3>2. stamp[d] \in Nat /\ stamp[d] <= frame /\ frame \in Nat /\ used[d] \in Nat
      BY DEF Stamped
    <3>3. CASE r < used[d]
      <4>1. stamp[d] \in 1 .. frame + 1 - 1
        BY <3>2, <3>3 DEF Stamped
      <4> QED
        BY <2>1, <3>1, <3>3, <4>1
    <3>4. CASE ~(r < used[d])
      <4>1. \A f \in 1 .. stamp[d] - 1 : f \in 1 .. frame + 1 - 1
        BY <3>2
      <4> QED
        BY <2>1, <3>1, <3>4, <4>1 DEF Stale
    <3> QED
      BY <3>3, <3>4
  <2> QED
    BY <2>2, <2>3
<1> QED
  BY <1>1, <1>2, <1>3

(* A row more of the frame: the other rows keep what they had.               *)
LEMMA FrameFill ==
    ASSUME FrameInv, FillRow
    PROVE  InMemory' /\ (held # None => data'[held] = data[held])
<1> USE DEF FrameInv, InMemory, TypeInv, TypeOK
<1>1. filling \in Buffer /\ filling # held /\ used[filling] \in Nat
  BY DEF FillRow
<1>2. Stamped'
  BY DEF FillRow, Stamped, program
<1>3. Blank'
  BY DEF FillRow, Blank, Quiet, program
<1>4. Filled'
  <2> SUFFICES ASSUME fmt \in Picture, Stride = Width, NEW d \in Buffer,
                      NEW r \in 0 .. Height - 1, NEW c \in 0 .. Width - 1
               PROVE  IF r < used'[d] THEN data'[d][Source(r, c)] = <<stamp[d], r, c>>
                      ELSE \/ data'[d][Source(r, c)] = Fresh
                           \/ \E f \in 1 .. stamp[d] - 1 : data'[d][Source(r, c)] = <<f, r, c>>
    <3>1. /\ UNCHANGED <<fmt, Width, Height, Stride, stamp>>
          /\ \A r, c : Source(r, c)' = Source(r, c)
      BY DEF FillRow, program, Width, Height, Stride, Source
    <3> QED
      BY <3>1 DEF Filled, Stale
  <2>1. IF r < used[d] THEN data[d][Source(r, c)] = <<stamp[d], r, c>> ELSE Stale(d, r, c)
    BY DEF Filled
  <2>2. CASE d # filling
    BY <1>1, <2>1, <2>2 DEF FillRow, Stale
  <2>3. CASE d = filling
    <3>1. used'[d] = used[d] + 1 /\ used[d] \in Nat /\ r \in Nat
      BY <1>1, <2>3 DEF FillRow
    <3>2. Source(r, c) \in Cell /\ Source(r, c) \in Int
      <4>1. r \in Int /\ Width \in Nat /\ c \in Int
        BY PictureRows DEF Width
      <4>2. r * Width \in Int
        BY <4>1
      <4>3. Source(r, c) \in Int
        BY <4>1, <4>2 DEF Source
      <4> QED
        BY <4>3, SourceCell
    <3> DEFINE i == Source(r, c)
    <3>3. data'[d][i] = IF i - used[d] * Stride \in 0 .. Width - 1
                        THEN <<stamp[d], used[d], i - used[d] * Stride>> ELSE data[d][i]
      BY <1>1, <2>3, <3>2 DEF FillRow
    <3>4. CASE r = used[d]
      <4>1. i - used[d] * Stride = c
        <5>1. Width \in Nat
          BY PictureRows DEF Width
        <5> QED
          BY <3>1, <3>4, <5>1 DEF Source
      <4> QED
        BY <3>1, <3>3, <3>4, <4>1
    <3>5. CASE r # used[d]
      <4>1. i - used[d] * Stride \notin 0 .. Width - 1
        BY <1>1, <2>3, <3>1, <3>2, <3>5, OtherCell
      <4>2. data'[d][i] = data[d][i]
        BY <3>3, <4>1
      <4>3. r < used'[d] <=> r < used[d]
        <5> HIDE DEF FrameInv, InMemory, TypeInv, TypeOK
        <5> QED
          BY <3>1, <3>5
      <4> QED
        BY <2>1, <4>2, <4>3 DEF Stale
    <3> QED
      BY <3>4, <3>5
  <2> QED
    BY <2>2, <2>3
<1>5. held # None => data'[held] = data[held]
  BY <1>1 DEF FillRow
<1> QED
  BY <1>2, <1>3, <1>4, <1>5

LEMMA FrameDriver ==
    ASSUME FrameInv, Driver
    PROVE  InMemory' /\ OnScreen'
<1>1. ASSUME NEW b \in Buffer, TakeFrame(b) PROVE InMemory' /\ OnScreen'
  BY <1>1, FrameTake, DrawnKept DEF TakeFrame, program
<1>2. CASE LoseFrame
  <2>1. Stamped'
    BY <1>2 DEF LoseFrame, Stamped, program, FrameInv, InMemory, TypeInv, TypeOK
  <2>2. Blank' /\ Filled'
    BY <1>2 DEF LoseFrame, FrameInv, InMemory, Blank, Filled, Stale, Source, Width, Height,
           Stride, program
  <2> QED
    BY <1>2, <2>1, <2>2, DrawnKept DEF LoseFrame, program, InMemory
<1>3. CASE FillRow
  BY <1>3, FrameFill, DrawnKept DEF FillRow, program
<1>4. CASE FrameDone
  <2>1. Stamped'
    BY <1>4 DEF FrameDone, Stamped, program, buffers, FrameInv, InMemory, TypeInv, TypeOK
  <2>2. Blank' /\ Filled'
    BY <1>4 DEF FrameDone, FrameInv, InMemory, Blank, Filled, Stale, Source, Width, Height,
           Stride, program, buffers
  <2> QED
    BY <1>4, <2>1, <2>2, DrawnKept DEF FrameDone, program, buffers, InMemory
<1> QED
  BY <1>1, <1>2, <1>3, <1>4 DEF Driver

LEMMA FrameStill ==
    ASSUME FrameInv, UNCHANGED <<place, fmt, index, held, screen, owner, buffers>>,
           pc' = pc \/ (pc = "select" /\ pc' = "dqbuf")
    PROVE  InMemory' /\ OnScreen'
<1>1. InMemory'
  BY BuffersKept
<1>2. CASE pc' = pc
  BY <1>1, <1>2, DrawnKept DEF buffers
<1>3. CASE pc = "select" /\ pc' = "dqbuf"
  BY <1>1, <1>3, ScreenKept DEF OnScreen, Drawn
<1> QED
  BY <1>2, <1>3

LEMMA FrameStep == FrameInv /\ [Next]_vars => FrameInv'
<1> SUFFICES ASSUME FrameInv, [Next]_vars PROVE FrameInv'
  OBVIOUS
<1>1. TypeInv'
  BY TypeStep DEF FrameInv
<1>2. CASE Program
  BY <1>1, <1>2, FrameProgram DEF FrameInv
<1>3. CASE Driver
  BY <1>1, <1>3, FrameDriver DEF FrameInv
<1>4. CASE CallFails \/ StoreOutside
  BY <1>1, <1>4, FrameExit DEF FrameInv, CallFails, StoreOutside
<1>5. CASE Interrupted \/ SelectSpurious \/ UNCHANGED vars
  BY <1>1, <1>5, FrameStill
     DEF FrameInv, Interrupted, SelectSpurious, Goto, vars, program
<1> QED
  BY <1>2, <1>3, <1>4, <1>5 DEF Next, Ended, Fault

(* On a plain screen the picture drawn is one frame in its place.            *)
LEMMA FramePlain ==
    ASSUME FrameInv, pc = "requeue", Plain
    PROVE  /\ \A r \in 0 .. Height - 1, c \in Column :
                  IF r < used[held] THEN screen[Shown(r, c)] = <<stamp[held], r, c>>
                  ELSE \/ screen[Shown(r, c)] = Fresh
                       \/ \E f \in 1 .. stamp[held] - 1 : screen[Shown(r, c)] = <<f, r, c>>
           /\ \A p \in Pixel :
                  \/ screen[p] = Black
                  \/ \E r \in 0 .. Height - 1, c \in Column : p = Shown(r, c)
<1>1. /\ TypeInv /\ fmt \in Picture /\ held \in Buffer /\ index = Height
      /\ Stride = Width
  BY DEF FrameInv, TypeInv, TypeOK, Drawing, Plain
<1>2. Width <= XRes
  <2>1. Width \in Nat /\ XRes \in Nat /\ pos[1] \in Int
    BY <1>1, PictureRows, CaptureAssumption DEF TypeInv, TypeOK, Width
  <2> QED
    BY <2>1 DEF Plain
<1>3. \A r \in 0 .. Height - 1, c \in Column :
         Shown(r, c) = Location(r, c) /\ Location(r, c) \in Pixel
  BY <1>1, PlainPlace
<1>4. ASSUME NEW r \in 0 .. Height - 1, NEW c \in Column
      PROVE  IF r < used[held] THEN screen[Shown(r, c)] = <<stamp[held], r, c>>
             ELSE \/ screen[Shown(r, c)] = Fresh
                  \/ \E f \in 1 .. stamp[held] - 1 : screen[Shown(r, c)] = <<f, r, c>>
  <2>1. screen[Shown(r, c)] = data[held][Source(r, c)]
    BY <1>1, <1>2, <1>3 DEF FrameInv, OnScreen, Drawn
  <2>2. c \in 0 .. Width - 1
    BY <1>1, Columns
  <2> QED
    BY <1>1, <2>1, <2>2 DEF FrameInv, InMemory, Filled, Stale
<1>5. ASSUME NEW p \in Pixel
      PROVE  screen[p] = Black \/ \E r \in 0 .. Height - 1, c \in Column : p = Shown(r, c)
  <2>1. p \in Cleared
    BY PlainCleared
  <2> QED
    BY <1>3, <2>1 DEF FrameInv, OnScreen, Dark, Ground, InPicture
<1> QED
  BY <1>4, <1>5

(* Wherever it came to lie, it is what the buffer held.                      *)
LEMMA FrameAnywhere ==
    ASSUME FrameInv, pc = "requeue", Width <= XRes
    PROVE  /\ \A r \in 0 .. Height - 1, c \in Column : Location(r, c) \in Pixel =>
                  screen[Location(r, c)] = data[held][Source(r, c)]
           /\ \A p \in Pixel :
                  \/ screen[p] = IF p \in Cleared THEN Black ELSE Old
                  \/ \E r \in 0 .. Height - 1, c \in Column : p = Location(r, c)
<1>1. index = Height
  BY DEF FrameInv, TypeInv, Drawing
<1> QED
  BY <1>1 DEF FrameInv, OnScreen, Drawn, Dark, Ground, InPicture

THEOREM CaptureShownIsFrame == Spec => []ShownIsFrame
<1>1. FrameInv => ShownIsFrame
  BY FramePlain, FrameAnywhere DEF ShownIsFrame
<1> QED
  BY <1>1, FrameInit, FrameStep, PTL DEF Spec
==============================================================================
