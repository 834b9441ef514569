------------------------------- MODULE Capture -------------------------------
(* EX06-04_v4l2test/v4l2test.c: frames of a camera are drawn on a            *)
(* framebuffer.  The program and the camera driver share the memory of a few *)
(* buffers: VIDIOC_QBUF hands one to the driver, which fills it row by row   *)
(* while the program runs, and VIDIOC_DQBUF hands it back.                   *)
(*                                                                           *)
(* A pixel is abstracted to <<frame, row, column>>, where the camera saw it.  *)
(* Addresses are counted in pixels: of the mapping of the framebuffer, which *)
(* is XRes * YRes long whatever the length of its lines, and of a buffer,    *)
(* where the driver's rows are bytesperline apart and the program's width.   *)
(*                                                                           *)
(* MaxFrame bounds the frames of the driver.                                 *)
EXTENDS Integers

CONSTANTS XRes, YRes,      \* size of the screen (vinfo)
          Geometry,        \* values <<line_length, xoffset, yoffset>> of the screen
          Picture,         \* <<width, height, bytesperline>> VIDIOC_S_FMT may settle on
          Position,        \* values <<xpos, ypos>> of the options -x and -y
          Counts,          \* values of the option -c
          Granted,         \* numbers of buffers VIDIOC_REQBUFS may grant
          None, MaxFrame

ASSUME CaptureAssumption ==
    /\ XRes \in Nat /\ YRes \in Nat
    /\ Geometry \subseteq (Nat \X Nat \X Nat)
    /\ Picture \subseteq (Nat \X (Nat \ {0}) \X Nat)
    /\ \A f \in Picture : f[1] <= f[3]
    /\ Position \subseteq (Int \X Int)
    /\ Counts \subseteq Nat /\ Granted \subseteq 0 .. 4
    /\ None \notin Int /\ MaxFrame \in Nat

Old == <<-2, 0, 0>>        \* what the screen showed before the program
Black == <<-1, 0, 0>>
Fresh == <<0, 0, 0>>       \* what a buffer holds before its first frame
Buffer == 0 .. 3
Pixel == 0 .. XRes * YRes - 1
Cell == UNION {0 .. f[2] * f[3] - 1 : f \in Picture}

VARIABLES pc,         \* the call the program makes next
          status,     \* its exit status
          pos,        \* xpos and ypos
          geo,        \* what fb_init reads of the screen: of Geometry
          count,      \* frames left to grab, in mainloop
          n_buffers,  \* buffers mapped
          fmt,        \* width, height and bytesperline of a picture
          index,      \* next buffer to queue or unmap, next row to draw
          held,       \* the buffer DQBUF handed out
          screen,     \* map_fb
          eintr,      \* the call was interrupted and has to be made again
          owner,      \* who may touch each buffer
          data,       \* the cells of each buffer
          stamp,      \* the frame in each buffer
          used,       \* bytesused: the rows of it the driver filled
          frame,      \* the frame the driver took last
          filling,    \* the buffer the driver is filling
          streaming

place == <<pos, geo>>
program == <<pc, status, place, count, n_buffers, fmt, index, held, screen, eintr>>
buffers == <<data, stamp, used, frame>>
vars == <<program, owner, buffers, filling, streaming>>

Width == fmt[1]
Height == fmt[2]
Stride == fmt[3]
line_length == geo[1]
xoffset == geo[2]
yoffset == geo[3]

Init ==
    /\ pc = "open" /\ status = None
    /\ pos \in Position /\ geo \in Geometry /\ count \in Counts
    /\ n_buffers = 0 /\ fmt = <<0, 0, 0>> /\ index = 0 /\ held = None
    /\ screen = [p \in Pixel |-> Old] /\ eintr = FALSE
    /\ owner = [b \in Buffer |-> "program"]
    /\ data = [b \in Buffer |-> [i \in Cell |-> Fresh]]
    /\ stamp = [b \in Buffer |-> 0] /\ used = [b \in Buffer |-> 0]
    /\ frame = 0 /\ filling = None /\ streaming = FALSE

Goto(l) == pc' = l /\ UNCHANGED status

(* The driver takes nothing more and gives every buffer back.                *)
StreamEnds ==
    /\ streaming' = FALSE /\ filling' = None
    /\ owner' = [b \in Buffer |-> "program"]

Exit(s) ==
    /\ pc' = "exit" /\ status' = s /\ held' = None
    /\ StreamEnds
    /\ UNCHANGED <<place, count, n_buffers, fmt, index, screen, buffers>>

(* Every call but S_CROP ends the program when it fails.                     *)
CallFails ==
    /\ pc \notin {"frame", "draw", "exit"}
    /\ Exit("failure")

(* A signal ends a call with EINTR: xioctl and the loop of mainloop make it  *)
(* again, select with 2 seconds from the start.                              *)
Interrupted ==
    /\ pc \in {"init", "mmap", "queue", "on", "select", "dqbuf", "requeue", "off"}
    /\ ~eintr /\ eintr' = TRUE
    /\ UNCHANGED <<pc, status, place, count, n_buffers, fmt, index, held, screen,
                   owner, buffers, filling, streaming>>

Retry ==
    /\ eintr /\ eintr' = FALSE
    /\ UNCHANGED <<pc, status, place, count, n_buffers, fmt, index, held, screen,
                   owner, buffers, filling, streaming>>

(* open_device and fb_init, where draw_rect clears what the screen shows as  *)
(* far as it lies in the mapping.                                            *)
Cleared == {(yoffset + y) * line_length + xoffset + x : y \in 0 .. YRes - 1, x \in 0 .. XRes - 1}

OpenDevice ==
    /\ pc = "open" /\ Goto("init")
    /\ screen' = [p \in Pixel |-> IF p \in Cleared THEN Black ELSE Old]
    /\ UNCHANGED <<place, count, n_buffers, fmt, index, held, owner, buffers, filling, streaming>>

(* The driver answers VIDIOC_S_FMT with the size it will deliver.            *)
InitDevice ==
    /\ pc = "init" /\ Goto("mmap")
    /\ fmt' \in Picture
    /\ UNCHANGED <<place, count, n_buffers, index, held, screen, owner, buffers, filling, streaming>>

(* A single buffer is not refused.                                           *)
InitMmapAny ==
    /\ pc = "mmap" /\ Goto("queue")
    /\ n_buffers' \in Granted
    /\ UNCHANGED <<place, count, fmt, index, held, screen, owner, buffers, filling, streaming>>

(* The driver grants less than the 4 buffers asked for; below 2 CallFails.   *)
InitMmap ==
    /\ pc = "mmap" /\ Goto("queue")
    /\ n_buffers' \in {n \in Granted : n >= 2}
    /\ UNCHANGED <<place, count, fmt, index, held, screen, owner, buffers, filling, streaming>>

(* start_capturing: QBUF of each buffer, then STREAMON.                      *)
QueueBuffer ==
    /\ pc = "queue" /\ index < n_buffers
    /\ owner' = [owner EXCEPT ![index] = "queued"]
    /\ index' = index + 1
    /\ Goto(IF index + 1 = n_buffers THEN "on" ELSE "queue")
    /\ UNCHANGED <<place, count, n_buffers, fmt, held, screen, buffers, filling, streaming>>

StreamOn ==
    /\ pc = "on" /\ Goto("frame")
    /\ streaming' = TRUE
    /\ UNCHANGED <<place, count, n_buffers, fmt, index, held, screen, owner, buffers, filling>>

(* while (count-- > 0)                                                       *)
NextFrame ==
    /\ pc = "frame"
    /\ Goto(IF count > 0 THEN "select" ELSE "off")
    /\ count' = IF count > 0 THEN count - 1 ELSE 0
    /\ UNCHANGED <<place, n_buffers, fmt, index, held, screen, owner, buffers, filling, streaming>>

Done == {b \in Buffer : owner[b] = "done"}

SelectReady ==
    /\ pc = "select" /\ Done # {} /\ Goto("dqbuf")
    /\ UNCHANGED <<place, count, n_buffers, fmt, index, held, screen, owner, buffers,
                   filling, streaming>>

(* select reports a frame when there is none.                                *)
SelectSpurious ==
    /\ pc = "select" /\ Done = {} /\ Goto("dqbuf")
    /\ UNCHANGED <<place, count, n_buffers, fmt, index, held, screen, owner, buffers,
                   filling, streaming>>

(* A timeout is taken for an interrupted call.                               *)
SelectAgain ==
    /\ pc = "select" /\ Done = {}
    /\ UNCHANGED vars

(* No frame for 2 seconds.                                                   *)
SelectTimeout ==
    /\ pc = "select" /\ Done = {}
    /\ Exit("failure")

(* The buffer is back in the driver's queue before it is drawn.              *)
DequeueBack(b) ==
    /\ pc = "dqbuf" /\ b \in Done
    /\ \A d \in Done : stamp[b] <= stamp[d]
    /\ held' = b /\ owner' = [owner EXCEPT ![b] = "queued"]
    /\ index' = 0 /\ Goto("draw")
    /\ UNCHANGED <<place, count, n_buffers, fmt, screen, buffers, filling, streaming>>

(* read_frame: DQBUF hands out the buffer filled first.                      *)
Dequeue(b) ==
    /\ pc = "dqbuf" /\ b \in Done
    /\ \A d \in Done : stamp[b] <= stamp[d]
    /\ held' = b /\ owner' = [owner EXCEPT ![b] = "program"]
    /\ index' = 0 /\ Goto("draw")
    /\ UNCHANGED <<place, count, n_buffers, fmt, screen, buffers, filling, streaming>>

(* DQBUF has nothing: EAGAIN, and mainloop selects again.                    *)
DequeueAgain ==
    /\ pc = "dqbuf" /\ Done = {} /\ Goto("select")
    /\ UNCHANGED <<place, count, n_buffers, fmt, index, held, screen, owner, buffers, filling, streaming>>

(* capture_to_fb draws two columns at a time: the last of an odd width is    *)
(* left out.  It takes a row to be width long in the buffer and XRes on the  *)
(* screen.                                                                   *)
Column == 0 .. 2 * (Width \div 2) - 1
Source(r, c) == r * Width + c
Location(r, c) == (r + pos[2]) * XRes + c + pos[1]

(* One row, all of it whatever bytesused says.                               *)
DrawRow ==
    /\ pc = "draw"
    /\ screen' = [p \in Pixel |->
                     IF \E c \in Column : p = Location(index, c)
                     THEN data[held][Source(index, CHOOSE c \in Column : p = Location(index, c))]
                     ELSE screen[p]]
    /\ index' = index + 1
    /\ Goto(IF index + 1 = Height THEN "requeue" ELSE "draw")
    /\ UNCHANGED <<place, count, n_buffers, fmt, held, owner, buffers, filling, streaming>>

(* A store outside the mapping, by draw_rect or capture_to_fb, changes       *)
(* something else or ends the program.                                       *)
StoreOutside ==
    /\ \/ pc = "open" /\ ~(Cleared \subseteq Pixel)
       \/ pc = "draw" /\ \E c \in Column : Location(index, c) \notin Pixel
    /\ Exit("killed")

(* VIDIOC_QBUF after the drawing.                                            *)
Requeue ==
    /\ pc = "requeue" /\ Goto("frame")
    /\ owner' = [owner EXCEPT ![held] = "queued"] /\ held' = None
    /\ UNCHANGED <<place, count, n_buffers, fmt, index, screen, buffers, filling, streaming>>

(* stop_capturing: STREAMOFF.                                                *)
StreamOff ==
    /\ pc = "off" /\ Goto("uninit")
    /\ StreamEnds /\ index' = 0
    /\ UNCHANGED <<place, count, n_buffers, fmt, held, screen, buffers>>

(* uninit_device unmaps the buffers one by one.                              *)
UninitDevice ==
    /\ pc = "uninit" /\ index' = index + 1
    /\ Goto(IF index + 1 = n_buffers THEN "close" ELSE "uninit")
    /\ UNCHANGED <<place, count, n_buffers, fmt, held, screen, owner, buffers, filling, streaming>>

(* close_device and fb_close.                                                *)
CloseDevice == pc = "close" /\ Exit("success")

Program ==
    \/ Retry
    \/ /\ ~eintr /\ UNCHANGED eintr
       /\ \/ OpenDevice \/ InitDevice \/ InitMmap \/ QueueBuffer \/ StreamOn
          \/ NextFrame \/ SelectReady \/ SelectTimeout
          \/ (\E b \in Buffer : Dequeue(b)) \/ DequeueAgain \/ DrawRow \/ Requeue
          \/ StreamOff \/ UninitDevice \/ CloseDevice

Fault ==
    \/ Interrupted
    \/ ~eintr /\ UNCHANGED eintr /\ (CallFails \/ SelectSpurious \/ StoreOutside)

(* The driver takes the next frame into a queued buffer, or loses it.        *)
TakeFrame(b) ==
    /\ streaming /\ filling = None /\ frame < MaxFrame /\ owner[b] = "queued"
    /\ owner' = [owner EXCEPT ![b] = "driver"] /\ filling' = b
    /\ frame' = frame + 1
    /\ stamp' = [stamp EXCEPT ![b] = frame + 1] /\ used' = [used EXCEPT ![b] = 0]
    /\ UNCHANGED <<program, data, streaming>>

LoseFrame ==
    /\ streaming /\ filling = None /\ frame < MaxFrame
    /\ \A b \in Buffer : owner[b] # "queued"
    /\ frame' = frame + 1
    /\ UNCHANGED <<program, owner, data, stamp, used, filling, streaming>>

FillRow ==
    /\ filling # None /\ used[filling] < Height
    /\ LET r == used[filling] IN
       data' = [data EXCEPT ![filling] =
                  [i \in Cell |-> IF i - r * Stride \in 0 .. Width - 1
                                  THEN <<stamp[filling], r, i - r * Stride>> ELSE @[i]]]
    /\ used' = [used EXCEPT ![filling] = used[filling] + 1]
    /\ UNCHANGED <<program, owner, stamp, frame, filling, streaming>>

(* The frame may have ended early, with fewer rows than the format has.      *)
FrameDone ==
    /\ filling # None /\ used[filling] > 0
    /\ owner' = [owner EXCEPT ![filling] = "done"] /\ filling' = None
    /\ UNCHANGED <<program, buffers, streaming>>

Driver == (\E b \in Buffer : TakeFrame(b)) \/ LoseFrame \/ FillRow \/ FrameDone

Ended == pc = "exit" /\ UNCHANGED vars

Next == Program \/ Fault \/ Driver \/ Ended

Spec == Init /\ [][Next]_vars

(* The program goes on when it can.  No call has to fail, and nothing is     *)
(* assumed of the driver, which may stop at any moment.                      *)
FairSpec == Spec /\ WF_vars(Program)

------------------------------------------------------------------------------
Value == Int \X Nat \X Nat

(* Types, and who owns the buffers: after init_mmap there are two to four,   *)
(* the driver fills the one buffer it owns, and the buffer DQBUF handed out  *)
(* is the program's until QBUF.                                              *)
TypeOK ==
    /\ pc \in {"open", "init", "mmap", "queue", "on", "frame", "select", "dqbuf",
               "draw", "requeue", "off", "uninit", "close", "exit"}
    /\ status \in {None, "success", "failure", "killed"}
    /\ pos \in Position /\ geo \in Geometry /\ count \in Nat /\ eintr \in BOOLEAN
    /\ n_buffers \in {0} \cup 2 .. 4
    /\ n_buffers = 0 => pc \in {"open", "init", "mmap", "exit"}
    /\ fmt \in Picture \cup {<<0, 0, 0>>}
    /\ fmt = <<0, 0, 0>> => pc \in {"open", "init", "exit"}
    /\ index \in Nat
    /\ held \in Buffer \cup {None}
    /\ held # None <=> pc \in {"draw", "requeue"}
    /\ held # None => owner[held] = "program"
    /\ screen \in [Pixel -> Value]
    /\ owner \in [Buffer -> {"program", "queued", "driver", "done"}]
    /\ data \in [Buffer -> [Cell -> Value]]
    /\ stamp \in [Buffer -> Nat] /\ used \in [Buffer -> Nat] /\ frame \in Nat
    /\ filling \in Buffer \cup {None}
    /\ \A b \in Buffer : owner[b] = "driver" <=> filling = b
    /\ streaming \in BOOLEAN

(* Where the screen shows row r and column c of a picture at xpos, ypos.     *)
Shown(r, c) == (yoffset + r + pos[2]) * line_length + xoffset + c + pos[1]

(* The code's two ideas of a row are right: the lines of the screen have no  *)
(* padding and it is not panned, nor have the rows in the buffers padding;   *)
(* and the picture lies on the screen.                                       *)
Plain ==
    /\ line_length = XRes /\ xoffset = 0 /\ yoffset = 0 /\ Stride = Width
    /\ pos[1] >= 0 /\ pos[1] + Width <= XRes
    /\ pos[2] >= 0 /\ pos[2] + Height <= YRes

(* What has been drawn when the buffer goes back, while the driver went on   *)
(* filling the others.  On a plain screen one sees one frame in its place:   *)
(* the rows the driver brought are of that frame, a row it did not bring is  *)
(* what an older frame left there, and around the picture it is black.       *)
(* Anywhere else, of pictures no wider than the screen, the mapping holds    *)
(* what the buffer held when DQBUF handed it out, wherever that came to lie, *)
(* and the rest of it is as draw_rect left it.                               *)
ShownIsFrame ==
    pc = "requeue" =>
        /\ Plain =>
             /\ \A r \in 0 .. Height - 1, c \in Column :
                   IF r < used[held] THEN screen[Shown(r, c)] = <<stamp[held], r, c>>
                   ELSE \/ screen[Shown(r, c)] = Fresh
                        \/ \E f \in 1 .. stamp[held] - 1 : screen[Shown(r, c)] = <<f, r, c>>
             /\ \A p \in Pixel :
                   \/ screen[p] = Black
                   \/ \E r \in 0 .. Height - 1, c \in Column : p = Shown(r, c)
        /\ Width <= XRes =>
             /\ \A r \in 0 .. Height - 1, c \in Column : Location(r, c) \in Pixel =>
                   screen[Location(r, c)] = data[held][Source(r, c)]
             /\ \A p \in Pixel :
                   \/ screen[p] = IF p \in Cleared THEN Black ELSE Old
                   \/ \E r \in 0 .. Height - 1, c \in Column : p = Location(r, c)

(* The program ends: it has drawn the frames it was asked for, or a call     *)
(* failed, or the timeout of select, when the camera stops, ends it.  Only a *)
(* driver that reports frames it does not have, or signals that keep coming, *)
(* can keep it in its loops for ever; neither loop counts its rounds.        *)
Ends ==
    \/ <>(pc = "exit")
    \/ []<>(pc = "dqbuf" /\ Done = {})
    \/ []<>eintr
==============================================================================
