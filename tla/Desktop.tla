------------------------------- MODULE Desktop -------------------------------
(***************************************************************************)
(* The functions of bind/window that place windows, and the session of the *)
(* window resizer.  They run on the worker, one after the other; between   *)
(* them the user and other programs open, close and activate windows.      *)
(*                                                                         *)
(* A box is [x, y], each axis a pair of its two edges.  A direction is an  *)
(* axis and an end of it: 1 is left or up, 2 right or down.  Every window  *)
(* takes the box it is given, and the cursor, which follows the foreground *)
(* window, is left out.                                                    *)
(***************************************************************************)
EXTENDS Integers, SequencesExt

CONSTANTS
    Window, Monitor, None,
    Rect, Work,        \* the box of each monitor, and the part without the taskbar
    Combined,          \* the box of the desktop window
    Layouts,           \* the boxes of the windows at the start
    Places,            \* where a new window opens
    Memory,            \* the pages in use by the process of each window
    Readable,          \* the windows whose process may be asked for its memory
    Ignored,           \* the windows of the modules in arrangewin_ignore
    Delta,             \* window_hdelta and window_vdelta
    Velocity,          \* window_velocity
    Initmode,          \* winresizer_initmode
    Grain, Probe,      \* the unit of distances, and the way to the next monitor
    Sizes, Counts,     \* the arguments and the counts that are typed
    MaxSteps           \* bounds the functions that are called and the user's steps

Axis == {"x", "y"}
Box == [Axis -> {edges \in Int \X Int : edges[1] <= edges[2]}]
Size(b, a) == b[a][2] - b[a][1]
OutOf(b, range) == \E a \in Axis : b[a][2] <= range[a][1] \/ b[a][1] >= range[a][2]
Within(b, range) == \A a \in Axis : range[a][1] <= b[a][1] /\ b[a][2] <= range[a][2]

\* What the system guarantees of its monitors and windows: monitors do not overlap, and
\* each has a work area.
ASSUME DesktopAssumption ==
    /\ IsFiniteSet(Window) /\ None \notin Window /\ Ignored \subseteq Window
    /\ IsFiniteSet(Monitor) /\ Monitor # {}
    /\ Rect \in [Monitor -> Box] /\ Work \in [Monitor -> Box] /\ Combined \in Box
    /\ \A m \in Monitor : Within(Work[m], Rect[m]) /\ \A a \in Axis : Size(Work[m], a) > 0
    /\ \A m, n \in Monitor : m = n \/ OutOf(Rect[m], Rect[n])
    /\ Layouts \subseteq [Window -> Box] /\ Places \subseteq Box
    /\ Sizes \cup Counts \cup {Delta, Velocity, Probe, Initmode, MaxSteps} \subseteq Nat
    /\ Grain \in Nat \ {0}

VARIABLES
    box,        \* where each window is, or was
    shown,      \* the windows that are visible
    fg,         \* the one in the foreground
    session,    \* the mode of the resizer, if it is open
    alive,      \* FALSE after undefined behaviour
    steps,
    did         \* what the last step was, for the properties

vars == <<box, shown, fg, session, alive, steps, did>>

Direction == Axis \X {1, 2}
Other(a) == IF a = "x" THEN "y" ELSE "x"
Mid(b, a) == b[a][1] + Size(b, a) \div 2
Abs(n) == IF n < 0 THEN -n ELSE n

Square(n) == n * n
Distance(p, q) == (Square(p.x - q.x) + Square(p.y - q.y)) \div Grain
Centre(b) == [a \in Axis |-> Mid(b, a)]

-----------------------------------------------------------------------------
(***************************************************************************)
(* MonitorFromWindow and MonitorFromPoint: the monitor with most of a box, *)
(* or the nearest one.                                                     *)
(***************************************************************************)
Greater(m, n) == IF m > n THEN m ELSE n
Less(m, n) == IF m < n THEN m ELSE n
Common(b, range, a) == Less(b[a][2], range[a][2]) - Greater(b[a][1], range[a][1])
Share(b, m) ==
    LET common == [a \in Axis |-> Common(b, Rect[m], a)]
        gap(a) == IF common[a] < 0 THEN common[a] ELSE 0
    IN  IF common["x"] > 0 /\ common["y"] > 0 THEN common["x"] * common["y"] ELSE gap("x") + gap("y")
MonitorOf(b) == CHOOSE m \in Monitor : \A n \in Monitor : Share(b, n) <= Share(b, m)
MonitorAt(p) == MonitorOf([a \in Axis |-> <<p[a], p[a] + 1>>])

\* What an enumeration of the windows leaves: visible, with an area, in a work area.
IsWindowMode(w) == \A a \in Axis : Size(box[w], a) # 0
InWorkArea(w) == ~OutOf(box[w], Work[MonitorOf(box[w])])
Enumerated == {w \in shown : IsWindowMode(w) /\ InWorkArea(w)}

-----------------------------------------------------------------------------
(***************************************************************************)
(* Resizing, snapping and splitting the foreground window.                 *)
(***************************************************************************)
\* resize_in_monitor_width and _height: what does not fit to the right is added on the left.
\* (Bug: what does not fit is added on the right.)
Resized_Right(b, a, size, range) ==
    IF size >= Size(range, a) THEN [b EXCEPT ![a] = range[a]]
    ELSE [b EXCEPT ![a][2] = @ + size - Size(b, a)]
Resized(b, a, size, range) ==
    LET max == range[a][2] - b[a][1]
        first == b[a][1] - (IF size > max THEN size - max ELSE 0)
    IN  IF size >= Size(range, a) THEN [b EXCEPT ![a] = range[a]]
        ELSE [b EXCEPT ![a] = <<first, first + size>>]

\* DecreaseWindow stays where it is; a window cannot have a size of zero.
Decreased(b, a, delta) ==
    IF Size(b, a) - delta <= 0 THEN b ELSE [b EXCEPT ![a][2] = @ - delta]

HalfOf(range, d) ==
    [range EXCEPT ![d[1]] = IF d[2] = 1 THEN <<@[1], Mid(range, d[1])>> ELSE <<Mid(range, d[1]), @[2]>>]

\* snap_foreground_window: in its place already, it goes to the next monitor.
Snapped(b, d) ==
    LET m == MonitorOf(b)
        beyond == IF d[2] = 1 THEN Rect[m][d[1]][1] - Probe ELSE Rect[m][d[1]][2] + Probe
        next == MonitorAt([Centre(Rect[m]) EXCEPT ![d[1]] = beyond])
    IN  IF b = HalfOf(Work[m], d) THEN HalfOf(Work[next], d) ELSE HalfOf(Work[m], d)

SplitFirst(b, a)  == [b EXCEPT ![a] = <<@[1], @[1] + Size(b, a) \div 2>>]
SplitSecond(b, a) == [b EXCEPT ![a] = <<@[1] + Size(b, a) \div 2, @[1] + 2 * (Size(b, a) \div 2)>>]

\* MoveWindow: to the left and up as far as the desktop goes, to the right and down until
\* the window ends with it.
Shifted(b, a, first) == [b EXCEPT ![a] = <<first, first + Size(b, a)>>]
Moved(b, d, delta) ==
    LET a == d[1]
        end == Greater(Combined[a][2] - Size(b, a), 0)
    IN  Shifted(b, a, IF d[2] = 1 THEN Greater(b[a][1] - delta, Combined[a][1])
                      ELSE Less(b[a][1] + delta, end))

\* do_move of the resizer holds the first corner, not the window, on the desktop.
Slid(b, d) ==
    LET a == d[1]
    IN  Shifted(b, a, IF d[2] = 1 THEN Greater(b[a][1] - Velocity, Combined[a][1])
                      ELSE Less(b[a][1] + Velocity, Combined[a][2]))

-----------------------------------------------------------------------------
(***************************************************************************)
(* Selecting and exchanging: the nearest window.  Of equally near ones the *)
(* last that is looked at is taken, in an order that nobody decides.       *)
(***************************************************************************)
IsTarget(b, c, d) == IF d[2] = 1 THEN Mid(b, d[1]) >= Mid(c, d[1]) ELSE Mid(b, d[1]) <= Mid(c, d[1])
Edge(b, d) == [Centre(b) EXCEPT ![d[1]] = b[d[1]][d[2]]]
NearestTo(p, windows) ==
    {w \in windows : \A v \in windows : Distance(Centre(box[w]), p) <= Distance(Centre(box[v]), p)}

Selectable(d) == {w \in Enumerated \ {fg} : IsTarget(box[fg], box[w], d)}

\* (Bug: the box of the nearest window is read after it has been moved.)
Exchanged_Late(boxes, w) == [boxes EXCEPT ![w] = boxes[fg]]
Exchanged(boxes, w) == [boxes EXCEPT ![w] = boxes[fg], ![fg] = boxes[w]]

-----------------------------------------------------------------------------
(***************************************************************************)
(* Rotating: the windows of the monitor in the order of their angles seen  *)
(* from the centre of the work area, from the left by the bottom, the      *)
(* right and the top.  Of windows with equal angles one is rotated.        *)
(***************************************************************************)
Ray(w, range) == [x |-> Mid(box[w], "x") - Mid(range, "x"), y |-> Mid(range, "y") - Mid(box[w], "y")]
Turn(r) ==
    CASE r.y < 0 -> 1
      [] r.y = 0 /\ r.x >= 0 -> 2
      [] r.y > 0 -> 3
      [] OTHER -> 4
SmallerAngle(r, s) == Turn(r) < Turn(s) \/ (Turn(r) = Turn(s) /\ r.x * s.y - r.y * s.x > 0)

SmallerIn(range, v, w) == SmallerAngle(Ray(v, range), Ray(w, range))

\* The windows that are rotated: one of every angle.
Wheels(windows, range) ==
    LET before == {p \in windows \X windows : SmallerIn(range, p[1], p[2])}
        alike(v, w) == <<v, w>> \notin before /\ <<w, v>> \notin before
    IN  {s \in SUBSET windows : \A v \in windows : Cardinality({w \in s : alike(v, w)}) = 1}

\* Each one goes to the place of the next one, count times, or of the one before.
Rotated(boxes, wheel, range, count) ==
    LET rank == [w \in wheel |-> Cardinality({v \in wheel : SmallerIn(range, v, w)})]
        place(w) == boxes[CHOOSE v \in wheel : rank[v] = (rank[w] + count) % Cardinality(wheel)]
    IN  [w \in DOMAIN boxes |-> IF w \in wheel THEN place(w) ELSE boxes[w]]

-----------------------------------------------------------------------------
(***************************************************************************)
(* Arranging: on each monitor the window with most memory gets the work    *)
(* area, and each next one half of what the one before it has.             *)
(***************************************************************************)
Arrangeable(m) == {w \in Enumerated \cap Readable : MonitorOf(box[w]) = m}

\* The enumeration adds the number of windows before it to the bytes of each window: less
\* than a page, so that only windows with equal memory are in the order it decides.
Orders ==
    LET all == Enumerated \cap Readable
    IN  {at \in Bijection(all, 1..Cardinality(all)) :
            \A v, w \in all : at[v] < at[w] => Memory[v] >= Memory[w]}

\* The longer side is cut; of an odd one both have the line in the middle.
\* (Bug: each half is rounded down.)
Cut_Down(b) ==
    LET a == IF Size(b, "x") > Size(b, "y") THEN "x" ELSE "y"
    IN  <<SplitFirst(b, a), SplitSecond(b, a)>>
Cut(b) ==
    LET a == IF Size(b, "x") > Size(b, "y") THEN "x" ELSE "y"
        half == Size(b, a) \div 2
    IN  <<[b EXCEPT ![a][2] = @ - half], [b EXCEPT ![a][1] = @ + half]>>

\* What is left after so many cuts, and the i-th of n areas.
Rest(range) == LET rest[i \in Nat] == IF i = 0 THEN range ELSE Cut(rest[i - 1])[2] IN rest
Area(range, i, n) == LET rest == Rest(range)[i - 1] IN IF i = n THEN rest ELSE Cut(rest)[1]

Arranged(at) ==
    LET mine == [m \in Monitor |-> Arrangeable(m) \ Ignored]
        rank(w, m) == Cardinality({v \in mine[m] : at[v] <= at[w]})
        placed(w, m) == IF w \in mine[m] THEN Area(Work[m], rank(w, m), Cardinality(mine[m])) ELSE box[w]
    IN  [w \in Window |-> placed(w, MonitorOf(box[w]))]

-----------------------------------------------------------------------------
(***************************************************************************)
(* The functions.  Those that need a foreground window fail without one.   *)
(***************************************************************************)
Did(what) == steps < MaxSteps /\ steps' = steps + 1 /\ did' = what

Resize(b) == box' = [box EXCEPT ![fg] = b] /\ UNCHANGED <<shown, fg>>
Nothing == UNCHANGED <<box, shown, fg>>
ForForeground(b) == IF fg = None THEN Nothing ELSE Resize(b)

ResizeWindow(a, size) == ForForeground(Resized(box[fg], a, size, Work[MonitorOf(box[fg])]))
IncreaseWindow(a, count) == ResizeWindow(a, Size(box[fg], a) + count * Delta)
DecreaseWindow(a, count) == ForForeground(Decreased(box[fg], a, count * Delta))
SnapCurrentWindow(d) == ForForeground(Snapped(box[fg], d))
MoveWindow(d, count) == ForForeground(Moved(box[fg], d, count * Velocity))

SelectWindow(d) ==
    IF fg = None \/ Selectable(d) = {} THEN Nothing
    ELSE fg' \in NearestTo(Edge(box[fg], d), Selectable(d)) /\ UNCHANGED <<box, shown>>

ExchangeWindowWithNearest ==
    IF fg = None \/ Enumerated \subseteq {fg} THEN Nothing
    ELSE /\ \E w \in NearestTo(Centre(box[fg]), Enumerated \ {fg}) : box' = Exchanged(box, w)
         /\ UNCHANGED <<shown, fg>>

RotateWindows(count) ==
    LET m == MonitorOf(box[fg])
        windows == {w \in Enumerated : MonitorOf(box[w]) = m}
    IN  IF fg = None \/ windows = {} THEN Nothing
        ELSE /\ \E wheel \in Wheels(windows, Work[m]) : box' = Rotated(box, wheel, Work[m], count)
             /\ UNCHANGED <<shown, fg>>

\* A monitor whose windows are all ignored has no first window: what is read of it is undefined.
ArrangeWindows ==
    LET all == {m \in Monitor : Arrangeable(m) # {}}
        ignored == {m \in all : Arrangeable(m) \subseteq Ignored}
    IN  /\ UNCHANGED <<shown, fg>>
        /\ IF fg = None \/ all = ignored THEN UNCHANGED <<box, alive>>
           ELSE IF ignored # {} THEN alive' = FALSE /\ UNCHANGED box
           ELSE /\ \E at \in Orders : box' = Arranged(at)
                /\ UNCHANGED alive

\* The new window may be late: then the one that is in the foreground after half a second
\* gets the second half, even if it is the one that was split.
OpenNewWindow(a) ==
    IF fg = None THEN Nothing
    ELSE \E new \in (Window \ shown) \cup {None}, front \in Window \cup {None} :
            /\ shown' = shown \cup ({new} \ {None})
            /\ front \in shown' \cup {None}
            /\ fg' = front
            /\ LET split == [box EXCEPT ![fg] = SplitFirst(@, a)]
               IN  \E p \in Places :
                    LET opened == [w \in Window |-> IF w = new THEN p ELSE split[w]]
                    IN  box' = [w \in Window |-> IF w = front THEN SplitSecond(box[fg], a) ELSE opened[w]]

Sizing ==
    /\ Did("size") /\ UNCHANGED alive
    /\ \/ \E a \in Axis : \/ \E size \in Sizes : ResizeWindow(a, size)
                           \/ \E n \in Counts : IncreaseWindow(a, n) \/ DecreaseWindow(a, n)
                           \/ OpenNewWindow(a)
       \/ \E d \in Direction : SnapCurrentWindow(d) \/ SelectWindow(d)

Moving ==
    /\ Did("move") /\ UNCHANGED alive
    /\ \E d \in Direction, n \in Counts : MoveWindow(d, n)

Swapping ==
    /\ Did("swap") /\ UNCHANGED alive
    /\ ExchangeWindowWithNearest \/ \E n \in Counts : RotateWindows(n) \/ RotateWindows(-n)

Arranging == Did("arrange") /\ ArrangeWindows

Function == session = "none" /\ (Sizing \/ Moving \/ Swapping \/ Arranging) /\ UNCHANGED session

-----------------------------------------------------------------------------
(***************************************************************************)
(* WindowResizer: e changes its mode, h j k l resize, move or select.      *)
(***************************************************************************)
InnerMode == <<"resize", "move", "focus">>
Modulo(n) == InnerMode[(n % 3) + 1]
NextMode == CASE session = "resize" -> Modulo(1) [] session = "move" -> Modulo(2) [] OTHER -> Modulo(3)

OpenResizer ==
    /\ session = "none"
    /\ session' = Modulo(Initmode)
    /\ UNCHANGED <<box, shown, fg, alive, steps, did>>

ChangeMode ==
    /\ session # "none"
    /\ session' = NextMode
    /\ UNCHANGED <<box, shown, fg, alive, steps, did>>

CloseResizer ==
    /\ session # "none"
    /\ session' = "none"
    /\ UNCHANGED <<box, shown, fg, alive, steps, did>>

\* Without a foreground window a resize throws, which ends the session.
CallOp(d) ==
    /\ session # "none"
    /\ Did(IF session = "move" THEN "move" ELSE "size")
    /\ session' = (IF session = "resize" /\ fg = None THEN "none" ELSE session)
    /\ UNCHANGED alive
    /\ \/ session = "resize" /\ d[2] = 1 /\ DecreaseWindow(d[1], 1)
       \/ session = "resize" /\ d[2] = 2 /\ IncreaseWindow(d[1], 1)
       \/ session = "move" /\ ForForeground(Slid(box[fg], d))
       \/ session = "focus" /\ SelectWindow(d)

Resizer == OpenResizer \/ ChangeMode \/ CloseResizer \/ \E d \in Direction : CallOp(d)

-----------------------------------------------------------------------------
(***************************************************************************)
(* What the user and other programs do to the windows.                     *)
(***************************************************************************)
Activate(w) ==
    /\ w \in shown \cup {None}
    /\ fg' = w
    /\ UNCHANGED <<box, shown>>

Open(w) ==
    /\ w \notin shown
    /\ shown' = shown \cup {w} /\ fg' = w
    /\ \E p \in Places : box' = [box EXCEPT ![w] = p]

CloseWindow(w) ==
    /\ w \in shown
    /\ shown' = shown \ {w}
    /\ fg' \in (IF fg = w THEN shown' \cup {None} ELSE {fg})
    /\ UNCHANGED box

User ==
    /\ Did("user") /\ UNCHANGED <<session, alive>>
    /\ Activate(None) \/ \E w \in Window : Open(w) \/ CloseWindow(w) \/ Activate(w)

-----------------------------------------------------------------------------
Init ==
    /\ box \in Layouts
    /\ shown \in SUBSET Window
    /\ fg \in shown \cup {None}
    /\ session = "none"
    /\ alive = TRUE
    /\ steps = 0 /\ did = "nothing"

Next == alive /\ (Function \/ Resizer \/ User)

Spec == Init /\ [][Next]_vars

-----------------------------------------------------------------------------
(***************************************************************************)
(* Properties.                                                             *)
(***************************************************************************)
\* After arranging, the windows of a monitor fill its work area, whatever its proportions
\* and however they were enumerated; the most two of them share is the line that an odd
\* side leaves in the middle.  An ignored window is not moved (arrange_win.cpp).
Covered(windows, range) ==
    \A x \in range["x"][1]..range["x"][2] - 1, y \in range["y"][1]..range["y"][2] - 1 :
        \E w \in windows : Within([x |-> <<x, x + 1>>, y |-> <<y, y + 1>>], box[w])
Tiles(windows, range) ==
    /\ windows # {} => Covered(windows, range)
    /\ \A w \in windows : Within(box[w], range)
    /\ \A v, w \in windows : v = w \/ \E a \in Axis : Common(box[v], box[w], a) <= 1
ArrangeTiles ==
    [][steps' # steps /\ did' = "arrange" /\ box' # box =>
        /\ \A m \in Monitor : \E windows \in {Arrangeable(m) \ Ignored} : Tiles(windows, Work[m])'
        /\ \A w \in Ignored : box'[w] = box[w]]_vars

\* Rotating and exchanging give the windows each other's places: no place is lost or
\* taken twice, even if angles or distances are equal, windows lie on one another or the
\* nearest one is on another monitor (rotate_win.cpp, exchange_win.cpp).
PlacesKept ==
    [][steps' # steps /\ did' = "swap" =>
        \A p \in Range(box) : Cardinality({w \in Window : box'[w] = p})
                             = Cardinality({w \in Window : box[w] = p})]_vars

\* Windows that all lie in work areas, and have an area, stay there, whatever is resized,
\* snapped, split, rotated, exchanged or arranged in which order: only moving takes one out
\* (resize_win.cpp resize_in_monitor_width and _height, snap_win.cpp, split_win.cpp).
InAWorkArea(w) == \E m \in Monitor : Within(box[w], Work[m])
StaysInside ==
    [][(\A w \in shown : InAWorkArea(w) /\ IsWindowMode(w)) /\ did' # "move" =>
        \A w \in shown \cap shown' : InAWorkArea(w)']_vars
=============================================================================
