--------------------------- MODULE OutputFrameProofs ---------------------------
(***************************************************************************)
(* Proofs about OutputFrame: for any outputs, images and sizes, no request *)
(* for a frame is forgotten, the kernel is never given a commit while it   *)
(* has one, no image that is in use is drawn into or freed, and the        *)
(* outputs stand in a row without gaps.                                    *)
(***************************************************************************)
EXTENDS OutputFrame, SequenceTheorems, FiniteSetTheorems, WellFoundedInduction, TLAPS

Fields ==
  {"size", "viewport", "frame_requested", "commit_available", "try_redraw",
   "current_image", "pending_image", "frame_callback", "release_slots"}

(* What the requests are kept with; the places of outputs come later.      *)
Shaped(f) ==
  /\ f = [o \in Output |-> f[o]]
  /\ \A o \in Output :
       /\ f[o] = [x \in Fields |-> f[o][x]]
       /\ f[o].frame_requested \in BOOLEAN
       /\ f[o].commit_available \in BOOLEAN
       /\ f[o].try_redraw \in BOOLEAN

(* Something will look at a request that was noted.                        *)
Noticed(f) ==
  \A o \in Output : f[o].frame_requested =>
    f[o].try_redraw \/ ~f[o].commit_available \/ f[o].size = 0

(* A commit is out as long as the kernel has not flipped to it and told so,*)
(* or as the host has not asked for the next frame.                        *)
Paced(f, d) ==
  \A o \in Output :
    IF backend = "drm"
    THEN /\ ~f[o].commit_available <=> (d[o].queued # Null \/ d[o].flipped)
         /\ d[o].queued # Null => ~d[o].flipped
         /\ ~f[o].frame_callback
    ELSE /\ ~f[o].commit_available => f[o].frame_callback
         /\ d[o].queued = Null /\ ~d[o].flipped

Types ==
  /\ backend \in {"drm", "wayland"}
  /\ outputs \in Seq(Output)
  /\ Shaped(out)
  /\ pool.images \subseteq Image
  /\ device \in [Output -> Devices]
  /\ owed \in BOOLEAN
  /\ pumps \in 0 .. 2
  /\ shown \in [Output -> BOOLEAN]

IInv ==
  /\ Types
  /\ Noticed(out)
  /\ Paced(out, device)
  /\ StaleIsRequested
  /\ backend = "drm" => \A o \in Output \ Live : out[o].commit_available

-------------------------------------------------------------------------------
(* Asking for frames adds requests that will be looked at, nothing else.   *)
LEMMA RequestAsks ==
  ASSUME NEW f, Shaped(f), NEW live
  PROVE  LET g == wm_request_frame(f, live)
         IN  /\ Shaped(g)
             /\ \A o \in Output :
                  /\ g[o].size = f[o].size
                  /\ g[o].commit_available = f[o].commit_available
                  /\ g[o].frame_callback = f[o].frame_callback
                  /\ g[o].frame_requested = (f[o].frame_requested \/ o \in live)
                  /\ g[o].try_redraw = (f[o].try_redraw
                                          \/ (o \in live /\ ~f[o].frame_requested))
<1> DEFINE g == wm_request_frame(f, live)
<1>1. g = [o \in Output |-> g[o]]
  BY DEF wm_request_frame
<1>2. ASSUME NEW o \in Output
      PROVE  /\ g[o] = [x \in Fields |-> g[o][x]]
             /\ g[o].size = f[o].size
             /\ g[o].commit_available = f[o].commit_available
             /\ g[o].frame_callback = f[o].frame_callback
             /\ g[o].frame_requested = (f[o].frame_requested \/ o \in live)
             /\ g[o].try_redraw = (f[o].try_redraw
                                     \/ (o \in live /\ ~f[o].frame_requested))
  <2>1. /\ f[o] = [x \in Fields |-> f[o][x]]
        /\ f[o].frame_requested \in BOOLEAN /\ f[o].try_redraw \in BOOLEAN
    BY DEF Shaped
  <2>2. CASE o \in live
    <3>1. g[o] = [f[o] EXCEPT !.frame_requested = TRUE,
                              !.try_redraw = f[o].try_redraw \/ ~f[o].frame_requested]
      BY <2>2 DEF wm_request_frame
    <3> HIDE DEF g
    <3> QED
      BY <2>1, <2>2, <3>1 DEF Fields
  <2>3. CASE o \notin live
    <3>1. g[o] = f[o]
      BY <2>3 DEF wm_request_frame
    <3> QED
      BY <2>1, <2>3, <3>1
  <2> QED
    BY <2>2, <2>3
<1> HIDE DEF g
<1>3. Shaped(g)
  BY <1>1, <1>2 DEF Shaped
<1> QED
  BY <1>2, <1>3 DEF g

(* Laying out asks for frames of all outputs if it changes anything.       *)
LEMMA ReflowAsks ==
  ASSUME NEW f, Shaped(f), NEW order \in Seq(Output), NEW any_changed \in BOOLEAN,
         Types, reflow_outputs(f, order, any_changed)
  PROVE  /\ Shaped(out') /\ pumps' \in 0 .. 2 /\ shown' \in [Output -> BOOLEAN]
         /\ \E asked \in BOOLEAN :
              /\ any_changed => asked
              /\ \A o \in Output :
                   /\ out'[o].size = f[o].size
                   /\ out'[o].commit_available = f[o].commit_available
                   /\ out'[o].frame_callback = f[o].frame_callback
                   /\ out'[o].frame_requested =
                        (f[o].frame_requested \/ (asked /\ o \in ToSet(order)))
                   /\ out'[o].try_redraw =
                        (f[o].try_redraw \/ (asked /\ o \in ToSet(order)
                                                /\ ~f[o].frame_requested))
              /\ ~asked => shown' = shown /\ pumps' = pumps
<1> DEFINE live == ToSet(order)
           laid == [o \in Output |-> IF o \in live
                      THEN [f[o] EXCEPT !.viewport = Viewport(f, order, o)] ELSE f[o]]
           moved == {o \in live : laid[o].viewport # f[o].viewport}
           asked == any_changed \/ moved # {}
<1>1. Shaped(laid) /\ \A o \in Output : /\ laid[o].size = f[o].size
                                       /\ laid[o].commit_available = f[o].commit_available
                                       /\ laid[o].frame_callback = f[o].frame_callback
                                       /\ laid[o].frame_requested = f[o].frame_requested
                                       /\ laid[o].try_redraw = f[o].try_redraw
  <2>1. ASSUME NEW o \in Output
        PROVE  /\ laid[o] = [x \in Fields |-> laid[o][x]]
               /\ laid[o].size = f[o].size
               /\ laid[o].commit_available = f[o].commit_available
               /\ laid[o].frame_callback = f[o].frame_callback
               /\ laid[o].frame_requested = f[o].frame_requested
               /\ laid[o].try_redraw = f[o].try_redraw
    <3>1. f[o] = [x \in Fields |-> f[o][x]]
      BY DEF Shaped
    <3>2. PICK v : laid[o] = [f[o] EXCEPT !.viewport = v] \/ laid[o] = f[o]
      OBVIOUS
    <3> HIDE DEF laid
    <3> QED
      BY <3>1, <3>2 DEF Fields
  <2>2. laid = [o \in Output |-> laid[o]]
    OBVIOUS
  <2> HIDE DEF laid
  <2> QED
    BY <2>1, <2>2 DEF Shaped
<1>2. /\ out' = IF asked THEN wm_request_frame(laid, live) ELSE laid
      /\ shown' = [o \in Output |-> shown[o] /\ o \notin moved]
      /\ pumps' = IF asked THEN 2 ELSE pumps
  BY DEF reflow_outputs
<1>3. asked \in BOOLEAN
  OBVIOUS
<1>4. shown' \in [Output -> BOOLEAN] /\ pumps' \in 0 .. 2
  BY <1>2 DEF Types
<1>5. ~asked => shown' = shown
  BY <1>2 DEF Types
<1> HIDE DEF laid, live
<1>6. Shaped(out') /\ \A o \in Output :
        /\ out'[o].size = f[o].size
        /\ out'[o].commit_available = f[o].commit_available
        /\ out'[o].frame_callback = f[o].frame_callback
        /\ out'[o].frame_requested = (f[o].frame_requested \/ (asked /\ o \in live))
        /\ out'[o].try_redraw = (f[o].try_redraw
                                   \/ (asked /\ o \in live /\ ~f[o].frame_requested))
  <2> HIDE DEF asked
  <2>1. CASE asked
    <3>1. out' = wm_request_frame(laid, live)
      BY <1>2, <2>1
    <3>2. LET g == wm_request_frame(laid, live)
          IN  /\ Shaped(g)
              /\ \A o \in Output :
                   /\ g[o].size = laid[o].size
                   /\ g[o].commit_available = laid[o].commit_available
                   /\ g[o].frame_callback = laid[o].frame_callback
                   /\ g[o].frame_requested = (laid[o].frame_requested \/ o \in live)
                   /\ g[o].try_redraw = (laid[o].try_redraw
                                           \/ (o \in live /\ ~laid[o].frame_requested))
      BY <1>1, RequestAsks
    <3> QED
      BY <1>1, <2>1, <3>1, <3>2
  <2>2. CASE ~asked
    <3>1. out' = laid
      BY <1>2, <2>2
    <3>2. \A o \in Output : f[o].frame_requested \in BOOLEAN /\ f[o].try_redraw \in BOOLEAN
      BY DEF Shaped
    <3> QED
      BY <1>1, <2>2, <3>1, <3>2
  <2> QED
    BY <1>3, <2>1, <2>2
<1>7. /\ any_changed => asked
      /\ ~asked => shown' = shown /\ pumps' = pumps
  BY <1>2, <1>5
<1> HIDE DEF asked
<1> QED
  BY <1>3, <1>4, <1>6, <1>7 DEF live

(* A commit: of the output's fields that matter here it takes the room for *)
(* the next one, and notes what will give it back.                         *)
LEMMA CommitTakesRoom ==
  ASSUME Types, NEW f, Shaped(f), NEW d \in [Output -> Devices],
         NEW o \in Output, NEW i \in Image, commit(f, d, o, i)
  PROVE  /\ Shaped(out')
         /\ device' \in [Output -> Devices]
         /\ \A q \in Output : /\ out'[q].size = f[q].size
                             /\ out'[q].frame_requested = f[q].frame_requested
                             /\ out'[q].try_redraw = f[q].try_redraw
         /\ \A q \in Output \ {o} : out'[q] = f[q] /\ device'[q] = d[q]
         /\ ~out'[o].commit_available
         /\ device'[o].flipped = d[o].flipped
         /\ backend = "drm" => device'[o].queued = i /\ out'[o].frame_callback = f[o].frame_callback
         /\ backend # "drm" => device'[o].queued = d[o].queued /\ out'[o].frame_callback
<1>1. f[o] = [x \in Fields |-> f[o][x]] /\ f = [q \in Output |-> f[q]]
  BY DEF Shaped
<1>2. d[o] \in Devices
  OBVIOUS
<1>3. CASE backend = "drm"
  <2> DEFINE r == [f[o] EXCEPT !.commit_available = FALSE, !.pending_image = i]
             e == [d[o] EXCEPT !.queued = i]
  <2>1. out' = [f EXCEPT ![o] = r] /\ device' = [d EXCEPT ![o] = e]
    BY <1>1, <1>3 DEF commit, IoDrmOutput_commit
  <2>2. /\ r = [x \in Fields |-> r[x]] /\ ~r.commit_available /\ r.size = f[o].size
        /\ r.frame_requested = f[o].frame_requested /\ r.try_redraw = f[o].try_redraw
        /\ r.commit_available \in BOOLEAN /\ r.frame_callback = f[o].frame_callback
    BY <1>1 DEF Fields
  <2>3. e \in Devices /\ e.queued = i /\ e.flipped = d[o].flipped
    BY <1>2 DEF Devices
  <2> HIDE DEF r, e
  <2>4. out'[o] = r /\ device'[o] = e /\ \A q \in Output \ {o} : out'[q] = f[q] /\ device'[q] = d[q]
    BY <1>1, <2>1
  <2>5. out' = [q \in Output |-> out'[q]] /\ device' \in [Output -> Devices]
    BY <1>1, <2>1, <2>3
  <2>6. Shaped(out')
    BY <2>2, <2>4, <2>5 DEF Shaped
  <2> QED
    BY <1>3, <2>2, <2>3, <2>4, <2>5, <2>6
<1>4. CASE backend # "drm"
  <2> DEFINE r == [f[o] EXCEPT !.commit_available = FALSE, !.frame_callback = TRUE,
                               !.release_slots = @ \cup {i}]
             e == [d[o] EXCEPT !.hosted = @ \cup {i}]
  <2>1. out' = [f EXCEPT ![o] = r] /\ device' = [d EXCEPT ![o] = e]
    BY <1>1, <1>4 DEF commit, IoWaylandOutput_commit
  <2>2. /\ r = [x \in Fields |-> r[x]] /\ ~r.commit_available /\ r.size = f[o].size
        /\ r.frame_requested = f[o].frame_requested /\ r.try_redraw = f[o].try_redraw
        /\ r.commit_available \in BOOLEAN /\ r.frame_callback = TRUE
    BY <1>1 DEF Fields
  <2>3. e \in Devices /\ e.queued = d[o].queued /\ e.flipped = d[o].flipped
    BY <1>2 DEF Devices
  <2> HIDE DEF r, e
  <2>4. out'[o] = r /\ device'[o] = e /\ \A q \in Output \ {o} : out'[q] = f[q] /\ device'[q] = d[q]
    BY <1>1, <2>1
  <2>5. out' = [q \in Output |-> out'[q]] /\ device' \in [Output -> Devices]
    BY <1>1, <2>1, <2>3
  <2>6. Shaped(out')
    BY <2>2, <2>4, <2>5 DEF Shaped
  <2> QED
    BY <1>4, <2>2, <2>3, <2>4, <2>5, <2>6
<1> QED
  BY <1>3, <1>4

(* What goes back to the pool, and what comes from it, are its images.     *)
LEMMA PoolsOfImages ==
  /\ \A p, held : Returned(p, held).images \subseteq Image
  /\ \A p, size : p.images \subseteq Image => Acquirable(p, size) \subseteq Image
<1>1. ASSUME NEW p, NEW held PROVE Returned(p, held).images \subseteq Image
  BY DEF Returned
<1>2. ASSUME NEW p, NEW size, p.images \subseteq Image PROVE Acquirable(p, size) \subseteq Image
  BY <1>2 DEF Acquirable
<1> QED
  BY <1>1, <1>2

(* A handler that may redraw o: f and d are what it has changed before.    *)
(* Only o may have a request that nobody but this handler looks at.        *)
LEMMA RedrawKeeps ==
  ASSUME Types, NEW o \in Output, o \in Live,
         NEW f, Shaped(f), NEW d \in [Output -> Devices],
         \A q \in Output \ {o} : f[q].frame_requested =>
           f[q].try_redraw \/ ~f[q].commit_available \/ f[q].size = 0,
         Paced(f, d),
         \A q \in Live : (~shown[q] \/ owed \/ pumps > 0) => f[q].frame_requested,
         io_output_try_redraw(o, f, d), UNCHANGED <<backend, outputs>>
  PROVE  /\ Types' /\ Noticed(out)' /\ Paced(out, device)' /\ StaleIsRequested'
         /\ \A q \in Output \ {o} : out'[q].commit_available = f[q].commit_available
         /\ \A q \in Output : device'[q].queued = d[q].queued \/ d[q].queued = Null
<1>1. Live \subseteq Output /\ Live' = Live
  BY DEF Types, Live, Range
<1>2. CASE f[o].frame_requested /\ f[o].commit_available /\ f[o].size # 0
  <2>1. output_frame(o, f, d)
    BY <1>2 DEF io_output_try_redraw
  <2> DEFINE ended == Returned(pool, Held(f, commands))
             g == [f EXCEPT ![o].frame_requested = FALSE]
  <2>2. PICK damage \in IF pumps > 0 THEN BOOLEAN ELSE {FALSE},
             i \in Acquirable(ended, f[o].size) :
          /\ owed' = FALSE
          /\ pumps' = IF pumps > 0 THEN pumps - 1 ELSE 0
          /\ shown' = [q \in Output |-> q = o \/ (shown[q] /\ ~damage)]
          /\ commit(UiFrame(g, damage), d, o, i)
          /\ pool' = Returned(acquire(ended, i, f[o].size), Held(out', commands'))
    BY <2>1 DEF output_frame, way_surface_on_redraw
  <2> DEFINE drawn == UiFrame(g, damage)
             asked == pumps = 2 \/ damage
  <2>3. i \in Image /\ pool'.images \subseteq Image /\ damage \in BOOLEAN
    <3>1. ended.images \subseteq Image
      BY PoolsOfImages
    <3> HIDE DEF ended
    <3>2. i \in Image
      BY <2>2, <3>1, PoolsOfImages
    <3>3. pool'.images \subseteq Image
      BY <2>2, PoolsOfImages
    <3> QED
      BY <3>2, <3>3
  <2> HIDE DEF ended
  <2>4. Shaped(g) /\ \A q \in Output :
          /\ g[q].size = f[q].size
          /\ g[q].commit_available = f[q].commit_available
          /\ g[q].frame_callback = f[q].frame_callback
          /\ g[q].try_redraw = f[q].try_redraw
          /\ q # o => g[q].frame_requested = f[q].frame_requested
    <3> DEFINE r == [f[o] EXCEPT !.frame_requested = FALSE]
    <3>1. f = [q \in Output |-> f[q]] /\ f[o] = [x \in Fields |-> f[o][x]]
      BY DEF Shaped
    <3>2. /\ r = [x \in Fields |-> r[x]] /\ r.size = f[o].size
          /\ r.commit_available = f[o].commit_available
          /\ r.frame_callback = f[o].frame_callback
          /\ r.try_redraw = f[o].try_redraw
          /\ r.frame_requested = FALSE
      BY <3>1 DEF Fields
    <3>3. g = [f EXCEPT ![o] = r]
      OBVIOUS
    <3> HIDE DEF g, r
    <3>4. g = [q \in Output |-> g[q]] /\ g[o] = r /\ \A q \in Output \ {o} : g[q] = f[q]
      BY <3>1, <3>3
    <3>5. Shaped(g)
      BY <3>2, <3>4 DEF Shaped
    <3> QED
      BY <3>2, <3>4, <3>5
  <2> HIDE DEF g
  <2>5. Shaped(drawn) /\ \A q \in Output :
          /\ drawn[q].size = f[q].size
          /\ drawn[q].commit_available = f[q].commit_available
          /\ drawn[q].frame_callback = f[q].frame_callback
          /\ drawn[q].frame_requested = (g[q].frame_requested \/ (asked /\ q \in Live))
          /\ drawn[q].try_redraw =
               (f[q].try_redraw \/ (asked /\ q \in Live /\ ~g[q].frame_requested))
    <3>1. LET w == wm_request_frame(g, Live)
          IN  /\ Shaped(w)
              /\ \A q \in Output :
                   /\ w[q].size = g[q].size
                   /\ w[q].commit_available = g[q].commit_available
                   /\ w[q].frame_callback = g[q].frame_callback
                   /\ w[q].frame_requested = (g[q].frame_requested \/ q \in Live)
                   /\ w[q].try_redraw = (g[q].try_redraw
                                           \/ (q \in Live /\ ~g[q].frame_requested))
      BY <2>4, RequestAsks
    <3>2. \A q \in Output : g[q].frame_requested \in BOOLEAN /\ f[q].try_redraw \in BOOLEAN
      BY <2>4 DEF Shaped
    <3>3. drawn = IF asked THEN wm_request_frame(g, Live) ELSE g
      BY DEF UiFrame
    <3> HIDE DEF drawn, asked
    <3>4. CASE asked
      BY <2>4, <3>1, <3>3, <3>4
    <3>5. CASE ~asked
      BY <2>4, <3>2, <3>3, <3>5
    <3> QED
      BY <3>4, <3>5
  <2>6. commit(drawn, d, o, i)
    BY <2>2
  <2> HIDE DEF drawn
  <2>7. /\ Shaped(out') /\ device' \in [Output -> Devices]
        /\ \A q \in Output : /\ out'[q].size = drawn[q].size
                            /\ out'[q].frame_requested = drawn[q].frame_requested
                            /\ out'[q].try_redraw = drawn[q].try_redraw
        /\ \A q \in Output \ {o} : out'[q] = drawn[q] /\ device'[q] = d[q]
        /\ ~out'[o].commit_available
        /\ device'[o].flipped = d[o].flipped
        /\ backend = "drm" => /\ device'[o].queued = i
                              /\ out'[o].frame_callback = drawn[o].frame_callback
        /\ backend # "drm" => device'[o].queued = d[o].queued /\ out'[o].frame_callback
    BY <2>3, <2>5, <2>6, CommitTakesRoom
  <2>8. Types'
    <3>1. pumps' \in 0 .. 2 /\ owed' \in BOOLEAN
      <4>1. pumps \in {0, 1, 2}
        BY DEF Types
      <4>2. owed' = FALSE /\ pumps' = IF pumps > 0 THEN pumps - 1 ELSE 0
        BY <2>2
      <4>3. pumps' \in {0, 1}
        BY <4>1, <4>2
      <4>4. owed' \in BOOLEAN
        BY <4>2
      <4> QED
        BY <4>3, <4>4
    <3>2. shown' \in [Output -> BOOLEAN]
      BY <2>2
    <3>3. Shaped(out)'
      BY <2>7 DEF Shaped
    <3> QED
      BY <3>1, <3>2, <3>3, <2>3, <2>7 DEF Types
  <2>9. Noticed(out)'
    <3> SUFFICES ASSUME NEW q \in Output, out'[q].frame_requested
                 PROVE  out'[q].try_redraw \/ ~out'[q].commit_available \/ out'[q].size = 0
      BY DEF Noticed
    <3>1. CASE q = o
      BY <3>1, <2>7
    <3>2. CASE q # o
      <4>1. out'[q] = drawn[q] /\ drawn[q].frame_requested
        BY <3>2, <2>7
      <4>2. g[q].frame_requested = f[q].frame_requested
        BY <3>2, <2>4
      <4>3. CASE f[q].frame_requested
        BY <3>2, <2>5, <4>1, <4>3
      <4>4. CASE ~f[q].frame_requested
        BY <2>5, <4>1, <4>2, <4>4
      <4> QED
        BY <4>3, <4>4
    <3> QED
      BY <3>1, <3>2
  <2>10. Paced(out, device)'
    <3> SUFFICES ASSUME NEW q \in Output
                 PROVE  IF backend = "drm"
                        THEN /\ ~out'[q].commit_available <=>
                                  (device'[q].queued # Null \/ device'[q].flipped)
                             /\ device'[q].queued # Null => ~device'[q].flipped
                             /\ ~out'[q].frame_callback
                        ELSE /\ ~out'[q].commit_available => out'[q].frame_callback
                             /\ device'[q].queued = Null /\ ~device'[q].flipped
      BY DEF Paced
    <3>1. CASE q = o
      BY <3>1, <1>2, <2>3, <2>5, <2>7, NullAssumption DEF Paced
    <3>2. CASE q # o
      BY <3>2, <2>5, <2>7 DEF Paced
    <3> QED
      BY <3>1, <3>2
  <2>11. StaleIsRequested'
    <3> SUFFICES ASSUME NEW q \in Live, ~shown'[q] \/ owed' \/ pumps' > 0
                 PROVE  out'[q].frame_requested
      BY <1>1 DEF StaleIsRequested
    <3>1. q \in Output /\ out'[q].frame_requested = drawn[q].frame_requested
      BY <1>1, <2>7
    <3>2. CASE asked
      BY <2>5, <3>1, <3>2
    <3>3. CASE ~asked
      <4>1. ~damage /\ pumps # 2 /\ pumps \in 0 .. 2
        BY <3>3 DEF Types
      <4>2. ~(pumps' > 0) /\ ~owed'
        BY <2>2, <4>1
      <4>3. q # o /\ ~shown[q]
        BY <2>2, <3>1, <4>1, <4>2
      <4>4. g[q].frame_requested = f[q].frame_requested /\ f[q].frame_requested
        BY <2>4, <3>1, <4>3
      <4> QED
        BY <2>5, <3>1, <4>4
    <3> QED
      BY <3>2, <3>3
  <2>12. \A q \in Output \ {o} : out'[q].commit_available = f[q].commit_available
    BY <2>5, <2>7
  <2>13. \A q \in Output : device'[q].queued = d[q].queued \/ d[q].queued = Null
    BY <1>2, <2>7 DEF Paced
  <2> QED
    BY <2>8, <2>9, <2>10, <2>11, <2>12, <2>13
<1>3. CASE ~(f[o].frame_requested /\ f[o].commit_available /\ f[o].size # 0)
  <2>1. /\ out' = f /\ device' = d /\ owed' = owed /\ pumps' = pumps /\ shown' = shown
        /\ pool' = Returned(pool, Held(f, commands))
    BY <1>3 DEF io_output_try_redraw, NoFrame
  <2>2. f[o].frame_requested \in BOOLEAN /\ f[o].commit_available \in BOOLEAN
    BY DEF Shaped
  <2>3. Types'
    BY <2>1, PoolsOfImages DEF Types, Shaped
  <2>4. Noticed(out)'
    BY <1>3, <2>1, <2>2 DEF Noticed
  <2>5. Paced(out, device)'
    BY <2>1 DEF Paced
  <2>6. StaleIsRequested'
    BY <1>1, <2>1 DEF StaleIsRequested
  <2> QED
    BY <2>1, <2>3, <2>4, <2>5, <2>6
<1> QED
  BY <1>2, <1>3

(* A handler that lays the outputs out: f and device' are what it has      *)
(* changed besides.                                                        *)
LEMMA ReflowKeeps ==
  ASSUME Types, NEW f, Shaped(f), Noticed(f), Paced(f, device'),
         NEW any_changed \in BOOLEAN,
         NEW order \in Seq(Output), Live' = ToSet(order),
         any_changed \/ \A q \in Live' : (~shown[q] \/ owed \/ pumps > 0) => f[q].frame_requested,
         reflow_outputs(f, order, any_changed),
         UNCHANGED <<backend, owed>>
  PROVE  /\ Shaped(out)' /\ pumps' \in 0 .. 2 /\ shown' \in [Output -> BOOLEAN]
         /\ Noticed(out)' /\ Paced(out, device)' /\ StaleIsRequested'
         /\ \A q \in Output : out'[q].commit_available = f[q].commit_available
<1>1. Live' = ToSet(order) /\ Live' \subseteq Output
  BY DEF ToSet
<1>2. /\ Shaped(out') /\ pumps' \in 0 .. 2 /\ shown' \in [Output -> BOOLEAN]
      /\ \E asked \in BOOLEAN :
           /\ any_changed => asked
           /\ \A o \in Output :
                /\ out'[o].size = f[o].size
                /\ out'[o].commit_available = f[o].commit_available
                /\ out'[o].frame_callback = f[o].frame_callback
                /\ out'[o].frame_requested =
                     (f[o].frame_requested \/ (asked /\ o \in ToSet(order)))
                /\ out'[o].try_redraw =
                     (f[o].try_redraw \/ (asked /\ o \in ToSet(order)
                                             /\ ~f[o].frame_requested))
           /\ ~asked => shown' = shown /\ pumps' = pumps
  BY ReflowAsks
<1>3. PICK asked \in BOOLEAN :
        /\ any_changed => asked
        /\ \A o \in Output :
             /\ out'[o].size = f[o].size
             /\ out'[o].commit_available = f[o].commit_available
             /\ out'[o].frame_callback = f[o].frame_callback
             /\ out'[o].frame_requested = (f[o].frame_requested \/ (asked /\ o \in Live'))
             /\ out'[o].try_redraw =
                  (f[o].try_redraw \/ (asked /\ o \in Live' /\ ~f[o].frame_requested))
        /\ ~asked => shown' = shown /\ pumps' = pumps
  BY <1>1, <1>2
<1>4. Shaped(out)'
  BY <1>2 DEF Shaped
<1>5. Noticed(out)'
  <2> SUFFICES ASSUME NEW q \in Output, out'[q].frame_requested
               PROVE  out'[q].try_redraw \/ ~out'[q].commit_available \/ out'[q].size = 0
    BY DEF Noticed
  <2>1. CASE f[q].frame_requested
    BY <1>3, <2>1 DEF Noticed
  <2>2. CASE ~f[q].frame_requested
    BY <1>3, <2>2
  <2> QED
    BY <2>1, <2>2
<1>6. Paced(out, device)'
  BY <1>3 DEF Paced
<1>7. StaleIsRequested'
  <2>1. CASE asked
    BY <1>1, <1>3, <2>1 DEF StaleIsRequested
  <2>2. CASE ~asked
    BY <1>1, <1>3, <2>2 DEF StaleIsRequested
  <2> QED
    BY <2>1, <2>2
<1> QED
  BY <1>2, <1>3, <1>4, <1>5, <1>6, <1>7

(* A change that asks all outputs for a frame and touches no device.       *)
LEMMA AskKeeps ==
  ASSUME IInv, out' = wm_request_frame(out, Live),
         UNCHANGED <<backend, outputs, pool, device>>
  PROVE  /\ Shaped(out)' /\ Noticed(out)' /\ Paced(out, device)' /\ StaleIsRequested'
         /\ \A q \in Output : out'[q].commit_available = out[q].commit_available
<1>1. Live' = Live /\ Live \subseteq Output
  BY DEF IInv, Types, Live, Range
<1>2. /\ Shaped(out')
      /\ \A q \in Output :
           /\ out'[q].size = out[q].size
           /\ out'[q].commit_available = out[q].commit_available
           /\ out'[q].frame_callback = out[q].frame_callback
           /\ out'[q].frame_requested = (out[q].frame_requested \/ q \in Live)
           /\ out'[q].try_redraw = (out[q].try_redraw
                                      \/ (q \in Live /\ ~out[q].frame_requested))
  BY RequestAsks DEF IInv, Types
<1>3. Shaped(out)'
  BY <1>2 DEF Shaped
<1>4. Noticed(out)'
  <2> SUFFICES ASSUME NEW q \in Output, out'[q].frame_requested
               PROVE  out'[q].try_redraw \/ ~out'[q].commit_available \/ out'[q].size = 0
    BY DEF Noticed
  <2>1. CASE out[q].frame_requested
    BY <1>2, <2>1 DEF IInv, Noticed
  <2>2. CASE ~out[q].frame_requested
    BY <1>2, <2>2
  <2> QED
    BY <2>1, <2>2
<1>5. Paced(out, device)'
  BY <1>2 DEF IInv, Paced
<1>6. StaleIsRequested'
  BY <1>1, <1>2 DEF StaleIsRequested
<1> QED
  BY <1>2, <1>3, <1>4, <1>5, <1>6

(* The fields of an output, as far as proofs look at them.                 *)
Row(r) ==
  /\ r = [x \in Fields |-> r[x]]
  /\ r.frame_requested \in BOOLEAN
  /\ r.commit_available \in BOOLEAN
  /\ r.try_redraw \in BOOLEAN

(* The fields of one output are replaced.                                  *)
Put(f, o, r) == [f EXCEPT ![o] = r]

(* Replacing the record of one output.                                     *)
LEMMA PutShaped ==
  ASSUME NEW f, Shaped(f), NEW o \in Output, NEW r, Row(r)
  PROVE  /\ Shaped(Put(f, o, r)) /\ Put(f, o, r)[o] = r
         /\ \A q \in Output \ {o} : Put(f, o, r)[q] = f[q]
<1> DEFINE g == Put(f, o, r)
<1>1. g = [q \in Output |-> g[q]] /\ g[o] = r /\ \A q \in Output \ {o} : g[q] = f[q]
  BY DEF Shaped, Put
<1> HIDE DEF g
<1>2. Shaped(g)
  BY <1>1 DEF Shaped, Row
<1> QED
  BY <1>1, <1>2 DEF g

(* Without one of its outputs, the list is one of outputs.                 *)
LEMMA EraseType ==
  ASSUME NEW order \in Seq(Output), NEW o \in Range(order)
  PROVE  erase(order, o) \in Seq(Output)
<1> DEFINE n == CHOOSE k \in DOMAIN order : order[k] = o
<1>1. n \in 1 .. Len(order)
  BY DEF Range
<1> HIDE DEF n
<1>2. SubSeq(order, 1, n - 1) \in Seq(Output) /\ SubSeq(order, n + 1, Len(order)) \in Seq(Output)
  <2>1. Len(order) \in Nat /\ \A i \in 1 .. Len(order) : order[i] \in Output
    OBVIOUS
  <2>2. n - 1 \in Int /\ \A i \in 1 .. n - 1 : order[i] \in Output
    BY <1>1, <2>1
  <2>3. n + 1 \in Int /\ \A i \in n + 1 .. Len(order) : order[i] \in Output
    BY <1>1, <2>1
  <2> QED
    BY <2>1, <2>2, <2>3, SubSeqProperties
<1> QED
  BY <1>2, ConcatProperties DEF erase, RemoveAt, n

-------------------------------------------------------------------------------
(* No device is given a commit while it has one (NeverBusy of a step).     *)
Unhurried ==
  \A o \in Output :
    (device'[o].queued # Null /\ device'[o].queued # device[o].queued) => device[o].queued = Null

(* The invariant holds initially.                                          *)
LEMMA InitIInv == Init => IInv
<1> SUFFICES ASSUME Init PROVE IInv
  OBVIOUS
<1>1. Fresh(0) = [x \in Fields |-> Fresh(0)[x]]
  BY DEF Fresh, Fields
<1>2. \A o \in Output : out[o] = Fresh(0) /\ device[o] = Blank
  BY DEF Init
<1>3. /\ Fresh(0).frame_requested = FALSE /\ Fresh(0).commit_available = TRUE
      /\ Fresh(0).try_redraw = FALSE /\ Fresh(0).frame_callback = FALSE
      /\ Blank.queued = Null /\ Blank.flipped = FALSE
  BY DEF Fresh, Blank
<1>4. Shaped(out)
  BY <1>1, <1>2, <1>3 DEF Init, Shaped
<1>5. Blank \in Devices
  BY DEF Blank, Devices
<1>6. Types
  <2>1. device \in [Output -> Devices] /\ pool.images \subseteq Image
    BY <1>5 DEF Init
  <2>2. shown \in [Output -> BOOLEAN] /\ owed \in BOOLEAN
    BY DEF Init
  <2>3. backend \in {"drm", "wayland"} /\ outputs \in Seq(Output) /\ pumps \in 0 .. 2
    BY BackendAssumption DEF Init
  <2> QED
    BY <1>4, <2>1, <2>2, <2>3 DEF Types
<1>7. Noticed(out) /\ Paced(out, device)
  BY <1>2, <1>3 DEF Noticed, Paced
<1>8. Live = {}
  BY DEF Init, Live, Range
<1> QED
  BY <1>2, <1>3, <1>6, <1>7, <1>8 DEF IInv, StaleIsRequested

(* The three changes that ask for frames of all outputs.                   *)
LEMMA RequestStep ==
  ASSUME IInv, handle_damage \/ commit_frame_callbacks \/ ui_request_frame
  PROVE  IInv' /\ Unhurried
<1>1. /\ out' = wm_request_frame(out, Live)
      /\ UNCHANGED <<backend, outputs, pool, device>>
      /\ shown' = [o \in Output |-> FALSE] \/ shown' = shown
      /\ owed' = TRUE \/ owed' = owed
      /\ pumps' = 2 \/ pumps' = pumps
  BY DEF handle_damage, commit_frame_callbacks, ui_request_frame
<1>2. /\ Shaped(out)' /\ Noticed(out)' /\ Paced(out, device)' /\ StaleIsRequested'
      /\ \A q \in Output : out'[q].commit_available = out[q].commit_available
  BY <1>1, AskKeeps
<1>3. Types'
  <2>1. shown' \in [Output -> BOOLEAN]
    BY <1>1 DEF IInv, Types
  <2>2. owed' \in BOOLEAN
    BY <1>1 DEF IInv, Types
  <2>3. pumps' \in 0 .. 2
    BY <1>1 DEF IInv, Types
  <2> QED
    BY <1>1, <1>2, <2>1, <2>2, <2>3 DEF IInv, Types
<1>4. backend' = "drm" => \A o \in Output \ Live' : out'[o].commit_available
  BY <1>1, <1>2 DEF IInv, Live
<1>5. Unhurried
  BY <1>1 DEF Unhurried
<1> QED
  BY <1>2, <1>3, <1>4, <1>5 DEF IInv

(* What RedrawKeeps says of a handler, put together.                       *)
LEMMA RedrawStep ==
  ASSUME IInv, NEW o \in Output, o \in Live,
         NEW f, Shaped(f), NEW d \in [Output -> Devices],
         \A q \in Output \ {o} : f[q] = out[q],
         \A q \in Output : d[q].queued = device[q].queued,
         f[o].frame_requested = out[o].frame_requested,
         Paced(f, d),
         io_output_try_redraw(o, f, d), UNCHANGED <<backend, outputs>>
  PROVE  IInv' /\ Unhurried
<1>1. \A q \in Output \ {o} : f[q].frame_requested =>
        f[q].try_redraw \/ ~f[q].commit_available \/ f[q].size = 0
  BY DEF IInv, Noticed
<1>2. \A q \in Live : (~shown[q] \/ owed \/ pumps > 0) => f[q].frame_requested
  <2>1. Live \subseteq Output
    BY DEF IInv, Types, Live, Range
  <2> QED
    BY <2>1 DEF IInv, StaleIsRequested
<1>3. Types
  BY DEF IInv
<1>4. /\ Types' /\ Noticed(out)' /\ Paced(out, device)' /\ StaleIsRequested'
      /\ \A q \in Output \ {o} : out'[q].commit_available = f[q].commit_available
      /\ \A q \in Output : device'[q].queued = d[q].queued \/ d[q].queued = Null
  BY <1>1, <1>2, <1>3, RedrawKeeps
<1>5. backend' = "drm" => \A q \in Output \ Live' : out'[q].commit_available
  BY <1>4 DEF IInv, Live
<1>6. Unhurried
  BY <1>4 DEF Unhurried
<1> QED
  BY <1>4, <1>5, <1>6 DEF IInv

(* A step that neither draws nor asks for a frame.                         *)
LEMMA QuietStep ==
  ASSUME IInv, Shaped(out'), device' \in [Output -> Devices], pool'.images \subseteq Image,
         \A q \in Output :
           /\ out'[q].size = out[q].size
           /\ out'[q].frame_requested = out[q].frame_requested
           /\ out'[q].commit_available = out[q].commit_available
           /\ out[q].try_redraw => out'[q].try_redraw,
         Paced(out', device'), UNCHANGED <<backend, outputs, owed, pumps, shown>>
  PROVE  IInv'
<1>1. Live' = Live /\ Live \subseteq Output
  BY DEF IInv, Types, Live, Range
<1>2. Types'
  <2>1. Shaped(out)'
    BY DEF Shaped
  <2> QED
    BY <2>1 DEF IInv, Types
<1>3. Noticed(out)'
  BY DEF IInv, Noticed
<1>4. Paced(out, device)'
  BY DEF Paced
<1>5. StaleIsRequested'
  BY <1>1 DEF IInv, StaleIsRequested
<1>6. backend' = "drm" => \A o \in Output \ Live' : out'[o].commit_available
  BY <1>1 DEF IInv
<1> QED
  BY <1>2, <1>3, <1>4, <1>5, <1>6 DEF IInv

(* Every step keeps the invariant, and hurries no frame.                   *)
LEMMA NextKeepsIInv == IInv /\ [Next]_vars => IInv' /\ Unhurried
<1> SUFFICES ASSUME IInv, [Next]_vars PROVE IInv' /\ Unhurried
  OBVIOUS
<1>1. Live \subseteq Output /\ Shaped(out) /\ Types
  BY DEF IInv, Types, Live, Range
<1>2. \A o \in Output : /\ out[o] = [x \in Fields |-> out[o][x]]
                       /\ out[o].frame_requested \in BOOLEAN
                       /\ out[o].commit_available \in BOOLEAN
                       /\ out[o].try_redraw \in BOOLEAN
                       /\ device[o] \in Devices
  BY <1>1 DEF Shaped, Types
<1>3. CASE handle_damage \/ commit_frame_callbacks \/ ui_request_frame
  BY <1>3, RequestStep
<1>4. ASSUME NEW o \in Output, try_redraw(o) PROVE IInv' /\ Unhurried
  <2> DEFINE r == [out[o] EXCEPT !.try_redraw = FALSE]
             f == [out EXCEPT ![o].try_redraw = FALSE]
  <2>1. /\ r = [x \in Fields |-> r[x]] /\ r.try_redraw = FALSE
        /\ r.frame_requested = out[o].frame_requested
        /\ r.commit_available = out[o].commit_available
        /\ r.frame_callback = out[o].frame_callback
        /\ Row(r)
    <3>1. /\ out[o] = [x \in Fields |-> out[o][x]]
          /\ out[o].frame_requested \in BOOLEAN /\ out[o].commit_available \in BOOLEAN
      BY <1>2
    <3> QED
      BY <3>1 DEF Fields, Row
  <2>2. f = Put(out, o, r)
    BY DEF Put
  <2> HIDE DEF r, f
  <2>3. Shaped(f) /\ f[o] = r /\ \A q \in Output \ {o} : f[q] = out[q]
    BY <1>1, <2>1, <2>2, PutShaped
  <2>4. Paced(f, device)
    BY <2>1, <2>3 DEF IInv, Paced
  <2>5. /\ o \in Live /\ UNCHANGED <<backend, outputs>>
        /\ io_output_try_redraw(o, f, device)
    BY <1>4 DEF try_redraw, f
  <2>6. device \in [Output -> Devices]
    BY <1>1 DEF Types
  <2> QED
    BY <2>1, <2>3, <2>4, <2>5, <2>6, RedrawStep
<1>5. ASSUME NEW o \in Output, on_page_flip(o) PROVE IInv' /\ Unhurried
  <2> DEFINE r == [out[o] EXCEPT !.current_image = out[o].pending_image, !.commit_available = TRUE]
             e == [device[o] EXCEPT !.flipped = FALSE]
             f == [out EXCEPT ![o].current_image = out[o].pending_image,
                              ![o].commit_available = TRUE]
             d == [device EXCEPT ![o].flipped = FALSE]
  <2>1. device[o].flipped
    BY <1>5 DEF on_page_flip
  <2>2. backend = "drm" /\ ~out[o].commit_available /\ device[o].queued = Null /\ o \in Live
    BY <2>1 DEF IInv, Paced
  <2>3. /\ r = [x \in Fields |-> r[x]] /\ r.commit_available = TRUE
        /\ r.frame_requested = out[o].frame_requested
        /\ r.try_redraw = out[o].try_redraw
        /\ r.frame_callback = out[o].frame_callback
        /\ Row(r)
    <3>1. /\ out[o] = [x \in Fields |-> out[o][x]]
          /\ out[o].frame_requested \in BOOLEAN /\ out[o].try_redraw \in BOOLEAN
      BY <1>2
    <3> QED
      BY <3>1 DEF Fields, Row
  <2>4. e \in Devices /\ e.flipped = FALSE /\ e.queued = device[o].queued
    BY <1>2 DEF Devices
  <2>5. f = Put(out, o, r) /\ d = [device EXCEPT ![o] = e]
    BY <1>1 DEF Shaped, Put
  <2>6. io_output_try_redraw(o, f, d) /\ UNCHANGED <<backend, outputs>>
    BY <1>5 DEF on_page_flip
  <2> HIDE DEF r, e, f, d
  <2>7. Shaped(f) /\ f[o] = r /\ \A q \in Output \ {o} : f[q] = out[q]
    BY <1>1, <2>3, <2>5, PutShaped
  <2>8. d \in [Output -> Devices] /\ d[o] = e /\ \A q \in Output \ {o} : d[q] = device[q]
    BY <1>1, <2>4, <2>5 DEF Types
  <2>9. Paced(f, d)
    BY <2>2, <2>3, <2>4, <2>7, <2>8 DEF IInv, Paced
  <2> QED
    BY <2>2, <2>3, <2>4, <2>6, <2>7, <2>8, <2>9, RedrawStep
<1>6. ASSUME NEW o \in Output, on_present_frame(o) PROVE IInv' /\ Unhurried
  <2> DEFINE r == [out[o] EXCEPT !.frame_callback = FALSE, !.commit_available = TRUE]
             f == [out EXCEPT ![o].frame_callback = FALSE, ![o].commit_available = TRUE]
  <2>1. /\ o \in Live /\ out[o].frame_callback /\ io_output_try_redraw(o, f, device)
        /\ UNCHANGED <<backend, outputs>>
    BY <1>6 DEF on_present_frame
  <2>2. backend # "drm"
    BY <2>1 DEF IInv, Paced
  <2>3. /\ r.frame_requested = out[o].frame_requested /\ r.commit_available = TRUE
        /\ Row(r)
    <3>1. /\ out[o] = [x \in Fields |-> out[o][x]]
          /\ out[o].frame_requested \in BOOLEAN /\ out[o].try_redraw \in BOOLEAN
      BY <1>2
    <3> QED
      BY <3>1 DEF Fields, Row
  <2>4. f = Put(out, o, r)
    BY <1>1 DEF Shaped, Put
  <2> HIDE DEF r, f
  <2>5. Shaped(f) /\ f[o] = r /\ \A q \in Output \ {o} : f[q] = out[q]
    BY <1>1, <2>3, <2>4, PutShaped
  <2>6. Paced(f, device)
    BY <2>2, <2>3, <2>5 DEF IInv, Paced
  <2>7. device \in [Output -> Devices]
    BY <1>1 DEF Types
  <2> QED
    BY <2>1, <2>3, <2>5, <2>6, <2>7, RedrawStep
<1>7. ASSUME NEW o \in Output, NEW i \in Image, release_image(o, i) PROVE IInv' /\ Unhurried
  <2> DEFINE r == [out[o] EXCEPT !.release_slots = @ \ {i}]
             e == [device[o] EXCEPT !.released = @ \ {i}]
  <2>1. /\ out' = Put(out, o, r) /\ device' = [device EXCEPT ![o] = e]
        /\ pool' = Returned(pool, Held(out', commands))
        /\ UNCHANGED <<backend, outputs, owed, pumps, shown>>
    BY <1>1, <1>7 DEF release_image, Shaped, Put, Types
  <2>2. /\ r.size = out[o].size
        /\ r.frame_requested = out[o].frame_requested
        /\ r.commit_available = out[o].commit_available
        /\ r.frame_callback = out[o].frame_callback
        /\ r.try_redraw = out[o].try_redraw
        /\ Row(r)
    <3>1. /\ out[o] = [x \in Fields |-> out[o][x]]
          /\ out[o].frame_requested \in BOOLEAN /\ out[o].try_redraw \in BOOLEAN
          /\ out[o].commit_available \in BOOLEAN
      BY <1>2
    <3> QED
      BY <3>1 DEF Fields, Row
  <2>3. e \in Devices /\ e.queued = device[o].queued /\ e.flipped = device[o].flipped
    BY <1>2 DEF Devices
  <2> HIDE DEF r, e
  <2>4. Shaped(out') /\ out'[o] = r /\ \A q \in Output \ {o} : out'[q] = out[q]
    BY <1>1, <2>1, <2>2, PutShaped
  <2>5. /\ device' \in [Output -> Devices] /\ device'[o] = e
        /\ \A q \in Output \ {o} : device'[q] = device[q]
    BY <1>1, <2>1, <2>3 DEF Types
  <2>6. Paced(out', device')
    BY <2>2, <2>3, <2>4, <2>5 DEF IInv, Paced
  <2>7. pool'.images \subseteq Image
    BY <2>1, PoolsOfImages
  <2>8. Unhurried
    BY <2>3, <2>5 DEF Unhurried
  <2> QED
    BY <2>1, <2>2, <2>4, <2>5, <2>6, <2>7, <2>8, QuietStep
<1>8. ASSUME NEW o \in Output, NEW size \in Size, configure(o, size) PROVE IInv' /\ Unhurried
  <2> DEFINE r == [out[o] EXCEPT !.size = size, !.try_redraw = TRUE]
             f == [out EXCEPT ![o].size = size, ![o].try_redraw = TRUE]
  <2>1. /\ UNCHANGED <<backend, outputs, pool, device, owed>>
        /\ IF size = out[o].size THEN out' = f /\ UNCHANGED <<pumps, shown>>
           ELSE reflow_outputs(f, outputs, FALSE)
    BY <1>8 DEF configure
  <2>2. /\ r.size = size
        /\ r.frame_requested = out[o].frame_requested
        /\ r.commit_available = out[o].commit_available
        /\ r.frame_callback = out[o].frame_callback
        /\ r.try_redraw = TRUE
        /\ Row(r)
    <3>1. /\ out[o] = [x \in Fields |-> out[o][x]]
          /\ out[o].frame_requested \in BOOLEAN /\ out[o].commit_available \in BOOLEAN
      BY <1>2
    <3> QED
      BY <3>1 DEF Fields, Row
  <2>3. f = Put(out, o, r)
    BY <1>1 DEF Shaped, Put
  <2> HIDE DEF r, f
  <2>4. Shaped(f) /\ f[o] = r /\ \A q \in Output \ {o} : f[q] = out[q]
    BY <1>1, <2>2, <2>3, PutShaped
  <2>5. Paced(f, device')
    BY <2>1, <2>2, <2>4 DEF IInv, Paced
  <2>6. Unhurried
    BY <2>1 DEF Unhurried
  <2>7. device' \in [Output -> Devices] /\ pool'.images \subseteq Image
    BY <1>1, <2>1 DEF Types
  <2>8. CASE size = out[o].size
    BY <2>1, <2>2, <2>4, <2>5, <2>6, <2>7, <2>8, QuietStep
  <2>9. CASE size # out[o].size
    <3>1. Noticed(f)
      BY <2>2, <2>4 DEF IInv, Noticed
    <3>2. Live' = Live /\ Live' = ToSet(outputs) /\ outputs \in Seq(Output)
      BY <1>1, <2>1 DEF Live, Range, ToSet, Types
    <3>3. \A q \in Live' : (~shown[q] \/ owed \/ pumps > 0) => f[q].frame_requested
      BY <1>1, <2>2, <2>4, <3>2 DEF IInv, StaleIsRequested
    <3>4. /\ Shaped(out)' /\ pumps' \in 0 .. 2 /\ shown' \in [Output -> BOOLEAN]
          /\ Noticed(out)' /\ Paced(out, device)' /\ StaleIsRequested'
          /\ \A q \in Output : out'[q].commit_available = f[q].commit_available
      BY <1>1, <2>1, <2>4, <2>5, <2>9, <3>1, <3>2, <3>3, ReflowKeeps
    <3>5. Types'
      BY <1>1, <2>1, <2>7, <3>4 DEF Types
    <3>6. backend' = "drm" => \A q \in Output \ Live' : out'[q].commit_available
      BY <2>1, <2>2, <2>4, <3>2, <3>4 DEF IInv
    <3> QED
      BY <2>6, <3>4, <3>5, <3>6 DEF IInv
  <2> QED
    BY <2>8, <2>9
<1>9. ASSUME NEW o \in Output, NEW size \in Size \cup {0}, io_output_add(o, size)
      PROVE  IInv' /\ Unhurried
  <2> DEFINE f == Put(out, o, Fresh(size))
  <2>1. /\ o \notin Live /\ outputs' = Append(outputs, o)
        /\ reflow_outputs(f, outputs', TRUE)
        /\ UNCHANGED <<backend, pool, device, owed>>
    BY <1>9 DEF io_output_add, Put
  <2>2. /\ Row(Fresh(size)) /\ Fresh(size).frame_requested = FALSE
        /\ Fresh(size).commit_available = TRUE /\ Fresh(size).frame_callback = FALSE
    BY DEF Row, Fresh, Fields
  <2> HIDE DEF f
  <2>3. Shaped(f) /\ f[o] = Fresh(size) /\ \A q \in Output \ {o} : f[q] = out[q]
    BY <1>1, <2>2, PutShaped DEF f
  <2>4. Paced(f, device')
    BY <2>1, <2>2, <2>3 DEF IInv, Paced
  <2>5. Noticed(f)
    BY <2>2, <2>3 DEF IInv, Noticed
  <2>6. outputs' \in Seq(Output) /\ Live' = ToSet(outputs')
    BY <1>1, <2>1 DEF Types, Live, Range, ToSet
  <2>7. Live \subseteq Live'
    <3>1. \A k \in DOMAIN outputs : k \in DOMAIN outputs' /\ outputs'[k] = outputs[k]
      BY <1>1, <2>1 DEF Types
    <3> QED
      BY <3>1 DEF Live, Range
  <2>8. /\ Shaped(out)' /\ pumps' \in 0 .. 2 /\ shown' \in [Output -> BOOLEAN]
        /\ Noticed(out)' /\ Paced(out, device)' /\ StaleIsRequested'
        /\ \A q \in Output : out'[q].commit_available = f[q].commit_available
    BY <1>1, <2>1, <2>3, <2>4, <2>5, <2>6, ReflowKeeps
  <2>9. Types'
    BY <1>1, <2>1, <2>6, <2>8 DEF Types
  <2>10. backend' = "drm" => \A q \in Output \ Live' : out'[q].commit_available
    BY <2>1, <2>2, <2>3, <2>7, <2>8 DEF IInv
  <2>11. Unhurried
    BY <2>1 DEF Unhurried
  <2> QED
    BY <2>8, <2>9, <2>10, <2>11 DEF IInv
<1>10. ASSUME NEW o \in Output, toplevel_close(o) PROVE IInv' /\ Unhurried
  <2> DEFINE f == Put(out, o, Fresh(0))
  <2>1. /\ backend = "wayland" /\ o \in Live /\ outputs' = erase(outputs, o)
        /\ reflow_outputs(f, outputs', TRUE)
        /\ device' = [device EXCEPT ![o] = Blank]
        /\ pool' = Returned(pool, Held(out', commands))
        /\ UNCHANGED <<backend, owed>>
    BY <1>10 DEF toplevel_close, Put
  <2>2. /\ Row(Fresh(0)) /\ Fresh(0).frame_requested = FALSE
        /\ Fresh(0).commit_available = TRUE
        /\ Blank \in Devices /\ Blank.queued = Null /\ Blank.flipped = FALSE
    BY DEF Row, Fresh, Fields, Blank, Devices
  <2> HIDE DEF f
  <2>3. Shaped(f) /\ f[o] = Fresh(0) /\ \A q \in Output \ {o} : f[q] = out[q]
    BY <1>1, <2>2, PutShaped DEF f
  <2>4. /\ device' \in [Output -> Devices] /\ device'[o] = Blank
        /\ \A q \in Output \ {o} : device'[q] = device[q]
    BY <1>1, <2>1, <2>2 DEF Types
  <2>5. Paced(f, device')
    BY <2>1, <2>2, <2>3, <2>4 DEF IInv, Paced
  <2>6. Noticed(f)
    BY <2>2, <2>3 DEF IInv, Noticed
  <2>7. outputs' \in Seq(Output) /\ Live' = ToSet(outputs')
    BY <1>1, <2>1, EraseType DEF Types, Live, Range, ToSet
  <2>8. /\ Shaped(out)' /\ pumps' \in 0 .. 2 /\ shown' \in [Output -> BOOLEAN]
        /\ Noticed(out)' /\ Paced(out, device)' /\ StaleIsRequested'
    BY <1>1, <2>1, <2>3, <2>5, <2>6, <2>7, ReflowKeeps
  <2>9. Types'
    BY <1>1, <2>1, <2>4, <2>7, <2>8, PoolsOfImages DEF Types
  <2>10. Unhurried
    BY <2>2, <2>4 DEF Unhurried
  <2> QED
    BY <2>1, <2>8, <2>9, <2>10 DEF IInv
<1>11. ASSUME NEW o \in Output, Flip(o) PROVE IInv' /\ Unhurried
  <2> DEFINE e == [device[o] EXCEPT !.scanout = device[o].queued, !.queued = Null,
                                    !.flipped = TRUE]
  <2>1. /\ device[o].queued # Null /\ device' = [device EXCEPT ![o] = e]
        /\ UNCHANGED <<backend, outputs, out, pool, owed, pumps, shown>>
    BY <1>1, <1>11 DEF Flip, Types
  <2>2. e \in Devices /\ e.queued = Null /\ e.flipped = TRUE
    BY <1>2 DEF Devices
  <2> HIDE DEF e
  <2>3. /\ device' \in [Output -> Devices] /\ device'[o] = e
        /\ \A q \in Output \ {o} : device'[q] = device[q]
    BY <1>1, <2>1, <2>2 DEF Types
  <2>4. Paced(out', device')
    BY <2>1, <2>2, <2>3 DEF IInv, Paced
  <2>5. Unhurried
    BY <2>2, <2>3 DEF Unhurried
  <2>6. Shaped(out') /\ pool'.images \subseteq Image
    BY <1>1, <2>1 DEF Types
  <2> QED
    BY <2>1, <2>3, <2>4, <2>5, <2>6, QuietStep
<1>12. ASSUME NEW o \in Output, NEW i \in Image, HostRelease(o, i) PROVE IInv' /\ Unhurried
  <2> DEFINE e == [device[o] EXCEPT !.hosted = @ \ {i}, !.released = @ \cup {i}]
  <2>1. /\ device' = [device EXCEPT ![o] = e]
        /\ UNCHANGED <<backend, outputs, out, pool, owed, pumps, shown>>
    BY <1>1, <1>12 DEF HostRelease, Types
  <2>2. e \in Devices /\ e.queued = device[o].queued /\ e.flipped = device[o].flipped
    BY <1>2 DEF Devices
  <2> HIDE DEF e
  <2>3. /\ device' \in [Output -> Devices] /\ device'[o] = e
        /\ \A q \in Output \ {o} : device'[q] = device[q]
    BY <1>1, <2>1, <2>2 DEF Types
  <2>4. Paced(out', device')
    BY <2>1, <2>2, <2>3 DEF IInv, Paced
  <2>5. Unhurried
    BY <2>2, <2>3 DEF Unhurried
  <2>6. Shaped(out') /\ pool'.images \subseteq Image
    BY <1>1, <2>1 DEF Types
  <2> QED
    BY <2>1, <2>3, <2>4, <2>5, <2>6, QuietStep
<1>13. ASSUME NEW i \in Image, GpuFinish(i) \/ commands_done(i) PROVE IInv' /\ Unhurried
  <2>1. /\ UNCHANGED <<backend, outputs, out, device, owed, pumps, shown>>
        /\ pool' = pool \/ pool' = Returned(pool, Held(out, commands'))
    BY <1>13 DEF GpuFinish, commands_done
  <2>2. Shaped(out') /\ device' \in [Output -> Devices] /\ Paced(out', device')
    BY <1>1, <2>1 DEF IInv, Types
  <2>3. pool'.images \subseteq Image
    BY <1>1, <2>1, PoolsOfImages DEF Types
  <2>4. Unhurried
    BY <2>1 DEF Unhurried
  <2> QED
    BY <2>1, <2>2, <2>3, <2>4, QuietStep
<1>14. CASE UNCHANGED vars
  <2>1. UNCHANGED <<backend, outputs, out, pool, device, owed, pumps, shown>>
    BY <1>14 DEF vars
  <2>2. Shaped(out') /\ device' \in [Output -> Devices] /\ pool'.images \subseteq Image
    BY <1>1, <2>1 DEF Types
  <2>3. Unhurried /\ Paced(out', device')
    BY <2>1 DEF IInv, Unhurried
  <2> QED
    BY <2>1, <2>2, <2>3, QuietStep
<1> QED
  BY <1>3, <1>4, <1>5, <1>6, <1>7, <1>8, <1>9, <1>10, <1>11, <1>12, <1>13, <1>14
  DEF Next, add_output, create_output

(* The strengthened invariant holds whatever is configured, added, closed, *)
(* drawn and shown, in any order.                                          *)
THEOREM Invariance == Spec => []IInv
<1> QED
  BY InitIInv, NextKeepsIInv, PTL DEF Spec, SafeSpec

(* An output that is not up to date was asked for a frame, and something   *)
(* that will come looks at every request (io/output.cpp, wm/io.cpp), for   *)
(* any number of outputs and images.                                       *)
THEOREM RequestsAreKept == Spec => [](StaleIsRequested /\ RequestNotForgotten)
<1>1. IInv => StaleIsRequested /\ RequestNotForgotten
  <2> SUFFICES ASSUME IInv PROVE RequestNotForgotten
    BY DEF IInv
  <2>1. Live \subseteq Output
    BY DEF IInv, Types, Live, Range
  <2> QED
    BY <2>1 DEF IInv, Noticed, Paced, RequestNotForgotten
<1> QED
  BY Invariance, <1>1, PTL

(* The kernel never has two commits of an output at once, on any schedule  *)
(* of flips, requests and idle moments (io/drm/output.cpp).                *)
THEOREM KernelIsNeverBusy == Spec => NeverBusy
<1>1. IInv /\ [Next]_vars => Unhurried
  BY NextKeepsIInv
<1>2. Unhurried => [\A o \in Output :
                     (device'[o].queued # Null /\ device'[o].queued # device[o].queued)
                       => device[o].queued = Null]_vars
  BY DEF Unhurried
<1> QED
  BY Invariance, <1>1, <1>2, PTL DEF Spec, SafeSpec, NeverBusy

-------------------------------------------------------------------------------
(* Where the outputs stand.                                                *)

(* Any set of numbers has a least one.                                     *)
LEMMA LeastNumber ==
  ASSUME NEW S, S \subseteq Nat, S # {}
  PROVE  \E m \in S : \A k \in S : m <= k
<1> DEFINE R == {p \in Nat \X Nat : p[1] < p[2]}
<1>1. IsWellFoundedOn(R, Nat)
  <2>1. R = OpToRel(<, Nat)
    BY DEF OpToRel
  <2> QED
    BY <2>1, NatLessThanWellFounded
<1>2. \A a, b \in Nat : a < b => <<a, b>> \in R
  OBVIOUS
<1> HIDE DEF R
<1>3. PICK m \in S : \A k \in S : ~ (<<k, m>> \in R)
  BY <1>1, WFMin
<1>4. ASSUME NEW k \in S PROVE m <= k
  <2>1. k \in Nat /\ m \in Nat
    OBVIOUS
  <2>2. ~ (k < m)
    BY <1>2, <1>3, <2>1
  <2> QED
    BY <2>1, <2>2
<1> QED
  BY <1>4

(* The running position of the loop in reflow_outputs.                     *)
Positions(at, s, n) ==
  /\ at \in [1 .. n -> Int]
  /\ at = [k \in 1 .. n |-> IF k = 1 THEN 0 ELSE at[k - 1] - s[k]]

(* Outputs can be placed in a row, by induction.                           *)
LEMMA PositionsExist ==
  ASSUME NEW n \in Nat, NEW s \in [1 .. n -> Int]
  PROVE  \E at : Positions(at, s, n)
<1> DEFINE Bad == {m \in 0 .. n : ~ \E at : Positions(at, s, m)}
<1>0. n \in 0 .. n /\ Bad \subseteq Nat
  OBVIOUS
<1>1. SUFFICES ASSUME Bad # {} PROVE FALSE
  BY <1>0, Zenon
<1>2. PICK m \in Bad : \A k \in Bad : m <= k
  <2> HIDE DEF Bad
  <2> QED
    BY <1>0, <1>1, LeastNumber
<1>3. m \in 0 .. n /\ ~ \E at : Positions(at, s, m)
  BY Zenon
<1>4. m # 0
  <2>1. Positions(<<>>, s, 0)
    BY DEF Positions
  <2> QED
    BY <1>3, <2>1
<1>5. m - 1 \notin Bad /\ m - 1 \in 0 .. n
  BY <1>2, <1>3, <1>4
<1> HIDE <1>2
<1>6. PICK at : Positions(at, s, m - 1)
  BY <1>5
<1> DEFINE last == IF m = 1 THEN 0 ELSE at[m - 1] - s[m]
           more == [k \in 1 .. m |-> IF k = m THEN last ELSE at[k]]
<1>7. at \in [1 .. m - 1 -> Int] /\ \A k \in 1 .. m - 1 : at[k] = IF k = 1 THEN 0 ELSE at[k - 1] - s[k]
  BY <1>6 DEF Positions
<1>8. last \in Int
  BY <1>3, <1>4, <1>7
<1>9. Positions(more, s, m)
  <2>1. more \in [1 .. m -> Int]
    BY <1>3, <1>7, <1>8
  <2>2. ASSUME NEW k \in 1 .. m PROVE more[k] = IF k = 1 THEN 0 ELSE more[k - 1] - s[k]
    <3>1. CASE k = m
      BY <1>3, <1>4, <3>1
    <3>2. CASE k # m
      <4>1. k \in 1 .. m - 1 /\ (k # 1 => k - 1 \in 1 .. m /\ k - 1 # m)
        BY <1>3, <3>2
      <4> QED
        BY <1>7, <4>1
    <3> QED
      BY <3>1, <3>2
  <2> HIDE DEF more
  <2>3. more = [k \in 1 .. m |-> more[k]]
    BY <2>1
  <2>4. more = [k \in 1 .. m |-> IF k = 1 THEN 0 ELSE more[k - 1] - s[k]]
    BY <2>2, <2>3
  <2> QED
    BY <2>1, <2>4 DEF Positions
<1> QED
  BY <1>3, <1>9

(* They are integers, whichever function the definition picks.             *)
LEMMA PositionsAreIntegers ==
  ASSUME NEW n \in Nat, NEW s \in [1 .. n -> Int], NEW at,
         \A k \in 1 .. n : at[k] = IF k = 1 THEN 0 ELSE at[k - 1] - s[k]
  PROVE  \A k \in 1 .. n : at[k] \in Int
<1> DEFINE Bad == {k \in 1 .. n : at[k] \notin Int}
<1>1. Bad \subseteq Nat
  OBVIOUS
<1>2. SUFFICES ASSUME Bad # {} PROVE FALSE
  OBVIOUS
<1>3. PICK m \in Bad : \A k \in Bad : m <= k
  <2> HIDE DEF Bad
  <2> QED
    BY <1>1, <1>2, LeastNumber
<1>4. m \in 1 .. n /\ at[m] \notin Int
  OBVIOUS
<1>5. m # 1
  BY <1>4
<1>6. m - 1 \in 1 .. n /\ ~ (m <= m - 1)
  BY <1>4, <1>5
<1>7. at[m - 1] \in Int
  BY <1>3, <1>6
<1> QED
  BY <1>4, <1>5, <1>7

-------------------------------------------------------------------------------
(* Images and their leases.                                                *)

Injective(order) ==
  \A j, k \in DOMAIN order : order[j] = order[k] => j = k

(* Typed outputs are shaped.                                               *)
LEMMA OutputsAreShaped ==
  ASSUME NEW f \in [Output -> Outputs]
  PROVE  Shaped(f)
<1>1. ASSUME NEW o \in Output
      PROVE  /\ f[o] = [x \in Fields |-> f[o][x]]
             /\ f[o].frame_requested \in BOOLEAN
             /\ f[o].commit_available \in BOOLEAN
             /\ f[o].try_redraw \in BOOLEAN
  <2>1. f[o] \in Outputs
    OBVIOUS
  <2> QED
    BY <2>1 DEF Outputs, Fields
<1> QED
  BY <1>1 DEF Shaped

(* wm_request_frame leaves the pools and leases alone.                     *)
LEMMA RequestKeepsLeases ==
  ASSUME NEW f \in [Output -> Outputs], NEW live
  PROVE  LET g == wm_request_frame(f, live)
         IN  /\ g \in [Output -> Outputs]
             /\ \A o \in Output : /\ g[o].size = f[o].size
                                  /\ g[o].viewport = f[o].viewport
                                  /\ g[o].current_image = f[o].current_image
                                  /\ g[o].pending_image = f[o].pending_image
                                  /\ g[o].release_slots = f[o].release_slots
<1> DEFINE g == wm_request_frame(f, live)
<1>1. g = [o \in Output |-> g[o]]
  BY DEF wm_request_frame
<1>2. ASSUME NEW o \in Output
      PROVE  /\ g[o] \in Outputs /\ g[o].size = f[o].size
             /\ g[o].viewport = f[o].viewport
             /\ g[o].current_image = f[o].current_image
             /\ g[o].pending_image = f[o].pending_image
             /\ g[o].release_slots = f[o].release_slots
  <2>1. f[o] \in Outputs
    OBVIOUS
  <2>2. (f[o].try_redraw \/ ~f[o].frame_requested) \in BOOLEAN
    OBVIOUS
  <2>3. CASE o \in live
    <3>1. g[o] = [f[o] EXCEPT !.frame_requested = TRUE,
                              !.try_redraw = f[o].try_redraw \/ ~f[o].frame_requested]
      BY <2>3 DEF wm_request_frame
    <3> HIDE DEF g
    <3> QED
      BY <2>1, <2>2, <3>1 DEF Outputs
  <2>4. CASE o \notin live
    <3>1. g[o] = f[o]
      BY <2>4 DEF wm_request_frame
    <3> QED
      BY <2>1, <3>1
  <2> QED
    BY <2>3, <2>4
<1> HIDE DEF g
<1>3. g \in [Output -> Outputs]
  BY <1>1, <1>2
<1> QED
  BY <1>2, <1>3 DEF g

(* Where the outputs of an order stand.                                    *)
Placed(f, order) ==
  \A k \in DOMAIN order :
    /\ f[order[k]].viewport.extent = f[order[k]].size
    /\ IF k = 1 THEN f[order[k]].viewport.x = 0
       ELSE f[order[k]].viewport.x + f[order[k]].viewport.extent
              = f[order[k - 1]].viewport.x

(* The viewports of outputs in order are typed, and touch.                 *)
LEMMA ViewportsInARow ==
  ASSUME NEW f \in [Output -> Outputs], NEW order \in Seq(Output), Injective(order)
  PROVE  /\ \A o \in ToSet(order) :
              /\ Viewport(f, order, o) \in [x : Int, extent : Size \cup {0}]
              /\ Viewport(f, order, o).extent = f[o].size
         /\ \A k \in 2 .. Len(order) :
              Viewport(f, order, order[k]).x
                = Viewport(f, order, order[k - 1]).x - f[order[k]].size
         /\ order # <<>> => Viewport(f, order, order[1]).x = 0
<1> DEFINE n == Len(order)
           s == [k \in 1 .. n |-> f[order[k]].size]
           at == CHOOSE a : a = [k \in 1 .. n |->
                                   IF k = 1 THEN 0 ELSE a[k - 1] - f[order[k]].size]
<1>1. n \in Nat /\ DOMAIN order = 1 .. n /\ \A k \in 1 .. n : order[k] \in Output
  OBVIOUS
<1>2. \A o \in Output : f[o].size \in Size \cup {0} /\ f[o].size \in Int
  <2>1. ASSUME NEW o \in Output PROVE f[o].size \in Size \cup {0}
    <3>1. f[o] \in Outputs
      OBVIOUS
    <3> QED
      BY <3>1 DEF Outputs
  <2>2. Size \cup {0} \subseteq Int
    BY SizeAssumption
  <2> QED
    BY <2>1, <2>2
<1>3. s \in [1 .. n -> Int]
  BY <1>1, <1>2
<1>4. \E a : a \in [1 .. n -> Int]
             /\ a = [k \in 1 .. n |-> IF k = 1 THEN 0 ELSE a[k - 1] - f[order[k]].size]
  <2>1. PICK a : Positions(a, s, n)
    BY <1>1, <1>3, PositionsExist
  <2>2. \A k \in 1 .. n : s[k] = f[order[k]].size
    OBVIOUS
  <2> HIDE DEF s
  <2>3. a = [k \in 1 .. n |-> IF k = 1 THEN 0 ELSE a[k - 1] - f[order[k]].size]
    BY <2>1, <2>2 DEF Positions
  <2> QED
    BY <2>1, <2>3 DEF Positions
<1>5. at = [k \in 1 .. n |-> IF k = 1 THEN 0 ELSE at[k - 1] - f[order[k]].size]
  BY <1>4
<1>6. ASSUME NEW o
      PROVE  Viewport(f, order, o)
               = [x |-> at[CHOOSE k \in DOMAIN order : order[k] = o], extent |-> f[o].size]
  BY <1>1 DEF Viewport
<1> HIDE DEF at, s
<1>7. ASSUME NEW k \in 1 .. n PROVE (CHOOSE j \in DOMAIN order : order[j] = order[k]) = k
  BY <1>1 DEF Injective
<1>8. ASSUME NEW k \in 1 .. n
      PROVE  Viewport(f, order, order[k]) = [x |-> at[k], extent |-> f[order[k]].size]
  BY <1>6, <1>7, Zenon
<1>9. \A k \in 1 .. n : at[k] = IF k = 1 THEN 0 ELSE at[k - 1] - f[order[k]].size
  BY <1>5
<1>10. \A k \in 1 .. n : at[k] \in Int
  <2>1. \A k \in 1 .. n : s[k] = f[order[k]].size
    BY DEF s
  <2>2. \A k \in 1 .. n : at[k] = IF k = 1 THEN 0 ELSE at[k - 1] - s[k]
    BY <1>9, <2>1
  <2> QED
    BY <1>1, <1>3, <2>2, PositionsAreIntegers
<1>11. \A o \in ToSet(order) :
         /\ Viewport(f, order, o) \in [x : Int, extent : Size \cup {0}]
         /\ Viewport(f, order, o).extent = f[o].size
  <2> SUFFICES ASSUME NEW k \in 1 .. n
               PROVE  /\ Viewport(f, order, order[k]) \in [x : Int, extent : Size \cup {0}]
                      /\ Viewport(f, order, order[k]).extent = f[order[k]].size
    BY <1>1 DEF ToSet
  <2>1. Viewport(f, order, order[k]) = [x |-> at[k], extent |-> f[order[k]].size]
    BY <1>8
  <2>2. at[k] \in Int /\ f[order[k]].size \in Size \cup {0}
    BY <1>1, <1>2, <1>10
  <2> QED
    BY <2>1, <2>2
<1>12. ASSUME NEW k \in 1 .. n PROVE Viewport(f, order, order[k]).x = at[k]
  <2>1. Viewport(f, order, order[k]) = [x |-> at[k], extent |-> f[order[k]].size]
    BY <1>8
  <2> QED
    BY <2>1
<1>13. ASSUME NEW k \in 2 .. n
       PROVE  Viewport(f, order, order[k]).x
                = Viewport(f, order, order[k - 1]).x - f[order[k]].size
  <2>1. k \in 1 .. n /\ k - 1 \in 1 .. n /\ k # 1
    BY <1>1
  <2> QED
    BY <1>9, <1>12, <2>1
<1>14. order # <<>> => Viewport(f, order, order[1]).x = 0
  BY <1>1, <1>9, <1>12
<1> QED
  BY <1>11, <1>13, <1>14

(* Laying the outputs out gives each its place and touches no lease.       *)
LEMMA ReflowPlaces ==
  ASSUME NEW f \in [Output -> Outputs], NEW order \in Seq(Output), Injective(order),
         NEW any_changed \in BOOLEAN, reflow_outputs(f, order, any_changed)
  PROVE  /\ out' \in [Output -> Outputs]
         /\ \A o \in Output : /\ out'[o].size = f[o].size
                              /\ out'[o].current_image = f[o].current_image
                              /\ out'[o].pending_image = f[o].pending_image
                              /\ out'[o].release_slots = f[o].release_slots
         /\ Placed(out', order)
<1> DEFINE live == ToSet(order)
           laid == [o \in Output |-> IF o \in live
                      THEN [f[o] EXCEPT !.viewport = Viewport(f, order, o)] ELSE f[o]]
<1>1. /\ \A o \in live : /\ Viewport(f, order, o) \in [x : Int, extent : Size \cup {0}]
                         /\ Viewport(f, order, o).extent = f[o].size
      /\ \A k \in 2 .. Len(order) :
           Viewport(f, order, order[k]).x
             = Viewport(f, order, order[k - 1]).x - f[order[k]].size
      /\ order # <<>> => Viewport(f, order, order[1]).x = 0
  BY ViewportsInARow
<1>2. live \subseteq Output /\ \A k \in 1 .. Len(order) : order[k] \in live
  BY DEF ToSet
<1>3. ASSUME NEW o \in Output
      PROVE  /\ laid[o] \in Outputs /\ laid[o].size = f[o].size
             /\ laid[o].current_image = f[o].current_image
             /\ laid[o].pending_image = f[o].pending_image
             /\ laid[o].release_slots = f[o].release_slots
             /\ o \in live => laid[o].viewport = Viewport(f, order, o)
  <2>1. f[o] \in Outputs
    OBVIOUS
  <2> DEFINE v == Viewport(f, order, o)
  <2>2. CASE o \in live
    <3>1. laid[o] = [f[o] EXCEPT !.viewport = v]
      BY <2>2
    <3>2. v \in [x : Int, extent : Size \cup {0}]
      BY <1>1, <2>2
    <3> HIDE DEF v, laid
    <3>3. laid[o].viewport = v
      BY <2>1, <3>1 DEF Outputs
    <3> QED
      BY <2>1, <3>1, <3>2, <3>3 DEF Outputs, v
  <2>3. CASE o \notin live
    BY <2>1, <2>3
  <2> QED
    BY <2>2, <2>3
<1>4. laid \in [Output -> Outputs]
  BY <1>3
<1>5. out' = laid \/ out' = wm_request_frame(laid, live)
  BY DEF reflow_outputs
<1> HIDE DEF laid
<1>6. /\ out' \in [Output -> Outputs]
      /\ \A o \in Output : /\ out'[o].size = laid[o].size
                           /\ out'[o].viewport = laid[o].viewport
                           /\ out'[o].current_image = laid[o].current_image
                           /\ out'[o].pending_image = laid[o].pending_image
                           /\ out'[o].release_slots = laid[o].release_slots
  BY <1>4, <1>5, RequestKeepsLeases
<1>7. ASSUME NEW k \in DOMAIN order
      PROVE  /\ out'[order[k]].viewport.extent = out'[order[k]].size
             /\ IF k = 1 THEN out'[order[k]].viewport.x = 0
                ELSE out'[order[k]].viewport.x + out'[order[k]].viewport.extent
                       = out'[order[k - 1]].viewport.x
  <2>1. k \in 1 .. Len(order) /\ Len(order) \in Nat /\ order[k] \in live
    BY <1>2
  <2>2. \A j \in 1 .. Len(order) :
          /\ out'[order[j]].viewport = Viewport(f, order, order[j])
          /\ out'[order[j]].size = f[order[j]].size
    BY <1>2, <1>3, <1>6
  <2>3. out'[order[k]].viewport.extent = out'[order[k]].size
    BY <1>1, <2>1, <2>2
  <2>4. CASE k = 1
    <3>1. order # <<>>
      BY <2>1
    <3> QED
      BY <1>1, <2>1, <2>2, <2>3, <2>4, <3>1
  <2>5. CASE k # 1
    <3> DEFINE v == Viewport(f, order, order[k])
               w == Viewport(f, order, order[k - 1])
    <3>1. k \in 2 .. Len(order) /\ k - 1 \in 1 .. Len(order)
      BY <2>1, <2>5
    <3>2. v.x = w.x - f[order[k]].size /\ v.extent = f[order[k]].size
      BY <1>1, <2>1, <3>1
    <3>3. w.x \in Int
      BY <1>1, <1>2, <3>1
    <3>4. f[order[k]].size \in Int
      <4>1. f[order[k]] \in Outputs
        BY <1>2, <2>1
      <4>2. f[order[k]].size \in Size \cup {0}
        BY <4>1 DEF Outputs
      <4>3. Size \cup {0} \subseteq Int
        BY SizeAssumption
      <4> QED
        BY <4>2, <4>3
    <3>5. out'[order[k]].viewport = v /\ out'[order[k - 1]].viewport = w
      BY <2>1, <2>2, <3>1
    <3> HIDE DEF v, w
    <3> QED
      BY <2>3, <2>5, <3>2, <3>3, <3>4, <3>5
  <2> QED
    BY <2>3, <2>4, <2>5
<1>8. Placed(out', order)
  BY <1>7 DEF Placed
<1> QED
  BY <1>3, <1>6, <1>8

(* What an image pool has: every image is of a size, or does not exist.    *)
Pools == [images : SUBSET Image, extent : [Image -> Size \cup {0}]]

(* An image in use is not in the pool, and exists.                         *)
InUse(p, held) == \A i \in held : i \notin p.images /\ p.extent[i] # 0

(* Ended leases leave the images in use alone.                             *)
LEMMA ReturnedKeepsUsed ==
  ASSUME NEW p \in Pools, NEW held, held \subseteq Image, \A i \in held : p.extent[i] # 0
  PROVE  /\ Returned(p, held) \in Pools
         /\ InUse(Returned(p, held), held)
         /\ \A i \in held : Returned(p, held).extent[i] = p.extent[i]
<1> DEFINE alive == {p.extent[i] : i \in held}
           kept == {i \in Image : p.extent[i] \in alive}
           r == Returned(p, held)
<1>1. r = [images |-> kept \ held,
           extent |-> [i \in Image |-> IF i \in kept THEN p.extent[i] ELSE 0]]
  BY DEF Returned
<1>2. held \subseteq kept /\ kept \subseteq Image
  OBVIOUS
<1>3. \A i \in Image : p.extent[i] \in Size \cup {0}
  BY DEF Pools
<1> HIDE DEF kept, r
<1>4. r.images = kept \ held /\ r.extent = [i \in Image |-> IF i \in kept THEN p.extent[i] ELSE 0]
  BY <1>1
<1>5. r \in Pools
  BY <1>1, <1>2, <1>3 DEF Pools
<1>6. \A i \in held : r.extent[i] = p.extent[i]
  BY <1>2, <1>4
<1>7. InUse(r, held)
  BY <1>4, <1>6 DEF InUse
<1> QED
  BY <1>5, <1>6, <1>7 DEF r

(* An image that is acquired was in no use, and is in use from then on.    *)
LEMMA AcquireTakes ==
  ASSUME NEW p \in Pools, NEW held, held \subseteq Image, InUse(p, held),
         NEW size \in Size, NEW i \in Acquirable(p, size)
  PROVE  /\ i \in Image \ held
         /\ acquire(p, i, size) \in Pools
         /\ InUse(acquire(p, i, size), held \cup {i})
<1> DEFINE q == acquire(p, i, size)
<1>1. p.images \subseteq Image /\ p.extent \in [Image -> Size \cup {0}] /\ size # 0
  BY SizeAssumption DEF Pools
<1>2. i \in Image /\ (i \in p.images \/ p.extent[i] = 0)
  BY <1>1 DEF Acquirable
<1>3. i \notin held
  BY <1>2 DEF InUse
<1>4. q = [images |-> p.images \ {i}, extent |-> [p.extent EXCEPT ![i] = size]]
  BY DEF acquire
<1> HIDE DEF q
<1>5. q \in Pools
  BY <1>1, <1>2, <1>4 DEF Pools
<1>6. InUse(q, held \cup {i})
  BY <1>1, <1>2, <1>4 DEF InUse
<1> QED
  BY <1>2, <1>3, <1>5, <1>6 DEF q

(* What devices show or may read is what the output's leases are for.      *)
Seen(f, d) ==
  \A o \in Output :
    IF backend = "drm"
    THEN /\ d[o].hosted = {} /\ d[o].released = {}
         /\ d[o].queued \in {Null, f[o].pending_image}
         /\ d[o].scanout = IF d[o].flipped THEN f[o].pending_image ELSE f[o].current_image
    ELSE /\ d[o].scanout = Null
         /\ d[o].hosted \cup d[o].released \subseteq f[o].release_slots
         /\ d[o].hosted \cap d[o].released = {}

Leases ==
  /\ backend \in Backend
  /\ out \in [Output -> Outputs]
  /\ pool \in Pools
  /\ running \subseteq commands /\ commands \subseteq Image
  /\ InUse(pool, Held(out, commands))
  /\ Seen(out, device)
  /\ \A o \in Output \ Live : device[o] = Blank
  /\ Injective(outputs)
  /\ Placed(out, outputs)

(* The images that output o keeps a lease of.                              *)
OfOutput(f, o) == ({f[o].current_image, f[o].pending_image} \cup f[o].release_slots) \ {Null}

(* The images that are held, by whom.                                      *)
LEMMA HeldIs ==
  ASSUME NEW f \in [Output -> Outputs], NEW c, c \subseteq Image
  PROVE  /\ Held(f, c) \subseteq Image
         /\ c \subseteq Held(f, c)
         /\ \A o \in Output : OfOutput(f, o) \subseteq Held(f, c)
         /\ \A i \in Held(f, c) : i \in c \/ \E o \in Output : i \in OfOutput(f, o)
<1>1. ASSUME NEW o \in Output
      PROVE  /\ f[o].current_image \in Image \cup {Null}
             /\ f[o].pending_image \in Image \cup {Null}
             /\ f[o].release_slots \subseteq Image
  <2>1. f[o] \in Outputs
    OBVIOUS
  <2> QED
    BY <2>1 DEF Outputs
<1>2. \A i : i \in Held(f, c) <=>
               /\ i # Null
               /\ i \in c \/ \E o \in Output : i \in OfOutput(f, o)
  BY DEF Held, OfOutput
<1>3. Null \notin c
  BY NullAssumption
<1> QED
  BY <1>1, <1>2, <1>3 DEF OfOutput

(* What outputs and commands keep is less, or as much as before.           *)
LEMMA HeldShrinks ==
  ASSUME NEW f \in [Output -> Outputs], NEW g \in [Output -> Outputs],
         NEW c, NEW b, c \subseteq Image, b \subseteq c,
         \A o \in Output : OfOutput(g, o) \subseteq OfOutput(f, o)
  PROVE  Held(g, b) \subseteq Held(f, c)
<1>1. \A i \in Held(g, b) : i \in b \/ \E o \in Output : i \in OfOutput(g, o)
  BY HeldIs
<1>2. c \subseteq Held(f, c) /\ \A o \in Output : OfOutput(f, o) \subseteq Held(f, c)
  BY HeldIs
<1> QED
  BY <1>1, <1>2

(* The fields a commit changes.                                            *)
LEMMA CommitLeases ==
  ASSUME NEW f \in [Output -> Outputs], NEW d \in [Output -> Devices],
         NEW o \in Output, NEW i \in Image, commit(f, d, o, i)
  PROVE  /\ out' \in [Output -> Outputs]
         /\ \A q \in Output : /\ out'[q].size = f[q].size
                              /\ out'[q].viewport = f[q].viewport
         /\ \A q \in Output \ {o} : out'[q] = f[q] /\ device'[q] = d[q]
         /\ out'[o].current_image = f[o].current_image
         /\ device'[o].scanout = d[o].scanout /\ device'[o].flipped = d[o].flipped
         /\ device'[o].released = d[o].released
         /\ backend = "drm" =>
              /\ out'[o].pending_image = i /\ out'[o].release_slots = f[o].release_slots
              /\ device'[o].queued = i /\ device'[o].hosted = d[o].hosted
         /\ backend # "drm" =>
              /\ out'[o].pending_image = f[o].pending_image
              /\ out'[o].release_slots = f[o].release_slots \cup {i}
              /\ device'[o].queued = d[o].queued
              /\ device'[o].hosted = d[o].hosted \cup {i}
<1>1. f[o] \in Outputs /\ d[o] \in Devices
  OBVIOUS
<1>2. CASE backend = "drm"
  <2> DEFINE r == [f[o] EXCEPT !.commit_available = FALSE, !.pending_image = i]
             e == [d[o] EXCEPT !.queued = i]
  <2>1. out' = [f EXCEPT ![o] = r] /\ device' = [d EXCEPT ![o] = e]
    BY <1>2 DEF commit, IoDrmOutput_commit
  <2>2. /\ r \in Outputs /\ r.size = f[o].size /\ r.viewport = f[o].viewport
        /\ r.current_image = f[o].current_image /\ r.pending_image = i
        /\ r.release_slots = f[o].release_slots
    BY <1>1 DEF Outputs
  <2>3. /\ e \in Devices /\ e.scanout = d[o].scanout /\ e.flipped = d[o].flipped
        /\ e.released = d[o].released /\ e.queued = i /\ e.hosted = d[o].hosted
    BY <1>1 DEF Devices
  <2> HIDE DEF r, e
  <2> QED
    BY <1>2, <2>1, <2>2, <2>3
<1>3. CASE backend # "drm"
  <2> DEFINE r == [f[o] EXCEPT !.commit_available = FALSE, !.frame_callback = TRUE,
                               !.release_slots = @ \cup {i}]
             e == [d[o] EXCEPT !.hosted = @ \cup {i}]
  <2>1. out' = [f EXCEPT ![o] = r] /\ device' = [d EXCEPT ![o] = e]
    BY <1>3 DEF commit, IoWaylandOutput_commit
  <2>2. /\ r \in Outputs /\ r.size = f[o].size /\ r.viewport = f[o].viewport
        /\ r.current_image = f[o].current_image /\ r.pending_image = f[o].pending_image
        /\ r.release_slots = f[o].release_slots \cup {i}
    BY <1>1 DEF Outputs
  <2>3. /\ e \in Devices /\ e.scanout = d[o].scanout /\ e.flipped = d[o].flipped
        /\ e.released = d[o].released /\ e.queued = d[o].queued
        /\ e.hosted = d[o].hosted \cup {i}
    BY <1>1 DEF Devices
  <2> HIDE DEF r, e
  <2> QED
    BY <1>3, <2>1, <2>2, <2>3
<1> QED
  BY <1>2, <1>3

(* A place depends on sizes and viewports only.                            *)
LEMMA PlacedStays ==
  ASSUME NEW f, NEW g, NEW order \in Seq(Output), Placed(f, order),
         \A o \in Output : g[o].size = f[o].size /\ g[o].viewport = f[o].viewport
  PROVE  Placed(g, order)
<1>1. ASSUME NEW k \in DOMAIN order
      PROVE  /\ g[order[k]].viewport.extent = g[order[k]].size
             /\ IF k = 1 THEN g[order[k]].viewport.x = 0
                ELSE g[order[k]].viewport.x + g[order[k]].viewport.extent
                       = g[order[k - 1]].viewport.x
  <2>1. order[k] \in Output /\ k \in 1 .. Len(order) /\ Len(order) \in Nat
    OBVIOUS
  <2>2. k # 1 => order[k - 1] \in Output
    BY <2>1
  <2> QED
    BY <2>1, <2>2 DEF Placed
<1> QED
  BY <1>1 DEF Placed

(* A handler that may redraw o, after it changed the outputs to f and the  *)
(* devices to d: the image it acquires was in nobody's use.                *)
LEMMA RedrawLeases ==
  ASSUME NEW f \in [Output -> Outputs], NEW d \in [Output -> Devices], NEW o \in Output,
         outputs \in Seq(Output), pool \in Pools,
         running \subseteq commands, commands \subseteq Image,
         \A i \in Held(f, commands) : pool.extent[i] # 0,
         Paced(f, d), Seen(f, d), Placed(f, outputs),
         io_output_try_redraw(o, f, d), UNCHANGED <<backend, outputs>>
  PROVE  /\ out' \in [Output -> Outputs] /\ pool' \in Pools
         /\ running' \subseteq commands' /\ commands' \subseteq Image
         /\ InUse(pool', Held(out', commands'))
         /\ Seen(out', device')
         /\ \A q \in Output \ {o} : device'[q] = d[q]
         /\ Placed(out', outputs')
<1> DEFINE ended == Returned(pool, Held(f, commands))
<1>1. /\ Held(f, commands) \subseteq Image
      /\ commands \subseteq Held(f, commands)
      /\ \A q \in Output : OfOutput(f, q) \subseteq Held(f, commands)
  BY HeldIs
<1>2. /\ ended \in Pools /\ InUse(ended, Held(f, commands))
      /\ \A i \in Held(f, commands) : ended.extent[i] = pool.extent[i]
  BY <1>1, ReturnedKeepsUsed
<1> HIDE DEF ended
<1>3. CASE f[o].frame_requested /\ f[o].commit_available /\ f[o].size # 0
  <2> DEFINE g == [f EXCEPT ![o].frame_requested = FALSE]
  <2>1. f[o].size \in Size
    <3>1. f[o] \in Outputs
      OBVIOUS
    <3> QED
      BY <1>3, <3>1 DEF Outputs
  <2>2. PICK damage \in IF pumps > 0 THEN BOOLEAN ELSE {FALSE},
             i \in Acquirable(ended, f[o].size) :
          /\ commands' = commands \cup {i}
          /\ running' = running \cup {i}
          /\ commit(UiFrame(g, damage), d, o, i)
          /\ pool' = Returned(acquire(ended, i, f[o].size), Held(out', commands'))
    BY <1>3 DEF io_output_try_redraw, output_frame, ended
  <2> DEFINE drawn == UiFrame(g, damage)
             taken == acquire(ended, i, f[o].size)
  <2>3. /\ i \in Image \ Held(f, commands)
        /\ taken \in Pools
        /\ InUse(taken, Held(f, commands) \cup {i})
    BY <1>1, <1>2, <2>1, AcquireTakes
  <2>4. /\ g \in [Output -> Outputs]
        /\ \A q \in Output : /\ g[q].size = f[q].size
                             /\ g[q].viewport = f[q].viewport
                             /\ g[q].current_image = f[q].current_image
                             /\ g[q].pending_image = f[q].pending_image
                             /\ g[q].release_slots = f[q].release_slots
    <3> DEFINE r == [f[o] EXCEPT !.frame_requested = FALSE]
    <3>1. f[o] \in Outputs
      OBVIOUS
    <3>2. /\ r \in Outputs /\ r.size = f[o].size /\ r.viewport = f[o].viewport
          /\ r.current_image = f[o].current_image
          /\ r.pending_image = f[o].pending_image
          /\ r.release_slots = f[o].release_slots
      BY <3>1 DEF Outputs
    <3>3. g = [f EXCEPT ![o] = r]
      OBVIOUS
    <3> HIDE DEF g, r
    <3> QED
      BY <3>2, <3>3
  <2> HIDE DEF g
  <2>5. /\ drawn \in [Output -> Outputs]
        /\ \A q \in Output : /\ drawn[q].size = f[q].size
                             /\ drawn[q].viewport = f[q].viewport
                             /\ drawn[q].current_image = f[q].current_image
                             /\ drawn[q].pending_image = f[q].pending_image
                             /\ drawn[q].release_slots = f[q].release_slots
    <3>1. drawn = g \/ drawn = wm_request_frame(g, Live)
      BY DEF UiFrame
    <3> HIDE DEF drawn
    <3> QED
      BY <2>4, <3>1, RequestKeepsLeases
  <2>6. commit(drawn, d, o, i) /\ i \in Image
    BY <2>2, <2>3
  <2> HIDE DEF drawn, taken
  <2>7. /\ out' \in [Output -> Outputs]
        /\ \A q \in Output : /\ out'[q].size = drawn[q].size
                             /\ out'[q].viewport = drawn[q].viewport
        /\ \A q \in Output \ {o} : out'[q] = drawn[q] /\ device'[q] = d[q]
        /\ out'[o].current_image = drawn[o].current_image
        /\ device'[o].scanout = d[o].scanout /\ device'[o].flipped = d[o].flipped
        /\ device'[o].released = d[o].released
        /\ backend = "drm" =>
             /\ out'[o].pending_image = i /\ out'[o].release_slots = drawn[o].release_slots
             /\ device'[o].queued = i /\ device'[o].hosted = d[o].hosted
        /\ backend # "drm" =>
             /\ out'[o].pending_image = drawn[o].pending_image
             /\ out'[o].release_slots = drawn[o].release_slots \cup {i}
             /\ device'[o].queued = d[o].queued
             /\ device'[o].hosted = d[o].hosted \cup {i}
    BY <2>5, <2>6, CommitLeases
  <2>8. running' \subseteq commands' /\ commands' \subseteq Image
    BY <2>2, <2>3
  <2>9. Held(out', commands') \subseteq Held(f, commands) \cup {i}
    <3>1. \A q \in Output : OfOutput(out', q) \subseteq OfOutput(f, q) \cup {i}
      <4> SUFFICES ASSUME NEW q \in Output
                   PROVE  OfOutput(out', q) \subseteq OfOutput(f, q) \cup {i}
        OBVIOUS
      <4>1. CASE q = o
        BY <2>5, <2>7, <4>1 DEF OfOutput
      <4>2. CASE q # o
        BY <2>5, <2>7, <4>2 DEF OfOutput
      <4> QED
        BY <4>1, <4>2
    <3>2. \A j \in Held(out', commands') :
            j \in commands' \/ \E q \in Output : j \in OfOutput(out', q)
      BY <2>7, <2>8, HeldIs
    <3> QED
      BY <1>1, <2>2, <3>1, <3>2
  <2>10. pool' \in Pools /\ InUse(pool', Held(out', commands'))
    <3>1. Held(out', commands') \subseteq Image
      BY <2>7, <2>8, HeldIs
    <3>2. \A j \in Held(out', commands') : taken.extent[j] # 0
      BY <2>3, <2>9 DEF InUse
    <3>3. pool' = Returned(taken, Held(out', commands'))
      BY <2>2 DEF taken
    <3> QED
      BY <2>3, <3>1, <3>2, <3>3, ReturnedKeepsUsed
  <2>11. Seen(out', device')
    <3> SUFFICES ASSUME NEW q \in Output
                 PROVE  IF backend = "drm"
                        THEN /\ device'[q].hosted = {} /\ device'[q].released = {}
                             /\ device'[q].queued \in {Null, out'[q].pending_image}
                             /\ device'[q].scanout = IF device'[q].flipped
                                                     THEN out'[q].pending_image
                                                     ELSE out'[q].current_image
                        ELSE /\ device'[q].scanout = Null
                             /\ device'[q].hosted \cup device'[q].released
                                  \subseteq out'[q].release_slots
                             /\ device'[q].hosted \cap device'[q].released = {}
      BY DEF Seen
    <3>1. CASE q # o
      BY <2>5, <2>7, <3>1 DEF Seen
    <3>2. CASE q = o /\ backend = "drm"
      <4>1. ~ d[o].flipped
        BY <1>3, <3>2 DEF Paced
      <4> QED
        BY <2>5, <2>7, <3>2, <4>1 DEF Seen
    <3>3. CASE q = o /\ backend # "drm"
      <4>1. i \notin d[o].released
        <5>1. f[o].release_slots \ {Null} \subseteq Held(f, commands)
          BY <1>1 DEF OfOutput
        <5>2. d[o].released \subseteq f[o].release_slots
          BY <3>3 DEF Seen
        <5> QED
          BY <2>3, <5>1, <5>2, NullAssumption
      <4> QED
        BY <2>5, <2>7, <3>3, <4>1 DEF Seen
    <3> QED
      BY <3>1, <3>2, <3>3
  <2>12. Placed(out', outputs')
    BY <2>5, <2>7, PlacedStays
  <2> QED
    BY <2>7, <2>8, <2>10, <2>11, <2>12
<1>4. CASE ~(f[o].frame_requested /\ f[o].commit_available /\ f[o].size # 0)
  <2>1. /\ out' = f /\ device' = d /\ pool' = ended
        /\ UNCHANGED <<commands, running>>
    BY <1>4 DEF io_output_try_redraw, NoFrame, ended
  <2> QED
    BY <1>2, <2>1 DEF Seen
<1> QED
  BY <1>3, <1>4

(* Nothing is acquired, and leases may end: what is in use stays so.       *)
LEMMA EndedLeases ==
  ASSUME Leases, out' \in [Output -> Outputs], commands' \subseteq commands,
         \A q \in Output : OfOutput(out', q) \subseteq OfOutput(out, q),
         pool' \in {pool, Returned(pool, Held(out', commands'))}
  PROVE  pool' \in Pools /\ InUse(pool', Held(out', commands'))
<1>1. /\ out \in [Output -> Outputs] /\ pool \in Pools /\ commands \subseteq Image
      /\ InUse(pool, Held(out, commands))
  BY DEF Leases
<1>2. Held(out', commands') \subseteq Held(out, commands)
  BY <1>1, HeldShrinks
<1>3. Held(out', commands') \subseteq Image
  BY <1>1, HeldIs
<1>4. InUse(pool, Held(out', commands'))
  BY <1>1, <1>2 DEF InUse
<1>5. CASE pool' = pool
  BY <1>1, <1>4, <1>5
<1>6. CASE pool' = Returned(pool, Held(out', commands'))
  <2>1. \A i \in Held(out', commands') : pool.extent[i] # 0
    BY <1>4 DEF InUse
  <2> QED
    BY <1>1, <1>3, <1>6, <2>1, ReturnedKeepsUsed
<1> QED
  BY <1>5, <1>6

(* The fields of one output are replaced.                                  *)
LEMMA PutOutputs ==
  ASSUME NEW f \in [Output -> Outputs], NEW o \in Output, NEW r \in Outputs
  PROVE  /\ Put(f, o, r) \in [Output -> Outputs] /\ Put(f, o, r)[o] = r
         /\ \A q \in Output \ {o} : Put(f, o, r)[q] = f[q]
  BY DEF Put

(* There are no leases initially.                                          *)
LEMMA InitLeases == Init => Leases
<1> SUFFICES ASSUME Init PROVE Leases
  OBVIOUS
<1>1. Fresh(0) \in Outputs
  <2>1. 0 \in Int /\ 0 \in Size \cup {0} /\ [x |-> 0, extent |-> 0] \in [x : Int, extent : Size \cup {0}]
    OBVIOUS
  <2> QED
    BY <2>1 DEF Fresh, Outputs
<1>2. out = [o \in Output |-> Fresh(0)] /\ device = [o \in Output |-> Blank] /\ outputs = <<>>
  BY DEF Init
<1>3. /\ Fresh(0).current_image = Null /\ Fresh(0).pending_image = Null
      /\ Fresh(0).release_slots = {}
  BY DEF Fresh
<1>4. /\ Blank.hosted = {} /\ Blank.released = {} /\ Blank.queued = Null
      /\ Blank.scanout = Null /\ Blank.flipped = FALSE
  BY DEF Blank
<1>5. out \in [Output -> Outputs]
  BY <1>1, <1>2
<1>6. pool \in Pools /\ running \subseteq commands /\ commands \subseteq Image
  BY DEF Init, Pools
<1>7. Held(out, commands) = {}
  <2>1. \A o \in Output : OfOutput(out, o) = {}
    BY <1>2, <1>3 DEF OfOutput
  <2>2. \A i \in Held(out, commands) : i \in commands \/ \E o \in Output : i \in OfOutput(out, o)
    BY <1>5, <1>6, HeldIs
  <2>3. commands = {}
    BY DEF Init
  <2> QED
    BY <2>1, <2>2, <2>3
<1>8. InUse(pool, Held(out, commands))
  BY <1>7 DEF InUse
<1>9. Seen(out, device)
  BY <1>2, <1>3, <1>4 DEF Seen
<1>10. Injective(outputs) /\ Placed(out, outputs)
  BY <1>2 DEF Injective, Placed
<1>11. backend \in Backend
  BY DEF Init
<1> QED
  BY <1>2, <1>5, <1>6, <1>8, <1>9, <1>10, <1>11 DEF Leases

(* The three changes that ask for frames of all outputs.                   *)
LEMMA RequestLeases ==
  ASSUME IInv, Leases, handle_damage \/ commit_frame_callbacks \/ ui_request_frame
  PROVE  Leases'
<1>1. /\ out' = wm_request_frame(out, Live)
      /\ UNCHANGED <<backend, outputs, pool, commands, running, device>>
  BY DEF handle_damage, commit_frame_callbacks, ui_request_frame
<1>2. /\ out' \in [Output -> Outputs]
      /\ \A o \in Output : /\ out'[o].size = out[o].size
                           /\ out'[o].viewport = out[o].viewport
                           /\ out'[o].current_image = out[o].current_image
                           /\ out'[o].pending_image = out[o].pending_image
                           /\ out'[o].release_slots = out[o].release_slots
  BY <1>1, RequestKeepsLeases DEF Leases
<1>3. pool' \in Pools /\ InUse(pool', Held(out', commands'))
  <2>1. \A q \in Output : OfOutput(out', q) \subseteq OfOutput(out, q)
    BY <1>2 DEF OfOutput
  <2>2. pool' \in {pool, Returned(pool, Held(out', commands'))} /\ commands' \subseteq commands
    BY <1>1
  <2> QED
    BY <1>2, <2>1, <2>2, EndedLeases
<1>4. Seen(out', device')
  BY <1>1, <1>2 DEF Leases, Seen
<1>5. Placed(out', outputs')
  <2>1. outputs \in Seq(Output) /\ Placed(out, outputs)
    BY DEF IInv, Types, Leases
  <2> QED
    BY <1>1, <1>2, <2>1, PlacedStays
<1>6. Live' = Live
  BY <1>1 DEF Live
<1> QED
  BY <1>1, <1>2, <1>3, <1>4, <1>5, <1>6 DEF Leases, Injective, Seen, InUse, Placed

(* A handler that may redraw o, after it changed the fields of o to r and  *)
(* its device to e.                                                        *)
LEMMA RedrawStepLeases ==
  ASSUME IInv, Leases, NEW o \in Output, o \in Live,
         NEW r \in Outputs, NEW e \in Devices,
         r.size = out[o].size, r.viewport = out[o].viewport,
         {r.current_image, r.pending_image} \cup r.release_slots
           \subseteq {Null} \cup OfOutput(out, o),
         Paced(Put(out, o, r), Put(device, o, e)),
         Seen(Put(out, o, r), Put(device, o, e)),
         io_output_try_redraw(o, Put(out, o, r), Put(device, o, e)),
         UNCHANGED <<backend, outputs>>
  PROVE  Leases'
<1> DEFINE f == Put(out, o, r)
           d == Put(device, o, e)
<1>1. /\ out \in [Output -> Outputs] /\ pool \in Pools
      /\ running \subseteq commands /\ commands \subseteq Image
      /\ InUse(pool, Held(out, commands)) /\ Placed(out, outputs)
      /\ outputs \in Seq(Output) /\ device \in [Output -> Devices]
  BY DEF IInv, Types, Leases
<1>2. /\ f \in [Output -> Outputs] /\ f[o] = r
      /\ \A q \in Output \ {o} : f[q] = out[q]
  BY <1>1 DEF Put
<1>3. d \in [Output -> Devices] /\ \A q \in Output \ {o} : d[q] = device[q]
  BY <1>1 DEF Put
<1>4. Paced(f, d) /\ Seen(f, d) /\ io_output_try_redraw(o, f, d)
  OBVIOUS
<1> HIDE DEF f, d
<1>5. \A q \in Output : OfOutput(f, q) \subseteq OfOutput(out, q)
  BY <1>2 DEF OfOutput
<1>6. \A i \in Held(f, commands) : pool.extent[i] # 0
  <2>1. Held(f, commands) \subseteq Held(out, commands)
    BY <1>1, <1>2, <1>5, HeldShrinks
  <2> QED
    BY <1>1, <2>1 DEF InUse
<1>7. Placed(f, outputs)
  <2>1. \A q \in Output : f[q].size = out[q].size /\ f[q].viewport = out[q].viewport
    BY <1>2
  <2> QED
    BY <1>1, <2>1, PlacedStays
<1>8. /\ out' \in [Output -> Outputs] /\ pool' \in Pools
      /\ running' \subseteq commands' /\ commands' \subseteq Image
      /\ InUse(pool', Held(out', commands'))
      /\ Seen(out', device')
      /\ \A q \in Output \ {o} : device'[q] = d[q]
      /\ Placed(out', outputs')
  BY <1>1, <1>2, <1>3, <1>4, <1>6, <1>7, RedrawLeases
<1>9. Live' = Live
  BY DEF Live
<1>10. \A q \in Output \ Live' : device'[q] = Blank
  BY <1>3, <1>8, <1>9 DEF Leases
<1> QED
  BY <1>8, <1>10 DEF Leases, Injective, Seen, InUse, Placed

(* Drawing, flipping and presenting keep the leases.                       *)
LEMMA RedrawingKeepsLeases ==
  ASSUME IInv, Leases, NEW o \in Output, try_redraw(o) \/ on_page_flip(o) \/ on_present_frame(o)
  PROVE  Leases'
<1>1. /\ out \in [Output -> Outputs] /\ device \in [Output -> Devices]
      /\ out[o] \in Outputs /\ device[o] \in Devices
      /\ Seen(out, device) /\ Paced(out, device)
  BY DEF IInv, Types, Leases
<1>2. device = Put(device, o, device[o])
  BY <1>1 DEF Put
<1>3. CASE try_redraw(o)
  <2> DEFINE r == [out[o] EXCEPT !.try_redraw = FALSE]
             f == [out EXCEPT ![o].try_redraw = FALSE]
  <2>1. /\ r \in Outputs /\ r.size = out[o].size /\ r.viewport = out[o].viewport
        /\ r.current_image = out[o].current_image /\ r.pending_image = out[o].pending_image
        /\ r.release_slots = out[o].release_slots
        /\ r.commit_available = out[o].commit_available
        /\ r.frame_callback = out[o].frame_callback
    BY <1>1 DEF Outputs
  <2>2. f = Put(out, o, r)
    BY DEF Put
  <2>3. io_output_try_redraw(o, f, device) /\ UNCHANGED <<backend, outputs>> /\ o \in Live
    BY <1>3 DEF try_redraw
  <2> HIDE DEF r, f
  <2>4. f[o] = r /\ \A q \in Output \ {o} : f[q] = out[q]
    BY <1>1, <2>2 DEF Put
  <2>5. Paced(f, device)
    BY <1>1, <2>1, <2>4 DEF Paced
  <2>6. Seen(f, device)
    BY <1>1, <2>1, <2>4 DEF Seen
  <2>7. {r.current_image, r.pending_image} \cup r.release_slots
          \subseteq {Null} \cup OfOutput(out, o)
    BY <2>1 DEF OfOutput
  <2> QED
    BY <1>1, <1>2, <2>1, <2>2, <2>3, <2>5, <2>6, <2>7, RedrawStepLeases
<1>4. CASE on_page_flip(o)
  <2> DEFINE r == [out[o] EXCEPT !.current_image = out[o].pending_image, !.commit_available = TRUE]
             e == [device[o] EXCEPT !.flipped = FALSE]
             f == [out EXCEPT ![o].current_image = out[o].pending_image,
                              ![o].commit_available = TRUE]
             d == [device EXCEPT ![o].flipped = FALSE]
  <2>1. device[o].flipped
    BY <1>4 DEF on_page_flip
  <2>2. backend = "drm" /\ device[o].queued = Null /\ o \in Live
    <3>1. backend = "drm" /\ device[o].queued = Null /\ ~ out[o].commit_available
      BY <1>1, <2>1 DEF Paced
    <3> QED
      BY <3>1 DEF IInv
  <2>3. /\ r \in Outputs /\ r.size = out[o].size /\ r.viewport = out[o].viewport
        /\ r.current_image = out[o].pending_image /\ r.pending_image = out[o].pending_image
        /\ r.release_slots = out[o].release_slots
        /\ r.commit_available = TRUE /\ r.frame_callback = out[o].frame_callback
    BY <1>1 DEF Outputs
  <2>4. /\ e \in Devices /\ e.flipped = FALSE /\ e.queued = device[o].queued
        /\ e.scanout = device[o].scanout /\ e.hosted = device[o].hosted
        /\ e.released = device[o].released
    BY <1>1 DEF Devices
  <2>5. f = Put(out, o, r) /\ d = Put(device, o, e)
    BY <1>1 DEF Put
  <2>6. io_output_try_redraw(o, f, d) /\ UNCHANGED <<backend, outputs>>
    BY <1>4 DEF on_page_flip
  <2> HIDE DEF r, e, f, d
  <2>7. f[o] = r /\ d[o] = e /\ \A q \in Output \ {o} : f[q] = out[q] /\ d[q] = device[q]
    BY <1>1, <2>5 DEF Put
  <2>8. Paced(f, d)
    BY <1>1, <2>2, <2>3, <2>4, <2>7 DEF Paced
  <2>9. Seen(f, d)
    BY <1>1, <2>1, <2>2, <2>3, <2>4, <2>7 DEF Seen
  <2>10. {r.current_image, r.pending_image} \cup r.release_slots
           \subseteq {Null} \cup OfOutput(out, o)
    BY <2>3 DEF OfOutput
  <2> QED
    BY <2>2, <2>3, <2>4, <2>5, <2>6, <2>8, <2>9, <2>10, RedrawStepLeases
<1>5. CASE on_present_frame(o)
  <2> DEFINE r == [out[o] EXCEPT !.frame_callback = FALSE, !.commit_available = TRUE]
             f == [out EXCEPT ![o].frame_callback = FALSE, ![o].commit_available = TRUE]
  <2>1. /\ o \in Live /\ out[o].frame_callback /\ io_output_try_redraw(o, f, device)
        /\ UNCHANGED <<backend, outputs>>
    BY <1>5 DEF on_present_frame
  <2>2. backend # "drm"
    BY <1>1, <2>1 DEF Paced
  <2>3. /\ r \in Outputs /\ r.size = out[o].size /\ r.viewport = out[o].viewport
        /\ r.current_image = out[o].current_image /\ r.pending_image = out[o].pending_image
        /\ r.release_slots = out[o].release_slots /\ r.commit_available = TRUE
    BY <1>1 DEF Outputs
  <2>4. f = Put(out, o, r)
    BY <1>1 DEF Put
  <2> HIDE DEF r, f
  <2>5. f[o] = r /\ \A q \in Output \ {o} : f[q] = out[q]
    BY <1>1, <2>4 DEF Put
  <2>6. Paced(f, device)
    BY <1>1, <2>2, <2>3, <2>5 DEF Paced
  <2>7. Seen(f, device)
    BY <1>1, <2>2, <2>3, <2>5 DEF Seen
  <2>8. {r.current_image, r.pending_image} \cup r.release_slots
          \subseteq {Null} \cup OfOutput(out, o)
    BY <2>3 DEF OfOutput
  <2> QED
    BY <1>1, <1>2, <2>1, <2>3, <2>4, <2>6, <2>7, <2>8, RedrawStepLeases
<1> QED
  BY <1>3, <1>4, <1>5

(* An output that is new, or has gone, keeps no lease.                     *)
LEMMA FreshLeases ==
  ASSUME NEW size \in Size \cup {0}
  PROVE  /\ Fresh(size) \in Outputs /\ Fresh(size).size = size
         /\ Fresh(size).current_image = Null /\ Fresh(size).pending_image = Null
         /\ Fresh(size).release_slots = {}
<1>1. 0 \in Int /\ [x |-> 0, extent |-> 0] \in [x : Int, extent : Size \cup {0}]
  OBVIOUS
<1> QED
  BY <1>1 DEF Fresh, Outputs

(* Without one of its outputs, the list still has every other output once. *)
LEMMA EraseKeeps ==
  ASSUME NEW order \in Seq(Output), Injective(order), NEW o \in Range(order)
  PROVE  /\ Injective(erase(order, o))
         /\ Range(order) \subseteq Range(erase(order, o)) \cup {o}
<1> DEFINE n == CHOOSE k \in DOMAIN order : order[k] = o
           left == SubSeq(order, 1, n - 1)
           right == SubSeq(order, n + 1, Len(order))
           all == erase(order, o)
<1>1. n \in 1 .. Len(order) /\ order[n] = o /\ Len(order) \in Nat
  BY DEF Range
<1> HIDE DEF n
<1>2. /\ left \in Seq(Output) /\ Len(left) = n - 1
      /\ \A k \in 1 .. n - 1 : left[k] = order[k]
  <2>1. n - 1 \in Int /\ \A k \in 1 .. n - 1 : order[k] \in Output
    BY <1>1
  <2> QED
    BY <1>1, <2>1, SubSeqProperties
<1>3. /\ right \in Seq(Output) /\ Len(right) = Len(order) - n
      /\ \A k \in 1 .. Len(order) - n : right[k] = order[n + k]
  <2>1. n + 1 \in Int /\ \A k \in n + 1 .. Len(order) : order[k] \in Output
    BY <1>1
  <2>2. /\ right \in Seq(Output)
        /\ Len(right) = IF n + 1 <= Len(order) THEN Len(order) - (n + 1) + 1 ELSE 0
        /\ \A k \in 1 .. Len(order) - (n + 1) + 1 : right[k] = order[(n + 1) + k - 1]
    BY <1>1, <2>1, SubSeqProperties
  <2>3. Len(right) = Len(order) - n
    BY <1>1, <2>2
  <2>4. \A k \in 1 .. Len(order) - n : right[k] = order[n + k]
    <3> SUFFICES ASSUME NEW k \in 1 .. Len(order) - n PROVE right[k] = order[n + k]
      OBVIOUS
    <3>1. k \in 1 .. Len(order) - (n + 1) + 1 /\ (n + 1) + k - 1 = n + k
      BY <1>1
    <3> HIDE DEF right
    <3> QED
      BY <2>2, <3>1
  <2> QED
    BY <2>2, <2>3, <2>4
<1>4. all = left \o right
  BY DEF erase, RemoveAt, n
<1> HIDE DEF left, right, all
<1>5. /\ Len(all) = Len(order) - 1
      /\ \A k \in 1 .. Len(order) - 1 :
           all[k] = IF k < n THEN order[k] ELSE order[k + 1]
  <2>1. Len(all) = Len(left) + Len(right)
    BY <1>2, <1>3, <1>4, ConcatProperties
  <2>2. ASSUME NEW k \in 1 .. Len(order) - 1
        PROVE  all[k] = IF k < n THEN order[k] ELSE order[k + 1]
    <3>1. all[k] = IF k <= Len(left) THEN left[k] ELSE right[k - Len(left)]
      BY <1>1, <1>2, <1>3, <1>4
    <3>2. CASE k < n
      BY <1>1, <1>2, <3>1, <3>2
    <3>3. CASE ~(k < n)
      <4>1. k - (n - 1) \in 1 .. Len(order) - n /\ n + (k - (n - 1)) = k + 1
        BY <1>1, <3>3
      <4>2. right[k - (n - 1)] = order[n + (k - (n - 1))]
        BY <1>3, <4>1
      <4> QED
        BY <1>1, <1>2, <3>1, <3>3, <4>1, <4>2
    <3> QED
      BY <3>2, <3>3
  <2> QED
    BY <1>1, <1>2, <1>3, <2>1, <2>2
<1>6. DOMAIN all = 1 .. Len(order) - 1
  <2>1. all \in Seq(Output)
    BY EraseType DEF all
  <2> QED
    BY <1>5, <2>1
<1>7. Injective(all)
  <2> SUFFICES ASSUME NEW j \in 1 .. Len(order) - 1, NEW k \in 1 .. Len(order) - 1,
                      all[j] = all[k]
               PROVE  j = k
    BY <1>6 DEF Injective
  <2> DEFINE at(i) == IF i < n THEN i ELSE i + 1
  <2>1. at(j) \in DOMAIN order /\ at(k) \in DOMAIN order
    BY <1>1
  <2>2. all[j] = order[at(j)] /\ all[k] = order[at(k)]
    BY <1>5
  <2>3. at(j) = at(k)
    BY <2>1, <2>2 DEF Injective
  <2> QED
    BY <1>1, <2>3
<1>8. ASSUME NEW q \in Range(order), q # o PROVE q \in Range(all)
  <2>1. PICK k \in 1 .. Len(order) : order[k] = q
    BY <1>1 DEF Range
  <2>2. k # n
    BY <1>1, <1>8, <2>1
  <2> DEFINE j == IF k < n THEN k ELSE k - 1
  <2>3. j \in 1 .. Len(order) - 1 /\ (IF j < n THEN j ELSE j + 1) = k
    BY <1>1, <2>1, <2>2
  <2> HIDE DEF j
  <2>4. all[j] = q
    BY <1>5, <2>1, <2>3
  <2> QED
    BY <1>6, <2>3, <2>4 DEF Range
<1> QED
  BY <1>7, <1>8 DEF all

(* A handler that lays the outputs out in order, after it replaced the     *)
(* fields of o by r, and did what it did to the devices.                   *)
LEMMA ReflowLeases ==
  ASSUME IInv, Leases, NEW o \in Output, NEW r \in Outputs,
         NEW order \in Seq(Output), Injective(order), outputs' = order,
         Range(outputs) \subseteq Range(order) \cup {o},
         OfOutput(Put(out, o, r), o) \subseteq OfOutput(out, o),
         NEW any_changed \in BOOLEAN, reflow_outputs(Put(out, o, r), order, any_changed),
         pool' \in {pool, Returned(pool, Held(out', commands'))},
         \A q \in Output \ {o} : device'[q] = device[q],
         Seen(Put(out, o, r), device'), o \notin Live' => device'[o] = Blank,
         UNCHANGED <<backend, commands, running>>
  PROVE  Leases'
<1> DEFINE f == Put(out, o, r)
<1>1. /\ out \in [Output -> Outputs] /\ running \subseteq commands /\ commands \subseteq Image
      /\ \A q \in Output \ Live : device[q] = Blank
      /\ backend \in Backend
  BY DEF Leases
<1>2. f \in [Output -> Outputs] /\ \A q \in Output \ {o} : f[q] = out[q]
  BY <1>1, PutOutputs
<1>3. reflow_outputs(f, order, any_changed) /\ Seen(f, device')
  OBVIOUS
<1>4. \A q \in Output : OfOutput(f, q) \subseteq OfOutput(out, q)
  <2> SUFFICES ASSUME NEW q \in Output PROVE OfOutput(f, q) \subseteq OfOutput(out, q)
    OBVIOUS
  <2>1. CASE q = o
    BY <2>1
  <2>2. CASE q # o
    BY <1>2, <2>2 DEF OfOutput
  <2> QED
    BY <2>1, <2>2
<1> HIDE DEF f
<1>5. /\ out' \in [Output -> Outputs]
      /\ \A q \in Output : /\ out'[q].size = f[q].size
                           /\ out'[q].current_image = f[q].current_image
                           /\ out'[q].pending_image = f[q].pending_image
                           /\ out'[q].release_slots = f[q].release_slots
      /\ Placed(out', order)
  BY <1>2, <1>3, ReflowPlaces
<1>6. pool' \in Pools /\ InUse(pool', Held(out', commands'))
  <2>1. \A q \in Output : OfOutput(out', q) \subseteq OfOutput(out, q)
    BY <1>4, <1>5 DEF OfOutput
  <2> QED
    BY <1>5, <2>1, EndedLeases
<1>7. Seen(out', device')
  BY <1>3, <1>5 DEF Seen
<1>8. \A q \in Output \ Live' : device'[q] = Blank
  <2>1. Live' = Range(order) /\ Live \subseteq Live' \cup {o}
    BY DEF Live
  <2> QED
    BY <1>1, <2>1
<1>9. running' \subseteq commands' /\ commands' \subseteq Image /\ backend' \in Backend
  BY <1>1
<1> QED
  BY <1>5, <1>6, <1>7, <1>8, <1>9 DEF Leases, Injective, Seen, InUse, Placed

(* Adding, removing and configuring outputs keep the leases.               *)
LEMMA LayoutKeepsLeases ==
  ASSUME IInv, Leases, NEW o \in Output,
         \/ \E size \in Size : configure(o, size)
         \/ \E size \in Size \cup {0} : io_output_add(o, size)
         \/ toplevel_close(o)
  PROVE  Leases'
<1>1. /\ out \in [Output -> Outputs] /\ device \in [Output -> Devices]
      /\ outputs \in Seq(Output) /\ Injective(outputs)
      /\ Seen(out, device) /\ out[o] \in Outputs
      /\ \A q \in Output \ Live : device[q] = Blank
  BY DEF IInv, Types, Leases
<1>2. Live \subseteq Output /\ Live = Range(outputs)
  BY <1>1 DEF Live, Range
<1>3. ASSUME NEW size \in Size, configure(o, size) PROVE Leases'
  <2> DEFINE r == [out[o] EXCEPT !.size = size, !.try_redraw = TRUE]
             f == Put(out, o, r)
  <2>1. /\ UNCHANGED <<backend, outputs, pool, commands, running, device>>
        /\ IF size = out[o].size THEN out' = f ELSE reflow_outputs(f, outputs, FALSE)
        /\ o \in Live
    BY <1>1, <1>3 DEF configure, Put
  <2>2. /\ r \in Outputs /\ r.size = size /\ r.viewport = out[o].viewport
        /\ r.current_image = out[o].current_image /\ r.pending_image = out[o].pending_image
        /\ r.release_slots = out[o].release_slots
    BY <1>1 DEF Outputs
  <2> HIDE DEF r
  <2>3. f[o] = r /\ \A q \in Output \ {o} : f[q] = out[q]
    BY <1>1 DEF Put
  <2> HIDE DEF f
  <2>4. \A q \in Output : /\ f[q].current_image = out[q].current_image
                          /\ f[q].pending_image = out[q].pending_image
                          /\ f[q].release_slots = out[q].release_slots
                          /\ f[q].viewport = out[q].viewport
    BY <2>2, <2>3
  <2>5. Seen(f, device')
    BY <1>1, <2>1, <2>4 DEF Seen
  <2>6. Live' = Live
    BY <2>1 DEF Live
  <2>7. CASE size = out[o].size
    <3>1. out' = f /\ \A q \in Output : f[q].size = out[q].size
      BY <2>1, <2>2, <2>3, <2>7
    <3>2. f \in [Output -> Outputs]
      BY <1>1, <2>2, PutOutputs DEF f
    <3>3. Placed(out', outputs')
      <4>1. Placed(out, outputs)
        BY DEF Leases
      <4> QED
        BY <1>1, <2>1, <2>4, <3>1, <4>1, PlacedStays
    <3>4. pool' \in Pools /\ InUse(pool', Held(out', commands'))
      <4>1. \A q \in Output : OfOutput(out', q) \subseteq OfOutput(out, q)
        BY <2>4, <3>1 DEF OfOutput
      <4>2. pool' \in {pool, Returned(pool, Held(out', commands'))} /\ commands' \subseteq commands
        BY <2>1
      <4> QED
        BY <3>1, <3>2, <4>1, <4>2, EndedLeases
    <3>5. Seen(out', device')
      BY <2>5, <3>1
    <3> QED
      BY <2>1, <2>6, <3>1, <3>2, <3>3, <3>4, <3>5 DEF Leases, Injective, Seen, InUse, Placed
  <2>8. CASE size # out[o].size
    <3>1. reflow_outputs(f, outputs, FALSE) /\ FALSE \in BOOLEAN
      BY <2>1, <2>8
    <3>2. OfOutput(f, o) \subseteq OfOutput(out, o)
      BY <2>4 DEF OfOutput
    <3>3. pool' \in {pool, Returned(pool, Held(out', commands'))}
      BY <2>1
    <3>4. \A q \in Output \ {o} : device'[q] = device[q]
      BY <2>1
    <3> QED
      BY <1>1, <2>1, <2>2, <2>5, <2>6, <3>1, <3>2, <3>3, <3>4, ReflowLeases DEF f
  <2> QED
    BY <2>7, <2>8
<1>4. ASSUME NEW size \in Size \cup {0}, io_output_add(o, size) PROVE Leases'
  <2> DEFINE r == Fresh(size)
             f == Put(out, o, r)
  <2>1. /\ o \notin Live /\ outputs' = Append(outputs, o)
        /\ reflow_outputs(f, outputs', TRUE) /\ TRUE \in BOOLEAN
        /\ UNCHANGED <<backend, pool, commands, running, device>>
    BY <1>4 DEF io_output_add, Put
  <2>2. /\ r \in Outputs /\ r.current_image = Null /\ r.pending_image = Null
        /\ r.release_slots = {}
    BY FreshLeases
  <2> HIDE DEF r
  <2>3. f[o] = r /\ \A q \in Output \ {o} : f[q] = out[q]
    BY <1>1 DEF Put
  <2> HIDE DEF f
  <2>4. OfOutput(f, o) = {}
    BY <2>2, <2>3 DEF OfOutput
  <2>5. device'[o] = Blank
    BY <1>1, <2>1
  <2>6. Seen(f, device')
    <3>1. /\ Blank.hosted = {} /\ Blank.released = {} /\ Blank.queued = Null
          /\ Blank.scanout = Null /\ Blank.flipped = FALSE
      BY DEF Blank
    <3> QED
      BY <1>1, <2>1, <2>2, <2>3, <2>5, <3>1 DEF Seen
  <2>7. outputs' \in Seq(Output) /\ Injective(outputs') /\ Range(outputs) \subseteq Range(outputs')
    <3>1. /\ DOMAIN outputs' = 1 .. Len(outputs) + 1 /\ DOMAIN outputs = 1 .. Len(outputs)
          /\ Len(outputs) \in Nat
          /\ outputs'[Len(outputs) + 1] = o
          /\ \A k \in 1 .. Len(outputs) : outputs'[k] = outputs[k]
      BY <1>1, <2>1
    <3>2. \A k \in 1 .. Len(outputs) : outputs[k] # o
      BY <1>2, <2>1, <3>1 DEF Range
    <3>3. Injective(outputs')
      BY <1>1, <3>1, <3>2 DEF Injective
    <3>4. Range(outputs) \subseteq Range(outputs')
      BY <3>1 DEF Range
    <3> QED
      BY <1>1, <2>1, <3>3, <3>4
  <2>8. pool' \in {pool, Returned(pool, Held(out', commands'))}
    BY <2>1
  <2>9. \A q \in Output \ {o} : device'[q] = device[q]
    BY <2>1
  <2> QED
    BY <2>1, <2>2, <2>4, <2>5, <2>6, <2>7, <2>8, <2>9, ReflowLeases DEF f
<1>5. CASE toplevel_close(o)
  <2> DEFINE r == Fresh(0)
             f == Put(out, o, r)
  <2>1. /\ o \in Live /\ outputs' = erase(outputs, o)
        /\ reflow_outputs(f, outputs', TRUE) /\ TRUE \in BOOLEAN
        /\ device' = [device EXCEPT ![o] = Blank]
        /\ pool' = Returned(pool, Held(out', commands))
        /\ UNCHANGED <<backend, commands, running>>
    BY <1>5 DEF toplevel_close, Put
  <2>2. /\ r \in Outputs /\ r.current_image = Null /\ r.pending_image = Null
        /\ r.release_slots = {}
    BY FreshLeases
  <2> HIDE DEF r
  <2>3. f[o] = r /\ \A q \in Output \ {o} : f[q] = out[q]
    BY <1>1 DEF Put
  <2> HIDE DEF f
  <2>4. OfOutput(f, o) = {}
    BY <2>2, <2>3 DEF OfOutput
  <2>5. device'[o] = Blank /\ \A q \in Output \ {o} : device'[q] = device[q]
    BY <1>1, <2>1
  <2>6. Seen(f, device')
    <3>1. /\ Blank.hosted = {} /\ Blank.released = {} /\ Blank.queued = Null
          /\ Blank.scanout = Null /\ Blank.flipped = FALSE
      BY DEF Blank
    <3> QED
      BY <1>1, <2>1, <2>2, <2>3, <2>5, <3>1 DEF Seen
  <2>7. /\ outputs' \in Seq(Output) /\ Injective(outputs')
        /\ Range(outputs) \subseteq Range(outputs') \cup {o}
    BY <1>1, <1>2, <2>1, EraseType, EraseKeeps
  <2>8. pool' \in {pool, Returned(pool, Held(out', commands'))}
    BY <2>1
  <2> QED
    BY <2>1, <2>2, <2>4, <2>5, <2>6, <2>7, <2>8, ReflowLeases DEF f
<1> QED
  BY <1>3, <1>4, <1>5

(* The other steps: leases end, and devices go on.                         *)
LEMMA DeviceLeases ==
  ASSUME IInv, Leases,
         \/ \E o \in Output : Flip(o) \/ \E i \in Image : release_image(o, i) \/ HostRelease(o, i)
         \/ \E i \in Image : GpuFinish(i) \/ commands_done(i)
  PROVE  Leases'
<1>1. /\ out \in [Output -> Outputs] /\ device \in [Output -> Devices]
      /\ Seen(out, device) /\ Paced(out, device)
      /\ running \subseteq commands /\ commands \subseteq Image
      /\ \A q \in Output \ Live : device[q] = Blank
  BY DEF IInv, Types, Leases
<1>2. /\ Blank.hosted = {} /\ Blank.released = {} /\ Blank.queued = Null
  BY DEF Blank
<1>3. ASSUME NEW o \in Output, Flip(o) PROVE Leases'
  <2> DEFINE e == [device[o] EXCEPT !.scanout = device[o].queued, !.queued = Null,
                                    !.flipped = TRUE]
  <2>1. /\ device[o].queued # Null /\ device' = [device EXCEPT ![o] = e]
        /\ UNCHANGED <<backend, outputs, out, pool, commands, running>>
    BY <1>3 DEF Flip
  <2>2. device[o] \in Devices
    BY <1>1
  <2>3. /\ e.scanout = device[o].queued /\ e.queued = Null /\ e.flipped = TRUE
        /\ e.hosted = device[o].hosted /\ e.released = device[o].released
    BY <2>2 DEF Devices
  <2> HIDE DEF e
  <2>4. device'[o] = e /\ \A q \in Output \ {o} : device'[q] = device[q]
    BY <1>1, <2>1
  <2>5. backend = "drm" /\ o \in Live
    BY <1>1, <1>2, <2>1 DEF Paced
  <2>6. Seen(out', device')
    BY <1>1, <2>1, <2>3, <2>4, <2>5 DEF Seen
  <2>7. Live' = Live
    BY <2>1 DEF Live
  <2> QED
    BY <1>1, <2>1, <2>4, <2>5, <2>6, <2>7 DEF Leases, Injective, Seen, InUse, Placed
<1>4. ASSUME NEW o \in Output, NEW i \in Image, HostRelease(o, i) PROVE Leases'
  <2> DEFINE e == [device[o] EXCEPT !.hosted = @ \ {i}, !.released = @ \cup {i}]
  <2>1. /\ i \in device[o].hosted /\ device' = [device EXCEPT ![o] = e]
        /\ UNCHANGED <<backend, outputs, out, pool, commands, running>>
    BY <1>1, <1>4 DEF HostRelease
  <2>2. device[o] \in Devices
    BY <1>1
  <2>3. /\ e.scanout = device[o].scanout /\ e.queued = device[o].queued
        /\ e.flipped = device[o].flipped
        /\ e.hosted = device[o].hosted \ {i} /\ e.released = device[o].released \cup {i}
    BY <2>2 DEF Devices
  <2> HIDE DEF e
  <2>4. device'[o] = e /\ \A q \in Output \ {o} : device'[q] = device[q]
    BY <1>1, <2>1
  <2>5. backend # "drm" /\ o \in Live
    BY <1>1, <1>2, <2>1 DEF Seen
  <2>6. Seen(out', device')
    BY <1>1, <2>1, <2>3, <2>4, <2>5 DEF Seen
  <2>7. Live' = Live
    BY <2>1 DEF Live
  <2> QED
    BY <1>1, <2>1, <2>4, <2>5, <2>6, <2>7 DEF Leases, Injective, Seen, InUse, Placed
<1>5. ASSUME NEW o \in Output, NEW i \in Image, release_image(o, i) PROVE Leases'
  <2> DEFINE r == [out[o] EXCEPT !.release_slots = @ \ {i}]
             e == [device[o] EXCEPT !.released = @ \ {i}]
  <2>1. /\ i \in device[o].released
        /\ out' = Put(out, o, r) /\ device' = [device EXCEPT ![o] = e]
        /\ pool' = Returned(pool, Held(out', commands))
        /\ UNCHANGED <<backend, outputs, commands, running>>
    BY <1>1, <1>5 DEF release_image, Put
  <2>2. device[o] \in Devices /\ out[o] \in Outputs
    BY <1>1
  <2>3. /\ r \in Outputs /\ r.size = out[o].size /\ r.viewport = out[o].viewport
        /\ r.current_image = out[o].current_image /\ r.pending_image = out[o].pending_image
        /\ r.release_slots = out[o].release_slots \ {i}
    BY <2>2 DEF Outputs
  <2>4. /\ e.scanout = device[o].scanout /\ e.queued = device[o].queued
        /\ e.flipped = device[o].flipped
        /\ e.hosted = device[o].hosted /\ e.released = device[o].released \ {i}
    BY <2>2 DEF Devices
  <2> HIDE DEF r, e
  <2>5. device'[o] = e /\ \A q \in Output \ {o} : device'[q] = device[q]
    BY <1>1, <2>1
  <2>6. out' \in [Output -> Outputs] /\ out'[o] = r /\ \A q \in Output \ {o} : out'[q] = out[q]
    BY <1>1, <2>1, <2>3 DEF Put
  <2>7. backend # "drm" /\ o \in Live /\ i \notin device[o].hosted
    BY <1>1, <1>2, <2>1 DEF Seen
  <2>8. Seen(out', device')
    BY <1>1, <2>1, <2>3, <2>4, <2>5, <2>6, <2>7 DEF Seen
  <2>9. pool' \in Pools /\ InUse(pool', Held(out', commands'))
    <3>1. \A q \in Output : OfOutput(out', q) \subseteq OfOutput(out, q)
      BY <2>3, <2>6 DEF OfOutput
    <3>2. pool' \in {pool, Returned(pool, Held(out', commands'))} /\ commands' \subseteq commands
      BY <2>1
    <3> QED
      BY <2>6, <3>1, <3>2, EndedLeases
  <2>10. Placed(out', outputs')
    <3>1. Placed(out, outputs) /\ outputs \in Seq(Output)
      BY DEF Leases, IInv, Types
    <3>2. \A q \in Output : out'[q].size = out[q].size /\ out'[q].viewport = out[q].viewport
      BY <2>3, <2>6
    <3> QED
      BY <2>1, <3>1, <3>2, PlacedStays
  <2>11. \A q \in Output \ Live' : device'[q] = Blank
    <3>1. Live' = Live
      BY <2>1 DEF Live
    <3> QED
      BY <1>1, <2>5, <2>7, <3>1
  <2>12. /\ backend' = backend /\ backend' \in Backend /\ Injective(outputs')
         /\ running' \subseteq commands' /\ commands' \subseteq Image
    BY <2>1 DEF Leases
  <2> QED
    BY <2>6, <2>8, <2>9, <2>10, <2>11, <2>12 DEF Leases, Injective, Seen, InUse, Placed
<1>6. ASSUME NEW i \in Image, GpuFinish(i) \/ commands_done(i) PROVE Leases'
  <2>1. /\ UNCHANGED <<backend, outputs, out, device>>
        /\ pool' \in {pool, Returned(pool, Held(out', commands'))}
        /\ commands' \subseteq commands /\ running' \subseteq commands'
    BY <1>1, <1>6 DEF GpuFinish, commands_done
  <2>2. pool' \in Pools /\ InUse(pool', Held(out', commands'))
    <3>1. \A q \in Output : OfOutput(out', q) \subseteq OfOutput(out, q)
      BY <2>1
    <3> QED
      BY <1>1, <2>1, <3>1, EndedLeases
  <2>3. Live' = Live /\ commands' \subseteq Image
    BY <1>1, <2>1 DEF Live
  <2> QED
    BY <1>1, <2>1, <2>2, <2>3 DEF Leases, Injective, Seen, InUse, Placed
<1> QED
  BY <1>3, <1>4, <1>5, <1>6

(* Every step keeps the leases.                                            *)
LEMMA NextKeepsLeases == IInv /\ Leases /\ [Next]_vars => Leases'
<1> SUFFICES ASSUME IInv, Leases, [Next]_vars PROVE Leases'
  OBVIOUS
<1>1. CASE handle_damage \/ commit_frame_callbacks \/ ui_request_frame
  BY <1>1, RequestLeases
<1>2. ASSUME NEW o \in Output, try_redraw(o) \/ on_page_flip(o) \/ on_present_frame(o)
      PROVE  Leases'
  BY <1>2, RedrawingKeepsLeases
<1>3. ASSUME NEW o \in Output,
             \/ \E size \in Size : configure(o, size) \/ add_output(o, size)
             \/ create_output(o) \/ toplevel_close(o)
      PROVE  Leases'
  <2>1. \/ \E size \in Size : configure(o, size)
        \/ \E size \in Size \cup {0} : io_output_add(o, size)
        \/ toplevel_close(o)
    BY <1>3 DEF add_output, create_output
  <2> QED
    BY <2>1, LayoutKeepsLeases
<1>4. CASE \/ \E o \in Output : Flip(o) \/ \E i \in Image : release_image(o, i) \/ HostRelease(o, i)
           \/ \E i \in Image : GpuFinish(i) \/ commands_done(i)
  BY <1>4, DeviceLeases
<1>5. CASE UNCHANGED vars
  BY <1>5 DEF vars, Leases, Live, Injective, Seen, InUse, Placed, Held
<1> QED
  BY <1>1, <1>2, <1>3, <1>4, <1>5 DEF Next

(* Every lease is where it belongs, and every output has its place.        *)
THEOREM LeasesAreKept == Spec => []Leases
<1> QED
  BY Invariance, InitLeases, NextKeepsLeases, PTL DEF Spec, SafeSpec

(* The list of outputs has each of them once.                              *)
LEMMA LengthIsCardinality ==
  ASSUME NEW order \in Seq(Output), Injective(order)
  PROVE  Len(order) = Cardinality(Range(order))
<1>1. order \in Bijection(1 .. Len(order), Range(order))
  <2>1. Len(order) \in Nat /\ DOMAIN order = 1 .. Len(order)
    OBVIOUS
  <2>2. order \in [1 .. Len(order) -> Range(order)]
    BY <2>1 DEF Range
  <2>3. order \in Surjection(1 .. Len(order), Range(order))
    BY <2>1, <2>2 DEF Surjection, Range
  <2>4. order \in Injection(1 .. Len(order), Range(order))
    BY <2>1, <2>2 DEF Injection, IsInjective, Injective
  <2> QED
    BY <2>3, <2>4 DEF Bijection
<1>2. ExistsBijection(1 .. Len(order), Range(order)) /\ Len(order) \in Nat
  BY <1>1 DEF ExistsBijection
<1> QED
  BY <1>2, FS_CountingElements

(* No image is drawn into, or freed, while the GPU draws it, the kernel    *)
(* shows it or the host may read it (gpu/image-pool.cpp, io/drm/output.cpp *)
(* and io/wayland/output.cpp), for any number of outputs and images.       *)
THEOREM PoolImagesAreIdle == Spec => []FreeIsIdle
<1>1. IInv /\ Leases => FreeIsIdle
  <2> SUFFICES ASSUME IInv, Leases PROVE FreeIsIdle
    OBVIOUS
  <2>1. /\ out \in [Output -> Outputs] /\ device \in [Output -> Devices]
        /\ pool \in Pools /\ running \subseteq commands /\ commands \subseteq Image
        /\ InUse(pool, Held(out, commands)) /\ Seen(out, device)
        /\ outputs \in Seq(Output) /\ Injective(outputs)
    BY DEF IInv, Types, Leases
  <2>2. Live \subseteq Output /\ Len(outputs) = Cardinality(Live)
    BY <2>1, LengthIsCardinality DEF Live, Range
  <2>3. TypeOK
    <3>1. pool.images \subseteq Image /\ pool.extent \in [Image -> Size \cup {0}]
      BY <2>1 DEF Pools
    <3>2. /\ owed \in BOOLEAN /\ pumps \in 0 .. 2 /\ shown \in [Output -> BOOLEAN]
          /\ backend \in Backend
      BY DEF IInv, Types, Leases
    <3> QED
      BY <2>1, <2>2, <3>1, <3>2 DEF TypeOK
  <2>4. ASSUME NEW i \in Image, i \in pool.images \/ pool.extent[i] = 0
        PROVE  /\ i \notin running
               /\ \A o \in Live : /\ i \notin {device[o].scanout, device[o].queued}
                                  /\ i \notin device[o].hosted
    <3>1. i \notin Held(out, commands) /\ i # Null
      BY <2>1, <2>4, NullAssumption DEF InUse
    <3>2. /\ commands \subseteq Held(out, commands)
          /\ \A o \in Output : OfOutput(out, o) \subseteq Held(out, commands)
      BY <2>1, HeldIs
    <3>3. ASSUME NEW o \in Live
          PROVE  /\ i \notin {device[o].scanout, device[o].queued}
                 /\ i \notin device[o].hosted
      <4>1. o \in Output /\ i \notin OfOutput(out, o)
        BY <2>2, <3>1, <3>2
      <4>2. /\ device[o].scanout \in {Null, out[o].pending_image, out[o].current_image}
            /\ device[o].queued \in {Null, out[o].pending_image}
            /\ device[o].hosted \subseteq out[o].release_slots
        <5>1. CASE backend = "drm"
          BY <2>1, <4>1, <5>1 DEF Seen
        <5>2. CASE backend # "drm"
          <6>1. Paced(out, device)
            BY DEF IInv
          <6> QED
            BY <2>1, <4>1, <5>2, <6>1 DEF Seen, Paced
        <5> QED
          BY <5>1, <5>2
      <4> QED
        BY <3>1, <4>1, <4>2 DEF OfOutput
    <3> QED
      BY <2>1, <3>1, <3>2, <3>3
  <2> QED
    BY <2>3, <2>4 DEF FreeIsIdle
<1> QED
  BY Invariance, LeasesAreKept, <1>1, PTL

(* Every output stands where the row has room for it, whatever was added,  *)
(* resized or closed, and one that is not up to date has asked for a frame *)
(* (wm/io.cpp reflow_outputs, io/output.cpp), for any number of outputs.   *)
THEOREM OutputsAlwaysFollow == Spec => []OutputsFollow
<1>1. Leases => LayoutTight
  BY DEF Leases, Placed, LayoutTight
<1>2. StaleIsRequested /\ RequestNotForgotten /\ LayoutTight => OutputsFollow
  BY DEF OutputsFollow
<1> QED
  BY LeasesAreKept, RequestsAreKept, <1>1, <1>2, PTL

===============================================================================
