------------------------------- MODULE Buffers -------------------------------
(****************************************************************************)
(* Partial repaints: which parts of the screen a frame paints, when the     *)
(* buffer it is painted to holds a frame shown some swaps ago.              *)
(*                                                                          *)
(* A part of the screen is stale in a buffer when it changed, or was lost,  *)
(* after the buffer's frame was painted.  compton adds up the damage since  *)
(* the last frame, and with OpenGL keeps the damage of the frames before.   *)
(* Whether the sum is enough depends on what the driver left in the buffer. *)
(****************************************************************************)
EXTENDS Integers

CONSTANTS
  Area,      \* the parts of the screen
  MaxAge     \* CGLX_MAX_BUFFER_AGE

ASSUME MaxAgeAssumption == MaxAge \in Nat \ {0}

VARIABLES
  cfg,           \* glx_swap_method, glx_copy_from_front; partial: only what is
                 \* painted is shown, by X Render or glXCopySubBufferMESA
  started,       \* session_run painted its first frame
  psRedirected,  \* ps->redirected
  damage,        \* ps->all_damage
  last,          \* ps->all_damage_last
  hist           \* the stale parts of the frame shown n-1 swaps ago: hist[1] is
                 \* on the screen
buffersVars == <<cfg, started, psRedirected, damage, last, hist>>

SWAPM_BUFFER_AGE == -1
Ages == 1 .. MaxAge + 1
None == [kept |-> FALSE, area |-> {}]
Kept(S) == [kept |-> TRUE, area |-> S]
Forgotten == [i \in 0 .. MaxAge - 1 |-> None]
Lost == [n \in Ages |-> Area]

Config ==
  [method : SWAPM_BUFFER_AGE .. MaxAge + 1, copyfront : BOOLEAN, partial : BOOLEAN]

BuffersInit ==
  /\ cfg \in Config
  /\ started = FALSE
  /\ psRedirected = FALSE
  /\ damage = {}
  /\ last = Forgotten
  /\ hist = Lost

------------------------------------------------------------------------------
(* Painting a frame.                                                        *)

(* What the driver has for the frame: the user's promise, or the age of the *)
(* buffer, 0 when the driver does not know.                                 *)
DriverAge ==
  IF cfg.method = SWAPM_BUFFER_AGE THEN 0 .. MaxAge + 2 ELSE {cfg.method}
Content(h, age) == IF age \in Ages THEN h[age] ELSE Area

(* Mutant of Known: the damage of one frame too few is asked for.           *)
KnownShort(age) ==
  /\ age \in Ages
  /\ age > 2 => \A i \in 0 .. age - 3 : last[i].kept

(* Whether what the buffer lacks is known.                                  *)
Known(age) ==
  /\ age \in Ages
  /\ age > 1 => \A i \in 0 .. age - 2 : last[i].kept
BufferAge(age) == IF Known(age) THEN age ELSE 0

(* Mutant of Older: the oldest frame is left out.                           *)
OlderShort(age) == UNION {last[i].area : i \in 0 .. age - 3}

(* The damage of the frames shown since the buffer's own.                   *)
Older(age) == UNION {last[i].area : i \in 0 .. age - 2}

(* glx_paint_pre(): what is copied from the front buffer, and painted.      *)
Copied(d, age) ==
  IF ~cfg.copyfront \/ age = 1 THEN {}
  ELSE (IF age = 0 THEN Area ELSE Older(age)) \ d

(* Mutant of Painted: what the buffer lacks is not painted.                 *)
PaintedLess(d, age) == IF cfg.copyfront \/ age >= 1 THEN d ELSE Area

Painted(d, age) ==
  IF cfg.copyfront \/ age = 1 THEN d
  ELSE IF age = 0 THEN Area ELSE d \cup Older(age)

Drawn(h, d, k) ==
  LET copied == Copied(d, BufferAge(k))
  IN  ((Content(h, k) \ copied) \cup (h[1] \cap copied)) \ Painted(d, BufferAge(k))

(* The damage of a frame is kept when the swap method may need it.          *)
Shifted(region) ==
  IF cfg.method \in {0, 1} THEN last
  ELSE [i \in 0 .. MaxAge - 1 |-> IF i = 0 THEN region ELSE last[i - 1]]

Swapped(h, drawn) == [n \in Ages |-> IF n = 1 THEN drawn ELSE h[n - 1]]

(* paint_all() with the region d, of buffers h.                             *)
PaintAll(h, d) ==
  /\ last' = Shifted(Kept(d))
  /\ IF cfg.partial
     THEN hist' = [h EXCEPT ![1] = @ \ d]
     ELSE \E k \in DriverAge : hist' = Swapped(h, Drawn(h, d, k))

(* paint_all() without a region: the whole screen, and its damage unknown.  *)
PaintWhole(h) ==
  /\ last' = Shifted(None)
  /\ hist' = IF cfg.partial THEN [h EXCEPT ![1] = {}] ELSE Swapped(h, {})

------------------------------------------------------------------------------
(* Mutant of AddDamage: damage is kept while the screen is not redirected.  *)
AddDamageAlways(S) == damage' = damage \cup S

(* add_damage(), whose region the server may find to be empty.              *)
AddDamage(S) == damage' = IF psRedirected THEN damage \cup S ELSE damage

Stale(S) == hist' = [n \in Ages |-> hist[n] \cup S]

(* The first frame of session_run(): paint_preprocess() redirected the      *)
(* screen, or not yet.  The damage of redir_start() stays.                  *)
Start ==
  /\ ~started
  /\ started' = TRUE
  /\ \/ /\ psRedirected' = TRUE
        /\ damage' = Area
        /\ PaintWhole(hist)
     \/ UNCHANGED <<psRedirected, damage, last, hist>>
  /\ UNCHANGED cfg

(* A window draws on S.                                                     *)
Draw(S) ==
  /\ started
  /\ AddDamage(S)
  /\ Stale(S)
  /\ UNCHANGED <<cfg, started, psRedirected, last>>

(* Mutant of Exposed: the damage of earlier frames is still trusted, and    *)
(* none is added.                                                           *)
ExposedOnly(S) == damage' = damage /\ last' = last

(* expose_root(): what the older buffers have of it is not known either.    *)
Exposed(S) == AddDamage(S) /\ last' = Forgotten

(* The server lost S: on the screen, and maybe in the older buffers.        *)
Expose(S) ==
  /\ started
  /\ Exposed(S)
  /\ Stale(S)
  /\ UNCHANGED <<cfg, started, psRedirected>>

(* configure_win() of the root: no buffer survives its new size.            *)
RootChange ==
  /\ started
  /\ hist' = Lost
  /\ last' = Forgotten
  /\ AddDamage(Area)
  /\ UNCHANGED <<cfg, started, psRedirected>>

(* A cycle of session_run() with damage.                                    *)
Paint ==
  /\ started /\ psRedirected /\ damage # {}
  /\ PaintAll(hist, damage)
  /\ damage' = {}
  /\ UNCHANGED <<cfg, started, psRedirected>>

(* A cycle that redirects the screen again: the buffers are those of        *)
(* another time.                                                            *)
RedirectAgain ==
  /\ started /\ ~psRedirected
  /\ psRedirected' = TRUE
  /\ PaintAll(Lost, Area)
  /\ damage' = {}
  /\ UNCHANGED <<cfg, started>>

(* A cycle that stops redirecting it, and throws the damage away.           *)
Unredirect ==
  /\ started /\ psRedirected
  /\ psRedirected' = FALSE
  /\ damage' = {}
  /\ UNCHANGED <<cfg, started, last, hist>>

BuffersNext ==
  \/ Start \/ Paint \/ RedirectAgain \/ Unredirect \/ RootChange
  \/ \E S \in SUBSET Area : Draw(S) \/ Expose(S)

(* A cycle paints once mainloop() has no event left to handle.              *)
BuffersSpec == BuffersInit /\ [][BuffersNext]_buffersVars /\ WF_buffersVars(Paint)

------------------------------------------------------------------------------
(* The variables keep their types, and no damage is added up while nothing  *)
(* is painted: add_damage() ignores it, session_run() throws it away.       *)
BuffersTypeOK ==
  /\ cfg \in Config
  /\ started \in BOOLEAN
  /\ psRedirected \in BOOLEAN
  /\ damage \in SUBSET Area
  /\ last \in [0 .. MaxAge - 1 -> [kept : BOOLEAN, area : SUBSET Area]]
  /\ hist \in [Ages -> SUBSET Area]
  /\ (~psRedirected => damage = {})

(* While the screen is redirected, what is stale on it is damaged, so that  *)
(* the next frame paints it; and what is stale in an older buffer is        *)
(* damaged or in the damage that was kept of each frame since               *)
(* (glx_paint_pre(), free_all_damage_last()).                               *)
BackCovered ==
  psRedirected =>
    /\ hist[1] \subseteq damage
    /\ ~cfg.partial =>
         \A n \in Ages : Known(n) => hist[n] \subseteq damage \cup Older(n)

(* What a user sees: with the screen redirected, what is on it; otherwise   *)
(* the windows themselves.                                                  *)
Abstract == INSTANCE Screen WITH stale <- IF psRedirected THEN hist[1] ELSE {}

(* Every frame shows the whole screen as it is, however little of it was    *)
(* painted and whatever buffer it was painted to, and what is stale is      *)
(* shown in the end: Screen's promise is kept.                              *)
Implements == Abstract!Spec
==============================================================================
