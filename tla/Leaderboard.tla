----------------------------- MODULE Leaderboard -----------------------------
(***************************************************************************)
(* The Leaderboard view (modal/leaderboard_view.cpp) with the board it     *)
(* caches, its one cursor moved by name, by number and by arrows, the      *)
(* Report popup and panel, and the service-outage banner above it.  Keys   *)
(* act when they arrive; clicks, typed text and deferred requests act in   *)
(* the next frame, in the order the view is drawn.                         *)
(*                                                                         *)
(* The record view holds                                                   *)
(*   open         the view is up                                           *)
(*   loaded, ok, rows  the cached answer: whose row is at which rank       *)
(*   search       the filter: <<>> or the set of names the text matches    *)
(*   highlight, saved  the cursor and the place remembered for it          *)
(*   number, age  the digits typed so far and the time since the last one  *)
(*   popup        the rank the Report popup is anchored to                 *)
(*   panel, reported, reasons, closing, submitting  the Report panel, whom *)
(*                it is about and its two deferred requests                *)
(*   at, kbd      the focused stop, and whether the keyboard was ever used *)
(*   caret, synced  the text field that gets the keys, and the text field  *)
(*                it was last reconciled with                              *)
(***************************************************************************)
EXTENDS Banner, FiniteSets, FiniteSetsExt

CONSTANTS
  Names,      \* players
  Answers,    \* what a fetch may bring: [status, objects], the objects' fields possibly absent
  Statuses,   \* the statuses a report may be answered with
  Queries,    \* texts typed in the search field, as the names they match
  Window,     \* units of time within which digits make up one number
  Digits,     \* the digit keys tried, a subset of 0 .. 9
  MaxNumber   \* bound: the largest number typed

NoRank == -1          \* also an object without a rank
Nobody == "nobody"    \* also an object without a name

ASSUME BoardAssumption ==
  /\ \A a \in Answers : \A o \in a.objects :
       o.rank \in 1 .. 100 \cup {NoRank} /\ o.name \in Names \cup {Nobody}
  /\ \A a \in Answers : \A o, p \in a.objects : o.rank = p.rank => o = p
  /\ Queries \subseteq SUBSET Names /\ Nobody \notin Names
  /\ Window \in Nat /\ Digits \subseteq 0 .. 9 /\ MaxNumber \in Nat

VARIABLES
  view,       \* see above
  self,       \* Guest, OptedIn or OptedOut: the account behind the last row
  sent,       \* the report this step hands to the server, with its sender
  typed,      \* history: the number the user has typed, and the time since
  meant       \* history: whom the popup was opened on, Nobody once the board is refetched

vars == <<view, self, sent, typed, meant, banner>>

\* Whose row the last one is.
Selves == {"Guest", "OptedIn", "OptedOut"}

BoardStops == <<"Shop", "Search", "List", "YourRow", "Close">>
ReportStops == <<"UsernameReason", "CheatingReason", "Comment", "Submit", "ReportClose">>
TextFields == {"Search", "Comment"}
ReasonOf == [UsernameReason |-> "Username", CheatingReason |-> "Cheating"]

\* No number is being typed; Unknown is one begun on a board that was refetched since.
Unknown == -2
NothingTyped == [number |-> NoRank, age |-> 0]
NothingSent == [who |-> Nobody, reasons |-> {}, by |-> "Guest"]

\* supabase_write_ok, parse_leaderboard_response: an object with a field missing is skipped,
\* so that the ranks may have gaps.
Succeeded(status) == status \in 200 .. 299
Parsed(answer) ==
  LET entries == {o \in answer.objects : o.rank # NoRank /\ o.name # Nobody}
  IN  IF Succeeded(answer.status)
      THEN [ok |-> TRUE,
            rows |-> [r \in {o.rank : o \in entries} |-> (CHOOSE o \in entries : o.rank = r).name]]
      ELSE [ok |-> FALSE, rows |-> <<>>]

\* report_submit_result: the daily cap is a status of its own.
ReportSubmitResult(status) ==
  IF Succeeded(status) THEN "Ok" ELSE IF status = 429 THEN "RateLimited" ELSE "Failed"

FetchedBoards == {Parsed(a) : a \in Answers}
ReportOutcomes == {"Unasked"} \cup {ReportSubmitResult(s) : s \in Statuses}

Stops(v) == IF v.panel THEN ReportStops ELSE BoardStops
Focused(v) == IF v.kbd THEN v.at ELSE "None"

\* snap_focus_to and advance_focus, in the context the view has pushed.
Snap(v, stop) ==
  IF \E i \in 1 .. 5 : Stops(v)[i] = stop THEN [v EXCEPT !.at = stop, !.kbd = TRUE] ELSE v
Advance(v, by) ==
  LET i == CHOOSE j \in 1 .. 5 : Stops(v)[j] = v.at
  IN  [v EXCEPT !.at = Stops(v)[((i - 1 + by) % 5) + 1], !.kbd = TRUE]

(* ------------------------------ the cursor ------------------------------- *)

Ranks(v) == DOMAIN v.rows
Clamp(v, n) == IF n < Min(Ranks(v)) THEN Min(Ranks(v)) ELSE IF n > Max(Ranks(v)) THEN Max(Ranks(v)) ELSE n

\* The filter leaves these rows; leaderboard_highest_match is the best of them.
Matches(v) == {r \in Ranks(v) : v.search = <<>> \/ v.rows[r] \in v.search[1]}

\* leaderboard_handoff_rank
HandoffRank(v) ==
  IF Ranks(v) = {} THEN NoRank
  ELSE IF Matches(v) # {} THEN Min(Matches(v)) ELSE Min(Ranks(v))

Fresh(v) == v.number = NoRank \/ v.age > Window
ForgetDigits(v) == [v EXCEPT !.number = NoRank, !.age = 0]

\* Mutant: a digit after the window still continues the number.
RankJumpDigitBug(v, d) ==
  IF v.number = NoRank
  THEN IF d = 0 THEN ForgetDigits(v)
       ELSE [v EXCEPT !.number = d, !.age = 0, !.highlight = Clamp(v, d)]
  ELSE LET n == Min({v.number * 10 + d, Max(Ranks(v)) + 1})
       IN  [v EXCEPT !.number = n, !.age = 0, !.highlight = Clamp(v, n)]

\* rank_jump_digit: a leading 0 starts nothing; past the last rank the number stops growing.
RankJumpDigit(v, d) ==
  IF Fresh(v) /\ d = 0 THEN ForgetDigits(v)
  ELSE LET n == IF Fresh(v) THEN d ELSE Min({v.number * 10 + d, Max(Ranks(v)) + 1})
       IN  [v EXCEPT !.number = n, !.age = 0, !.highlight = Clamp(v, n)]

\* rank_jump_arrow, and the arrow ends the number.
RankJumpArrow(v, by) ==
  [ForgetDigits(v) EXCEPT
     !.highlight = IF @ < Min(Ranks(v)) THEN Min(Ranks(v)) ELSE Clamp(v, @ + by)]

\* commit_search_to_list: Enter and forward Tab in the search field.
CommitSearch(v) ==
  LET landing == IF v.search = <<>> /\ v.saved # NoRank THEN v.saved ELSE HandoffRank(v)
  IN  Snap([ForgetDigits(v) EXCEPT !.search = <<>>, !.highlight = landing], "List")

\* A click on a row, left or right.
PointAt(v, rank) == Snap([ForgetDigits(v) EXCEPT !.search = <<>>, !.highlight = rank], "List")

(* ------------------------- the Report popup and panel -------------------- *)

NameAt(v, rank) == IF rank \in Ranks(v) THEN v.rows[rank] ELSE Nobody

\* Mutant: the panel opens even when the row is gone.
OpenReportPanelBug(v) ==
  [v EXCEPT !.reported = NameAt(v, v.popup), !.reasons = {}, !.closing = FALSE,
            !.submitting = FALSE, !.popup = NoRank, !.panel = TRUE,
            !.at = "UsernameReason", !.synced = "None"]

\* open_report_panel: whose row is at the popup's rank now; with the row gone nothing opens.
\* The digits typed so far stay.
OpenReportPanel(v) ==
  IF NameAt(v, v.popup) = Nobody THEN v
  ELSE [v EXCEPT !.reported = NameAt(v, v.popup), !.reasons = {}, !.closing = FALSE,
                 !.submitting = FALSE, !.popup = NoRank, !.panel = TRUE,
                 !.at = "UsernameReason", !.synced = "None"]

\* close_report_panel_impl; what the next opening overwrites is forgotten here.
CloseReportPanel(v) ==
  [v EXCEPT !.panel = FALSE, !.closing = FALSE, !.submitting = FALSE, !.at = "List", !.synced = "None",
            !.reported = Nobody, !.reasons = {}]

SubmitEnabled(v) == v.reasons # {} /\ self # "Guest"

\* Space or Enter on a stop of the panel.
ActivateReportStop(v) ==
  CASE Focused(v) \in DOMAIN ReasonOf ->
         LET r == ReasonOf[Focused(v)]
         IN  [v EXCEPT !.reasons = IF r \in @ THEN @ \ {r} ELSE @ \cup {r}]
    [] Focused(v) = "Submit" -> IF SubmitEnabled(v) THEN [v EXCEPT !.submitting = TRUE] ELSE v
    [] Focused(v) = "ReportClose" -> [v EXCEPT !.closing = TRUE]
    [] OTHER -> v

(* -------------------------- opening and leaving -------------------------- *)

\* open_leaderboard_modal and leaderboard_on_open; the cached rows stay until the fetch.
Opening(v) ==
  [ForgetDigits(v) EXCEPT
     !.open = TRUE, !.loaded = FALSE, !.search = <<>>, !.highlight = NoRank,
     !.saved = NoRank, !.popup = NoRank, !.panel = FALSE, !.closing = FALSE, !.submitting = FALSE,
     !.at = "Shop", !.synced = "None"]

\* close_modal, from whatever closes the view.  What the next opening sets anyway is
\* forgotten here; the cached rows are not.
Leaving(v) ==
  [Opening(v) EXCEPT !.open = FALSE, !.reported = Nobody, !.reasons = {},
                     !.caret = "None"]

Closed ==
  [open |-> FALSE, loaded |-> FALSE, ok |-> FALSE, rows |-> <<>>, search |-> <<>>,
   highlight |-> NoRank, saved |-> NoRank, number |-> NoRank, age |-> 0, popup |-> NoRank,
   panel |-> FALSE, reported |-> Nobody, reasons |-> {}, closing |-> FALSE, submitting |-> FALSE,
   at |-> "Shop", kbd |-> FALSE, caret |-> "None", synced |-> "None"]

Init ==
  /\ view = Closed
  /\ self \in Selves
  /\ sent = NothingSent
  /\ typed = NothingTyped
  /\ meant = Nobody
  /\ BannerInit

(* --------------------------------- keys ---------------------------------- *)

\* What the cursor's other moves do to the number being typed.
EndsNumber == typed' = NothingTyped

\* The next view; whom the popup was opened on is kept while popup or panel is up.
Goes(v) == view' = v
Keep(who) == meant' = IF view'.popup = NoRank /\ ~view'.panel THEN Nobody ELSE who
Stay == sent' = NothingSent /\ Keep(meant) /\ UNCHANGED <<self, banner>>

Open == ~view.open /\ Goes(Opening(view)) /\ EndsNumber /\ Stay

\* The list remembers its place when Tab leaves it; forward it also clears the cursor.
LeaveList(v, reverse) ==
  IF reverse THEN [v EXCEPT !.saved = v.highlight]
  ELSE [ForgetDigits(v) EXCEPT !.saved = v.highlight, !.highlight = NoRank]

\* Shift-Tab from the last row goes back to the remembered place.
BackToList(v) == IF v.saved = NoRank THEN v ELSE [v EXCEPT !.highlight = v.saved]

\* Tab and Shift-Tab: leaderboard_dispatch_key, then advance_focus.
TabKey(reverse) ==
  LET by == IF reverse THEN 4 ELSE 1
      f == Focused(view)
      commits == ~view.panel /\ f = "Search" /\ ~reverse
      leaves == ~view.panel /\ f = "List" /\ Ranks(view) # {}
      back == ~view.panel /\ f = "YourRow" /\ reverse
  IN  /\ view.open
      /\ Goes(CASE commits -> CommitSearch(view)
                [] leaves -> Advance(LeaveList(view, reverse), by)
                [] back -> Advance(BackToList(view), by)
                [] OTHER -> Advance(view, by))
      /\ IF commits \/ (leaves /\ ~reverse) THEN EndsNumber ELSE UNCHANGED typed
      /\ Stay

\* A key that reaches the list: no text field has the caret.
OnList == view.open /\ ~view.panel /\ view.caret = "None" /\ Focused(view) = "List" /\ Ranks(view) # {}

\* Bound: under a message the user types no number and no filter and reports nobody (none of
\* the three reads the banner), and under the panel types no filter.
Quiet == ~BannerVisible(banner)

\* Bound: the user fills in no report after typing a number (neither reads the other), but
\* does open and close the panel.
NoNumber == typed = NothingTyped

\* The user's own idea of the number: digits less than a window apart.
Number(d) ==
  IF typed.number = NoRank \/ typed.age > Window
  THEN IF d = 0 THEN NothingTyped ELSE [number |-> d, age |-> 0]
  ELSE [number |-> IF typed.number = Unknown THEN Unknown ELSE typed.number * 10 + d, age |-> 0]

DigitKey(d) ==
  /\ OnList /\ Quiet /\ Number(d).number <= MaxNumber
  /\ Goes(RankJumpDigit(view, d))
  /\ typed' = Number(d)
  /\ Stay

ArrowKey(by) == OnList /\ Goes(RankJumpArrow(view, by)) /\ EndsNumber /\ Stay

\* open_report_popup on the highlighted row.
ReportKey ==
  /\ OnList /\ Quiet /\ view.highlight >= Min(Ranks(view))
  /\ Goes([view EXCEPT !.popup = view.highlight])
  /\ Keep(NameAt(view, view.highlight))
  /\ sent' = NothingSent /\ UNCHANGED <<self, typed, banner>>

\* The guest's links: the board is closed first, then Auth0 is asked; a failed check
\* shows the banner and nothing else.
SignInOrUp == {banner, Trigger(banner)}

\* The opt-in is saved at once and the board fetched again in the next frame.
OptIn(v) == [v EXCEPT !.loaded = FALSE]

\* your_row_key: Enter opens the chosen link, 1 and 2 their own; the arrows only choose.
YourRowLink ==
  /\ view.open /\ ~view.panel /\ Focused(view) = "YourRow" /\ self = "Guest"
  /\ Goes(Leaving(view)) /\ EndsNumber
  /\ banner' \in SignInOrUp
  /\ Keep(meant) /\ sent' = NothingSent /\ UNCHANGED self

\* Enter (Space, when no text field has the caret) on a stop of the board.
ActivateKey ==
  /\ view.open /\ ~view.panel
  /\ CASE Focused(view) \in {"Shop", "Close"} -> Goes(Leaving(view)) /\ EndsNumber
       [] Focused(view) = "List" ->
            /\ Ranks(view) # {} /\ view.popup # NoRank /\ view.popup = view.highlight
            /\ Goes(OpenReportPanel(view)) /\ UNCHANGED typed
       [] Focused(view) = "YourRow" ->
            /\ self = "OptedOut" /\ Goes(OptIn(view)) /\ UNCHANGED typed
       [] OTHER -> FALSE
  /\ self' = IF Focused(view) = "YourRow" THEN "OptedIn" ELSE self
  /\ Keep(meant) /\ sent' = NothingSent /\ UNCHANGED banner

PanelKey ==
  /\ view.open /\ view.panel
  /\ Focused(view) \in DOMAIN ReasonOf => NoNumber
  /\ Goes(ActivateReportStop(view))
  /\ UNCHANGED typed /\ Stay

\* Escape closes the panel, in the next frame, or the view.
EscapeKey ==
  /\ view.open
  /\ Goes(IF view.panel THEN [view EXCEPT !.closing = TRUE] ELSE Leaving(view))
  /\ IF view.panel THEN UNCHANGED typed ELSE EndsNumber
  /\ Stay

(* --------------------------------- frames -------------------------------- *)

\* The fetch, once after each opening, opt-in and Retry.
Loaded(v, board) ==
  IF v.loaded THEN v ELSE [v EXCEPT !.loaded = TRUE, !.ok = board.ok, !.rows = board.rows]

\* begin_focus_reconcile: a stop that is no text field takes the caret away in every
\* frame, a text field gets it when the focus has just come to it.
Reconciled(v) ==
  LET f == Focused(v)
  IN  CASE f \in TextFields /\ f # v.synced -> [v EXCEPT !.caret = f]
        [] f \notin TextFields \cup {"None"} -> [v EXCEPT !.caret = "None"]
        [] OTHER -> v

Synced(v) == [v EXCEPT !.synced = IF Focused(v) \in TextFields THEN Focused(v) ELSE "None"]

\* Clicks on the board, and what the field under the caret received.
BoardInputs(v) ==
  [kind : {"None", "Search", "Outside", "Leave"}, arg : {"-"}]
    \cup (IF v.caret = "Search" THEN [kind : {"Type"}, arg : Queries \cup {{}}] \cup [kind : {"Enter"}, arg : {"-"}]
          ELSE {})
    \cup (IF v.ok /\ ~v.panel THEN [kind : {"Row", "Report"}, arg : Matches(v)] ELSE {})
    \cup (IF v.ok THEN {} ELSE [kind : {"Retry"}, arg : {"-"}])
    \cup (IF self = "OptedOut" THEN [kind : {"OptIn"}, arg : {"-"}] ELSE {})
    \cup (IF v.panel
          THEN [kind : {"Reason"}, arg : {"UsernameReason", "CheatingReason"}]
                 \cup [kind : {"Comment", "PanelX"}, arg : {"-"}]
                 \cup (IF SubmitEnabled(v) THEN [kind : {"Submit"}, arg : {"-"}] ELSE {})
          ELSE IF v.popup # NoRank THEN [kind : {"Popup"}, arg : {"-"}] ELSE {})

Clicked(v, in) ==
  CASE in.kind = "Search" -> Snap([v EXCEPT !.caret = "Search"], "Search")
    [] in.kind = "Type" -> [v EXCEPT !.search = IF in.arg = {} THEN <<>> ELSE <<in.arg>>]
    [] in.kind = "Enter" -> CommitSearch([v EXCEPT !.caret = "None"])
    [] in.kind = "Row" -> PointAt([v EXCEPT !.caret = "None"], in.arg)
    [] in.kind = "Report" -> [PointAt([v EXCEPT !.caret = "None"], in.arg) EXCEPT !.popup = in.arg]
    [] in.kind \in {"Retry", "OptIn"} -> [v EXCEPT !.loaded = FALSE, !.caret = "None"]
    [] OTHER -> v

\* render_report_popup: it goes when the cursor has left its row, or the list the focus.
Popup(v, clicked) ==
  IF v.popup = NoRank \/ v.panel THEN v
  ELSE IF Focused(v) # "List" \/ v.highlight # v.popup THEN [v EXCEPT !.popup = NoRank]
  ELSE IF clicked THEN OpenReportPanel(v) ELSE v

\* render_report_panel; its X and Submit raise the requests.
Panel(v, in) ==
  CASE in.kind = "Reason" ->
         LET r == ReasonOf[in.arg]
         IN  Snap([v EXCEPT !.reasons = IF r \in @ THEN @ \ {r} ELSE @ \cup {r}, !.caret = "None"], in.arg)
    [] in.kind = "Comment" -> Snap([v EXCEPT !.caret = "Comment"], "Comment")
    [] in.kind = "Submit" -> Snap([v EXCEPT !.submitting = TRUE, !.caret = "None"], "Submit")
    [] in.kind = "PanelX" -> [v EXCEPT !.closing = TRUE, !.caret = "None"]
    [] OTHER -> v

\* Mutant: what was checked when Submit was pressed is not checked again.
SubmitsBug(v) == v.submitting

\* do_report_submit looks again at the reasons and the account.
Submits(v) == v.submitting /\ SubmitEnabled(v)

\* What build_report_body sends; the sender is the server's to add, from the bearer token.
Report(v) == [who |-> v.reported, reasons |-> v.reasons, by |-> self]

\* The requests, after the windows; an answer that is no success leaves the panel up.
Deferred(v, outcome) ==
  IF v.submitting
  THEN IF Submits(v) /\ outcome = "Ok" THEN CloseReportPanel(v) ELSE [v EXCEPT !.submitting = FALSE]
  ELSE IF v.closing THEN CloseReportPanel(v) ELSE v

\* modal_click_outside_dismissed: a click on no window, and the banner is drawn over the
\* windows without being one.  (A press and its release are one click here, so the guard
\* against the opening click has nothing to do.)
Dismisses(in) == in.kind \in {"Leave", "Outside", "Banner"}

Drawn(v, in) == Panel(Popup(Synced(Clicked(v, in)), in.kind = "Popup"), in)

\* render_leaderboard_view, then the banner over it.
Frame(board, outcome) ==
  LET loaded == Reconciled(Loaded(view, board))
      banners == IF BannerVisible(Advanced(banner)) THEN [kind : {"Banner"}, arg : {"-"}] ELSE {}
  IN  /\ view.open
      /\ view.loaded => board = [ok |-> view.ok, rows |-> view.rows]
      /\ \E in \in BoardInputs(loaded) \cup banners :
           LET v == Drawn(loaded, in)
               w == Deferred(v, outcome)
           IN  /\ in.kind \in {"Report", "Type"} => Quiet /\ ~view.panel
               /\ in.kind \in {"Reason", "Comment"} => NoNumber
               /\ in.kind = "Popup" => v.panel
               /\ outcome = "Unasked" <=> ~Submits(v)
               /\ Goes(IF Dismisses(in) THEN Leaving(w) ELSE w)
               /\ self' = IF in.kind = "OptIn" THEN "OptedIn" ELSE self
               /\ sent' = IF Submits(v) THEN Report(v) ELSE NothingSent
               /\ Keep(IF in.kind = "Report" THEN NameAt(v, in.arg) ELSE IF view.loaded THEN meant ELSE Nobody)
               /\ typed' = IF in.kind \in {"Row", "Report", "Enter"} \/ Dismisses(in) THEN NothingTyped
                           ELSE IF ~view.loaded /\ typed.number # NoRank THEN [typed EXCEPT !.number = Unknown]
                           ELSE typed
               /\ banner' = Rendered(banner, in.kind = "Banner")

\* A click on a link of the guest's row: the view closes in the middle of the frame, whose
\* requests are served all the same.  (What that does to the focus is Interface's.)
GuestLinkFrame ==
  /\ view.open /\ view.loaded /\ self = "Guest"
  /\ Goes(Leaving(Deferred(Reconciled(view), "Unasked"))) /\ EndsNumber
  /\ \E b \in SignInOrUp : banner' = Rendered(b, FALSE)
  /\ Keep(meant) /\ sent' = NothingSent /\ UNCHANGED self

\* A frame without the board.
OtherFrame ==
  /\ ~view.open /\ BannerVisible(banner)
  /\ \E clicked \in BOOLEAN : banner' = Rendered(banner, clicked)
  /\ sent' = NothingSent /\ UNCHANGED <<view, self, typed, meant>>

(* ------------------------------ the rest --------------------------------- *)

Pass ==
  /\ view' = IF view.number # NoRank /\ view.age <= Window THEN [view EXCEPT !.age = @ + 1] ELSE view
  /\ typed' = IF typed.number # NoRank /\ typed.age <= Window THEN [typed EXCEPT !.age = @ + 1] ELSE typed
  /\ banner' = Older(banner)
  /\ sent' = NothingSent /\ UNCHANGED <<self, meant>>

\* What happens while the board is closed: the account changes, the keyboard is used,
\* a sign-in from Settings finds Auth0 down.
Elsewhere ==
  /\ ~view.open
  /\ \/ /\ self' \in Selves /\ UNCHANGED <<view, banner>>
     \/ view' = [view EXCEPT !.kbd = TRUE] /\ UNCHANGED <<self, banner>>
     \/ banner' = Trigger(banner) /\ UNCHANGED <<view, self>>
  /\ sent' = NothingSent /\ UNCHANGED <<typed, meant>>

Draw == \E board \in FetchedBoards, outcome \in ReportOutcomes : Frame(board, outcome)

Keys ==
  \/ \E reverse \in BOOLEAN : TabKey(reverse)
  \/ \E d \in Digits : DigitKey(d)
  \/ \E by \in {1, -1} : ArrowKey(by)
  \/ ReportKey
  \/ YourRowLink
  \/ ActivateKey
  \/ PanelKey
  \/ EscapeKey

Next == Open \/ Keys \/ Draw \/ GuestLinkFrame \/ OtherFrame \/ Pass \/ Elsewhere

Spec == Init /\ [][Next]_vars

(* ------------------------------ properties ------------------------------- *)

\* The cached rows, the rank fields and the focus hold what their code can hold, and a
\* stop of the board is never focused while the panel is up, nor the other way round.
BoardTypeOK ==
  /\ BannerTypeOK
  /\ DOMAIN view.rows \subseteq 1 .. 100 /\ \A r \in Ranks(view) : view.rows[r] \in Names
  /\ {view.highlight, view.saved, view.popup} \subseteq 0 .. 100 \cup {NoRank}
  /\ view.age \in 0 .. Window + 1
  /\ view.reported \in Names \cup {Nobody}
  /\ view.reasons \subseteq {"Username", "Cheating"}
  /\ view.open => \E i \in 1 .. 5 : Stops(view)[i] = view.at
  /\ view.panel => view.open /\ view.popup = NoRank

\* The player reported is the one whose row the popup was opened on, however the cursor
\* moved since, unless the board was fetched again in between; and there always is one.
\* Every field holds what BoardTypeOK says.
ReportedIsThePointedAt ==
  /\ BoardTypeOK
  /\ view.panel => view.reported \in Names /\ (meant # Nobody => view.reported = meant)

\* No report leaves without a reason or from a guest, although the button is checked one
\* frame before the request is sent.
SentAsAgreed == sent.who # Nobody => sent.reasons # {} /\ sent.by # "Guest"

\* A digit puts the cursor on the row whose number the user has typed so far, or the
\* nearest end of the board: digits less than a window apart are one number, also when the
\* Report panel was opened and closed in between; a click on a row, an arrow or a committed
\* filter in between begins a new one.
JumpIsWhatWasTyped ==
  [][typed'.number > 0 /\ typed'.age = 0 /\ typed' # typed
       => view'.highlight = Clamp(view', typed'.number)]_vars

\* A message the user has not clicked away is up for its whole time before it goes, also
\* when it replaced another.
MessageStaysItsTime == banner.phase = "SlidingOut" /\ ~banner.clicked => banner.up >= Hold
=============================================================================
