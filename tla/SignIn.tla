-------------------------------- MODULE SignIn --------------------------------
(***************************************************************************)
(* Signing in (auth_state, sign_in_workers, sign_in_polling,               *)
(* webview_sign_in, system_browser_sign_in, auth/oauth, auth/minecraft):   *)
(* in a webview window that a helper process shows, in the system browser  *)
(* with a listener on localhost, or with a code typed on another device.   *)
(* A worker runs each and sends its events to the UI, which keeps one      *)
(* channel for the interactive sign-in and one for the device code.        *)
(***************************************************************************)
EXTENDS Integers, Sequences

CONSTANTS
    MaxSignIns,     \* bound on the sign-ins started, restarts included
    HelperProfiles, \* helper_profiles: two on Linux, one elsewhere
    MaxStrays       \* bound on the requests to the listener that are no callback

SignIns == 1..MaxSignIns

VARIABLES
    started,        \* sign-ins started
    interactive,    \* AuthState.flow, of a window or browser; 0 is none
    device,         \* AuthState.device_code_flow
    expiry,         \* device_code_expiry: unset, ahead, past
    events,         \* what each worker has sent
    worker,         \* what each worker is doing
    strays,
    adopted,        \* history: sign-ins whose account was taken
    dropped         \* history: sign-ins the user gave up, or whose code expired

signInVars == <<started, interactive, device, expiry, events, worker, strays, adopted, dropped>>

\* own: the answer carries this sign-in's state and a code; renewable: the token has a
\* refresh token.
NoWorker == [kind |-> "none", pc |-> "ended", profile |-> 1, window |-> 1, reloaded |-> FALSE,
             slot |-> "none", reached |-> FALSE, shown |-> FALSE, overtaken |-> FALSE, own |-> FALSE,
             renewable |-> FALSE]

SignInInit ==
    /\ started = 0 /\ interactive = 0 /\ device = 0 /\ expiry = "unset"
    /\ events = [i \in SignIns |-> <<>>] /\ worker = [i \in SignIns |-> NoWorker]
    /\ strays = 0 /\ adopted = {} /\ dropped = {}

uiFlows == <<interactive, device, expiry>>
Send(i, event) == events' = [events EXCEPT ![i] = Append(@, event)]
At(i, pc) == worker[i].pc = pc
Go(i, pc) == worker' = [worker EXCEPT ![i].pc = pc]
End(i, event) == Go(i, "ended") /\ Send(i, event)
Same == UNCHANGED <<started, interactive, device, expiry, strays, adopted, dropped>>

-----------------------------------------------------------------------------
(* The embedded window (webview_sign_in/desktop.rs).                        *)

\* The page comes to the redirect URI: the navigation handler keeps the URL.
Redirected(i) ==
    /\ At(i, "window") /\ worker[i].slot # "redirect"
    /\ \E own \in BOOLEAN :
         worker' = [worker EXCEPT ![i].slot = "redirect", ![i].own = own, ![i].reached = TRUE]
    /\ Same /\ UNCHANGED events

\* A title, or a message of the diagnostic script: the page shows something.
PageShows(i) ==
    /\ At(i, "window") /\ ~worker[i].shown
    /\ worker' = [worker EXCEPT ![i].shown = TRUE]
    /\ Same /\ UNCHANGED events

\* CheckHealth, when nothing was shown for as long as blank_page_timeout: the page is
\* loaded once more, and then the window given up, whatever it had come to.
BlankTimeout(i) ==
    /\ At(i, "window") /\ ~worker[i].shown
    /\ worker' = [worker EXCEPT ![i] =
         IF ~@.reloaded THEN [@ EXCEPT !.reloaded = TRUE]
         ELSE [@ EXCEPT !.slot = "blank", !.pc = "closed",
                        !.overtaken = worker[i].slot = "redirect"]]
    /\ Same /\ UNCHANGED events

\* Mutant of KeptOnClose: closing the window is always giving up.
GivesUp(slot) == "cancelled"

\* CloseRequested keeps what the window came to.
KeptOnClose(slot) == IF slot = "none" THEN "cancelled" ELSE slot

\* The user closes the window, or the redirect's Finish ends it.
CloseWindow(i) ==
    /\ At(i, "window")
    /\ \/ worker' = [worker EXCEPT ![i].slot = KeptOnClose(@), ![i].pc = "closed"]
       \/ worker[i].slot = "redirect" /\ Go(i, "closed")
    /\ Same /\ UNCHANGED events

Fresh(w) == [w EXCEPT !.pc = "window", !.slot = "none", !.shown = FALSE, !.reloaded = FALSE,
                      !.own = FALSE, !.reached = FALSE, !.overtaken = FALSE]

\* maybe_run_helper_from_args: the helper hands over the code of a callback that matches.
WindowDone(i) ==
    /\ At(i, "closed")
    /\ \/ /\ worker[i].slot = "redirect" /\ worker[i].own
          /\ Go(i, "exchange") /\ Send(i, "progress")
       \/ /\ worker[i].slot = "cancelled" \/ (worker[i].slot = "redirect" /\ ~worker[i].own)
          /\ End(i, "failed")
    /\ Same

\* run_webview_window_with_retries: after a blank window a second one.
NextWindow(i) ==
    /\ At(i, "closed") /\ worker[i].slot = "blank" /\ worker[i].window = 1
    /\ worker' = [worker EXCEPT ![i] = [Fresh(worker[i]) EXCEPT !.window = 2]]
    /\ Same /\ UNCHANGED events

\* open_microsoft_sign_in: and after that another helper with another profile.
NextHelper(i) ==
    /\ At(i, "closed") /\ worker[i].slot = "blank" /\ worker[i].window = 2
    /\ IF worker[i].profile < HelperProfiles
       THEN /\ worker' = [worker EXCEPT ![i] = [Fresh(worker[i]) EXCEPT !.window = 1, !.profile = @ + 1]]
            /\ UNCHANGED events
       ELSE End(i, "failed")
    /\ Same

\* run_helper_attempt: the helper does not start, fails, or runs too long and is killed.
HelperFails(i) ==
    /\ At(i, "window") /\ worker[i].slot = "none"
    /\ End(i, "failed") /\ Same

-----------------------------------------------------------------------------
(* The system browser (system_browser_sign_in.rs).                          *)

\* Mutant of Matches: the state of the callback is not compared.
AnyState(own) == TRUE

\* extract_authorization_code.
Matches(own) == own

\* handle_callback_stream: a callback ends the wait, whatever is in it.
Callback(i) ==
    /\ At(i, "listen")
    /\ \E own \in BOOLEAN :
         /\ worker' = [worker EXCEPT ![i].own = own,
                                     ![i].pc = IF Matches(own) THEN "exchange" ELSE "ended"]
         /\ events' = [events EXCEPT ![i] = @ \o IF Matches(own) THEN <<"progress">>
                                                 ELSE <<"progress", "failed">>]
    /\ Same

\* A request that is not a GET or for another page is answered, and the wait goes on.
Stray(i) ==
    /\ At(i, "listen") /\ strays < MaxStrays
    /\ strays' = strays + 1
    /\ UNCHANGED <<started, uiFlows, events, worker, adopted, dropped>>

\* CALLBACK_TIMEOUT, the browser does not open, or a connection that says nothing.
ListenFails(i) == At(i, "listen") /\ End(i, "failed") /\ Same

-----------------------------------------------------------------------------
(* The device code (auth/device_code.rs, poll_for_microsoft_token).         *)

RequestCode(i) ==
    /\ At(i, "request")
    /\ \/ Go(i, "poll") /\ Send(i, "code")
       \/ End(i, "failed")
    /\ Same

\* Any refusal counts as waiting; the answer is this sign-in's own.
PollToken(i) ==
    /\ At(i, "poll")
    /\ \/ /\ "progress" \notin {events[i][k] : k \in DOMAIN events[i]} /\ Len(events[i]) < 2
          /\ Send(i, "progress") /\ UNCHANGED worker
       \/ /\ \E renewable \in BOOLEAN :
               worker' = [worker EXCEPT ![i].pc = "xbox", ![i].own = TRUE, ![i].renewable = renewable]
          /\ UNCHANGED events
       \/ End(i, "failed")
    /\ Same

-----------------------------------------------------------------------------
(* The services (exchange_auth_code_for_microsoft_token, minecraft.rs).     *)

Exchange(i) ==
    /\ At(i, "exchange")
    /\ \/ /\ \E renewable \in BOOLEAN :
               worker' = [worker EXCEPT ![i].pc = "xbox", ![i].renewable = renewable]
          /\ UNCHANGED events
       \/ End(i, "failed")
    /\ Same

\* A service and what follows it; what follows when it refuses.  Entitlements are asked
\* for and the answer ignored.
After == [xbox |-> "xsts", xboxagain |-> "xsts", xsts |-> "minecraft",
          minecraft |-> "profile", legacy |-> "profile", profile |-> "finish"]
Otherwise == [xbox |-> "xboxagain", minecraft |-> "legacy"]

\* complete_minecraft_login.
AskService(i) ==
    /\ worker[i].pc \in DOMAIN After
    /\ \/ Go(i, After[worker[i].pc]) /\ UNCHANGED events
       \/ /\ worker[i].pc \in DOMAIN Otherwise
          /\ Go(i, Otherwise[worker[i].pc]) /\ UNCHANGED events
       \/ End(i, "failed")
    /\ Same

\* Mutant of Acceptable: a browser's session may end with the process.
EveryAccount(w) == TRUE

\* login_finish rejects a session that cannot be renewed; the device code only warns.
Acceptable(w) == w.kind = "device" \/ w.renewable

Finish(i) ==
    /\ At(i, "finish")
    /\ IF Acceptable(worker[i]) THEN Go(i, "done") /\ Send(i, "completed") ELSE End(i, "failed")
    /\ Same

-----------------------------------------------------------------------------
(* The UI (auth_state.rs, se5/accounts.rs).                                 *)

Busy == interactive # 0 \/ device # 0

\* device_code_prompt: kept until the flow ends.
Prompted == device # 0 /\ expiry # "unset"

\* What the account menu offers.
Offered == IF Prompted THEN {"cancel", "browser"}
           ELSE IF Busy THEN {} ELSE {"browser", "webview", "device"}

NewWorker(kind, pc) ==
    /\ started < MaxSignIns
    /\ started' = started + 1
    /\ worker' = [worker EXCEPT ![started'] = [NoWorker EXCEPT !.kind = kind, !.pc = pc]]

Start(kind) ==
    /\ kind \in Offered
    /\ interactive = 0 /\ (kind # "browser" => device = 0)
    /\ NewWorker(kind, CASE kind = "webview" -> "window" [] kind = "browser" -> "listen"
                         [] OTHER -> "request")
    /\ IF kind = "device" THEN device' = started' /\ UNCHANGED <<interactive, dropped>>
       ELSE interactive' = started' /\ device' = 0 /\ dropped' = (dropped \cup {device}) \ {0}
    /\ expiry' = "unset"
    /\ UNCHANGED <<events, strays, adopted>>

CancelDevice ==
    /\ "cancel" \in Offered
    /\ device' = 0 /\ expiry' = "unset" /\ dropped' = dropped \cup {device}
    /\ UNCHANGED <<started, interactive, events, worker, strays, adopted>>

\* The code's time is over for the UI, which counts from when it heard of it.
CodeExpires ==
    /\ expiry = "ahead" /\ expiry' = "past"
    /\ UNCHANGED <<started, interactive, device, events, worker, strays, adopted, dropped>>

Holds(i, event) == \E k \in DOMAIN events[i] : events[i][k] = event
Over(i) == Holds(i, "completed") \/ Holds(i, "failed")

\* poll_interactive_flow, in one frame.
PollInteractive ==
    /\ interactive # 0 /\ events[interactive] # <<>>
    /\ events' = [events EXCEPT ![interactive] = <<>>]
    /\ adopted' = IF Holds(interactive, "completed") THEN adopted \cup {interactive} ELSE adopted
    /\ interactive' = IF Over(interactive) THEN 0 ELSE interactive
    /\ UNCHANGED <<started, device, expiry, worker, strays, dropped>>

Restart ==
    /\ NewWorker("device", "request")
    /\ device' = started' /\ expiry' = "unset"

\* poll_device_code_flow: an expired code is replaced before its events are read.
RestartExpired ==
    /\ device # 0 /\ expiry = "past"
    /\ dropped' = dropped \cup {device}
    /\ Restart
    /\ UNCHANGED <<interactive, events, strays, adopted>>

\* Mutant of Taken: only the last event of a frame counts.
LastOnly(i) == events[i][Len(events[i])] = "completed" /\ Len(events[i]) = 1

\* poll_events hands over all that was sent.
Taken(i) == Holds(i, "completed")

\* poll_device_code_flow.  A code that expires while the events are read is replaced too,
\* even after a sign-in that is complete.
PollDevice ==
    /\ device # 0 /\ expiry # "past" /\ events[device] # <<>>
    /\ events' = [events EXCEPT ![device] = <<>>]
    /\ adopted' = IF Taken(device) THEN adopted \cup {device} ELSE adopted
    /\ \/ /\ ~Over(device)
          /\ expiry' = IF Holds(device, "code") THEN "ahead" ELSE expiry
          /\ UNCHANGED <<started, device, worker>>
       \/ /\ Over(device)
          /\ device' = 0 /\ expiry' = "unset"
          /\ UNCHANGED <<started, worker>>
       \/ /\ Over(device) /\ expiry = "ahead"
          /\ Restart
    /\ UNCHANGED <<interactive, strays, dropped>>

SignInNext ==
    \/ CancelDevice \/ CodeExpires \/ PollInteractive \/ RestartExpired \/ PollDevice
    \/ \E kind \in {"webview", "browser", "device"} : Start(kind)
    \/ \E i \in SignIns :
         \/ Redirected(i) \/ BlankTimeout(i) \/ PageShows(i) \/ CloseWindow(i) \/ WindowDone(i) \/ NextWindow(i)
         \/ NextHelper(i) \/ HelperFails(i)
         \/ Callback(i) \/ Stray(i) \/ ListenFails(i) \/ RequestCode(i) \/ PollToken(i)
         \/ Exchange(i) \/ AskService(i) \/ Finish(i)

-----------------------------------------------------------------------------
\* The two kinds of flow exclude each other, though a code that expires starts the next by
\* itself.
OneFlow == interactive = 0 \/ device = 0

\* An account is taken only from an answer to the request this sign-in made, and in a
\* window or browser only when the session can be renewed.
TakenIsOwn ==
    \A i \in adopted : worker[i].own /\ (worker[i].kind # "device" => worker[i].renewable)

\* An account a worker was given is taken, unless the user gave the sign-in up or the
\* code had expired when the UI looked.
NothingLost ==
    \A i \in SignIns : At(i, "done")
        => i \in adopted \cup dropped \/ (i \in {interactive, device} /\ Holds(i, "completed"))

\* A window that came to the redirect has it when it closes, whoever closes it and whenever;
\* only the health check of a page that showed nothing on its way may put a blank window
\* in its place.
RedirectWins ==
    \A i \in SignIns : At(i, "closed") /\ worker[i].reached /\ ~worker[i].overtaken
        => worker[i].slot = "redirect"

SignInIsSound == OneFlow /\ TakenIsOwn /\ NothingLost /\ RedirectWins
=============================================================================
