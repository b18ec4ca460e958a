----------------------------- MODULE WifiStatus -----------------------------
(***************************************************************************)
(* The knob's WiFi icon and the provisioning overlay (wifi_status_ui.cpp): *)
(* the callback that wifi_manager calls on a change of state leaves work   *)
(* for LVGL's thread. The overlay is shown by net_task.                    *)
(***************************************************************************)
EXTENDS Integers, Sequences

VARIABLES
    ui,       \* the widgets exist and the callback is registered
    pending,  \* s_pending: state last told
    calls,    \* lv_async_call: work waiting for LVGL's thread
    icon,     \* state the icon is drawn for
    overlay,  \* s_prov_container exists
    races     \* ghost: orders of events that leave icon or overlay wrong

uiVars == <<ui, pending, calls, icon, overlay, races>>

WifiStates == {"disconnected", "connecting", "connected", "provisioning"}

UiInit ==
    /\ ui = FALSE /\ pending = "disconnected" /\ calls = <<>>
    /\ icon = "disconnected" /\ overlay = FALSE /\ races = {}

\* A plausible mistake: the overlay is left alone.
StateCallbackIconOnly(s, crossing) ==
    IF ~ui THEN UNCHANGED uiVars
    ELSE /\ pending' = s /\ calls' = Append(calls, "icon")
         /\ races' = crossing
         /\ UNCHANGED <<ui, icon, overlay>>

\* wifi_state_cb, when one is registered: the icon is drawn from s_pending,
\* and an overlay that exists by now is hidden on kConnected.
StateCallback(s, crossing) ==
    IF ~ui THEN UNCHANGED uiVars
    ELSE /\ pending' = s
         /\ calls' = Append(calls, "icon")
                     \o (IF s = "connected" /\ overlay THEN <<"hide">> ELSE <<>>)
         /\ races' = (races \cap {"late"}) \cup crossing
         /\ UNCHANGED <<ui, icon, overlay>>

RunCall ==
    /\ calls # <<>> /\ calls' = Tail(calls)
    /\ \/ /\ Head(calls) = "icon" /\ icon' = pending
          /\ UNCHANGED <<overlay, races>>
       \/ /\ Head(calls) = "hide" /\ overlay' = FALSE
          /\ races' = races \ {"late"} /\ UNCHANGED icon
    /\ UNCHANGED <<ui, pending>>

\* wifi_status_ui_create: what changed before is not told.
CreateUi(state) ==
    /\ ~ui /\ ui' = TRUE
    /\ races' = IF state = icon THEN races ELSE races \cup {"early"}
    /\ UNCHANGED <<pending, calls, icon, overlay>>

ShowProvision(state) ==
    /\ overlay' = TRUE
    /\ races' = IF state = "connected" THEN races \cup {"late"} ELSE races
    /\ UNCHANGED <<ui, pending, calls, icon>>
=============================================================================
