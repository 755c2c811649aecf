-------------------------- MODULE MC_MediaFeedback ---------------------------
(* One sender.  In each behaviour it sends camera or screen and meets loss  *)
(* and delay, or congestion, or peers come and go.                          *)
EXTENDS MediaFeedback

MCEnvironments ==
    {{"VIDEO", "loss", "delay", "visibility"},
     {"VIDEO", "loss", "off"},
     {"SCREEN", "loss", "visibility", "canvas"},
     {"AUDIO", "drop", "leave"},
     {"SCREEN", "off", "heartbeat", "leave", "monitor"},
     {"AUDIO", "off", "heartbeat", "leave", "monitor"},
     {"AUDIO", "VIDEO", "heartbeat", "leave", "monitor", "other", "bad",
      "failure"}}
=============================================================================
