--------------------------- MODULE MCDeliveryReports ---------------------------
(* Two e-mails to the one address, or a text: texts share no state with e-mails. *)
EXTENDS DeliveryReports

Mailings == {<<"email", "email">>, <<"sms", "unused">>}
================================================================================
