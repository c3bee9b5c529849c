--------------------------- MODULE MCPortTransport ---------------------------
(* A Worker that is respawned, each time with a channel of its own. *)
EXTENDS PortTransport
\* One channel within the image, one with the page.
OneWrapped == {<<CHOOSE c \in Channels : TRUE, "client">>}
\* The runtime in the page: its ends are wrapped.
PageEnds == Channels \X {"client"}
=============================================================================
