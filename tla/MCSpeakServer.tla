--------------------------- MODULE MCSpeakServer ---------------------------
EXTENDS SpeakServer

CONSTANTS c1, c2

MCClients == {c1, c2}

\* Two requests, so that the second is an unknown one, and one chunk of audio.
MCMaxSent == [h \in {0, 1} |-> 2 - h]

\* A late copy of the first CONNECT may take the peer again.
MCCopies == <<2, 1>>
=============================================================================
