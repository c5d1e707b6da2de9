---------------------------- MODULE MCReplySync ----------------------------
EXTENDS ReplySync

\* A mail that no identifier will ever match arrives before the reply.
StrayThenReply == <<"stray", "reply">>
Mails2 == 1..2
=============================================================================
