--------------------------- MODULE MCConversation ---------------------------
EXTENDS Conversation

MCGists == {1, 3}
=============================================================================
