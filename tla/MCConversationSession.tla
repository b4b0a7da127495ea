----------------------- MODULE MCConversationSession -----------------------
EXTENDS ConversationSession
=============================================================================
