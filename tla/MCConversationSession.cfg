SPECIFICATION Spec
CONSTANTS
  Callers = {c1, c2, c3}
  NoCaller = NoCaller
  Conversations = {s1, s2}
  NoConversation = NoConversation
INVARIANT OneCommand
PROPERTY EverySendReturns
