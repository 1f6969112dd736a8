SPECIFICATION PluginSpec
CONSTANTS
  None = None
  Netlist1 = Netlist1
  Netlist2 = Netlist2
  Board = Board
  Png1 = Png1
  Png2 = Png2
  Absent = Absent
  Runners = {h1, h2}
  Newest = 2
  Sent <- MessagesOf
  Lanes <- AgentLanes
  AgentProfile = "agent"
  Attested <- Signed
  Plans <- Hosts
  Procs = {p1, p2}
  Me = "wire"
  PluginOrder <- Names
  Tokens <- Says
  limit = 2
  Cites <- DocumentCites
  review_record_path <- Advisory
  Songs = {"song.json"}
  NoFiles <- AtFirst
  Budgets <- Stories
INVARIANTS LegalHistory DemandsResolve DisputesHold BriefingNamesDemands
INVARIANTS AttachmentsAreKept ProfilesAreWhole ImagesAreAttested
PROPERTIES PassMeansSettled ConcernsStayAnswered
SYMMETRY Symmetric
CHECK_DEADLOCK FALSE
