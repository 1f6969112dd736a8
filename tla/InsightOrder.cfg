SPECIFICATION PluginSpec
CONSTANTS
  None = None
  Netlist1 = Netlist1
  Netlist2 = Netlist2
  Board = Board
  Png1 = Png1
  Png2 = Png2
  Absent = Absent
  Runners = {h1}
  Newest = 2
  Sent <- MessagesOf
  Lanes <- AgentLanes
  AgentProfile = "agent"
  Attested <- Signed
  Plans <- NoHost
  Procs = {p1}
  Me = "wire"
  PluginOrder <- Names
  Tokens <- Says
  limit = 2
  Cites <- DocumentCites
  review_record_path <- Advisory
  Songs = {"song.json"}
  NoFiles <- AtFirst
  Budgets <- OneInsight
INVARIANT RejectedComesBackRevised
CHECK_DEADLOCK FALSE
