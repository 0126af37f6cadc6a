SPECIFICATION FairInstance
INVARIANTS TenantLiftsOwn
PROPERTIES IsLedger LiftHolds AttackerIsBanned
CONSTANTS
    a = a  def = def  ten = ten  app = app
    Id <- Ids
    Target = {a}
    Tenant = {def, ten}
    Default = def
    Attacked = {ten}
    App = {app}
    AutoExpiry = {"later"}
    Request = {1, 2}
    Start <- Tables
    Threshold = 1
    MaxFails = 1
    MaxCalls = 2
CHECK_DEADLOCK FALSE
