SPECIFICATION PartsSpec
CONSTANTS
  cookies_Host <- MCHost
  Name = {"n"}
  Age = {0, 1}
  Date <- MCDate
  MaxTime = 1
  MaxSet = 2
  Site <- MCSite
  Response <- MCResponse
  FollowRedirects = "strict"
  RedirectLimit = 1
  NoSite = NoSite
  NoLocation = NoLocation
  Path = Path
INVARIANTS ResponseIsOwn RequestToItsSite BodyIsWhole CookiesAreCurrent
PROPERTY RequestReturns
CHECK_DEADLOCK FALSE
