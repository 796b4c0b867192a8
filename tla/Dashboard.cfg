SPECIFICATION DashboardSpec
CONSTANTS
  Pages = {p1}
  MaxConnections = 3
  Workers = 2
  Parts = 2
  MaxVersion = 1
  NoPage = NoPage
PROPERTIES
  LiveIsCurrent
  LiveAgain
